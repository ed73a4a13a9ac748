--------------------------- MODULE ServicesProofs ---------------------------
(***************************************************************************)
(* What holds of the smaller services, and of what the screens show, for      *)
(* every value of their constants.  Each component has its instance, its      *)
(* inductive invariant and its theorems; variables of one name (restarts,     *)
(* registry, items, open) are never about two components at once.             *)
(***************************************************************************)
EXTENDS Integers, Sequences, FiniteSets, FiniteSetTheorems, SequenceTheorems,
        WellFoundedInduction, TLAPS

CONSTANTS Totals, MaxStarts, MaxRestarts
VARIABLES chain, rounds, starts, restarts

Chain == INSTANCE KnowledgeChain

CONSTANTS Requests, MaxAttempts, Keep, SlowProbe, MaxIds, MaxItems
VARIABLES dirs, line, reqs, records, items, redos

New == INSTANCE NewTask

-----------------------------------------------------------------------------
(* Lemmas about sequences *)

LEMMA SeqParts ==
    ASSUME NEW S, NEW s \in Seq(S)
    PROVE  /\ Len(s) \in Nat /\ DOMAIN s = 1..Len(s)
           /\ \A i \in DOMAIN s : s[i] \in S
           /\ s = [i \in 1..Len(s) |-> s[i]]
  OBVIOUS

LEMMA SeqExcept ==
    ASSUME NEW S, NEW s \in Seq(S), NEW i \in DOMAIN s, NEW x \in S
    PROVE  LET t == [s EXCEPT ![i] = x] IN
           /\ t \in Seq(S) /\ Len(t) = Len(s) /\ DOMAIN t = DOMAIN s
           /\ t[i] = x /\ \A j \in DOMAIN s : j # i => t[j] = s[j]
<1> DEFINE t == [s EXCEPT ![i] = x]
<1>1. DOMAIN t = DOMAIN s /\ t[i] = x /\ \A j \in DOMAIN s : j # i => t[j] = s[j]
  OBVIOUS
<1>2. Len(s) \in Nat /\ DOMAIN s = 1..Len(s) /\ \A j \in DOMAIN s : s[j] \in S
  BY SeqParts
<1>3. t = [j \in 1..Len(s) |-> t[j]]
  BY <1>2
<1> HIDE DEF t
<1>4. \A j \in 1..Len(s) : t[j] \in S
  BY <1>1, <1>2
<1>5. t \in [1..Len(s) -> S]
  BY <1>3, <1>4
<1>6. t \in Seq(S) /\ Len(t) = Len(s)
  BY <1>2, <1>5
<1> QED BY <1>1, <1>6 DEF t

LEMMA SeqOf ==
    ASSUME NEW S, NEW n \in Nat, NEW f, f = [i \in 1..n |-> f[i]],
           \A i \in 1..n : f[i] \in S
    PROVE  f \in Seq(S) /\ Len(f) = n /\ DOMAIN f = 1..n
<1>1. f \in [1..n -> S]
  OBVIOUS
<1> QED BY <1>1

LEMMA SeqAppend ==
    ASSUME NEW S, NEW s \in Seq(S), NEW x \in S
    PROVE  LET t == Append(s, x) IN
           /\ t \in Seq(S) /\ Len(t) = Len(s) + 1 /\ DOMAIN t = DOMAIN s \cup {Len(s) + 1}
           /\ t[Len(s) + 1] = x /\ \A j \in DOMAIN s : t[j] = s[j]
  OBVIOUS

-----------------------------------------------------------------------------
(* The knowledge chain: its inductive invariant *)

\* An operator asks for one of finitely many numbers of rounds, at least one.
Limits ==
    /\ Totals \subseteq Nat \ {0}
    /\ \E n \in Totals : \A m \in Totals : m <= n
    /\ MaxStarts \in Nat /\ MaxRestarts \in Nat

Most == CHOOSE n \in Totals : \A m \in Totals : m <= n

Firsts == {rounds[i].first : i \in DOMAIN rounds}

\* A round's place in its chain is its own.
RoundsApart ==
    /\ \A i \in DOMAIN rounds : rounds[i].first <= i /\ rounds[i].number <= rounds[i].total
    /\ \A i, j \in DOMAIN rounds :
          rounds[i].first = rounds[j].first /\ rounds[i].number = rounds[j].number => i = j
    /\ Cardinality(Firsts) <= MaxStarts

\* A start that is not answered yet has queued round 1 of a chain that is not on file.
StartsFirst ==
    \A i \in starts :
        /\ rounds[i].first = i /\ rounds[i].number = 1 /\ chain.first # i
        /\ \A j \in DOMAIN rounds : rounds[j].first = i => j = i

Newest == IF chain.item # 0 THEN chain.item ELSE chain.last

\* A chain that goes on follows its newest round.
ChainFits ==
    /\ chain.first <= Len(rounds)
    /\ ~chain.ended =>
          /\ Newest \in DOMAIN rounds
          /\ rounds[Newest].first = chain.first /\ rounds[Newest].total = chain.total
          /\ rounds[Newest].number = chain.started + (IF chain.item # 0 THEN 1 ELSE 0)
          /\ \A i \in DOMAIN rounds :
                rounds[i].first = chain.first => rounds[i].number <= rounds[Newest].number

\* The only round of the chain that may still wait is the one it follows.
WaitsInItem ==
    \A i \in DOMAIN rounds :
        rounds[i].state = "waiting" /\ rounds[i].first = chain.first
        => ~chain.ended /\ i = chain.item

RoundsInv == Chain!RoundsInOrder /\ RoundsApart /\ StartsFirst /\ ChainFits /\ WaitsInItem

-----------------------------------------------------------------------------
(* How the rounds on record change *)

RoundMoves(i) ==
    /\ rounds'[i] \in Chain!Round
    /\ rounds'[i].first = rounds[i].first /\ rounds'[i].number = rounds[i].number
    /\ rounds'[i].total = rounds[i].total
    /\ rounds[i].run = "succeeded" => rounds'[i].run = "succeeded"
    /\ rounds'[i].state = "waiting" => rounds[i].state = "waiting"

RoundsMove ==
    /\ rounds' \in Seq(Chain!Round) /\ Len(rounds') = Len(rounds) /\ DOMAIN rounds' = DOMAIN rounds
    /\ \A i \in DOMAIN rounds : RoundMoves(i)

RoundQueued(first, number, total) ==
    LET n == Len(rounds) + 1 IN
    /\ Len(rounds') = n /\ DOMAIN rounds' = DOMAIN rounds \cup {n}
    /\ \A i \in DOMAIN rounds : rounds'[i] = rounds[i]
    /\ rounds'[n] = [first |-> first, number |-> number, total |-> total,
                     state |-> "waiting", run |-> "none"]

LEMMA RoundTypes ==
    ASSUME Chain!TypeOK
    PROVE  /\ rounds \in Seq(Chain!Round)
           /\ Len(rounds) \in Nat /\ DOMAIN rounds = 1..Len(rounds)
           /\ \A i \in DOMAIN rounds : rounds[i] \in Chain!Round
           /\ starts \subseteq DOMAIN rounds /\ chain \in Chain!Chain
<1>1. rounds \in Seq(Chain!Round) /\ starts \subseteq DOMAIN rounds /\ chain \in Chain!Chain
  BY DEF Chain!TypeOK
<1> QED BY <1>1, SeqParts

LEMMA UpTo ==
    ASSUME NEW n \in Nat
    PROVE  IsFiniteSet(1..n) /\ Cardinality(1..n) = n
  BY FS_Interval

\* The bound on the rounds is that of the chains times the rounds of each.
LEMMA Bounds ==
    ASSUME Limits
    PROVE  /\ Most \in Totals /\ \A m \in Totals : m <= Most
           /\ Chain!MaxRounds = MaxStarts * Most /\ Chain!MaxRounds \in Nat
<1>1. Most \in Totals /\ \A m \in Totals : m <= Most
  BY DEF Limits, Most
<1>2. Chain!MaxRounds = MaxStarts * Most
  BY DEF Chain!MaxRounds, Most
<1> QED BY <1>1, <1>2 DEF Limits

\* The rounds that were made keep their order.
Numbered ==
    \A i \in DOMAIN rounds :
        /\ rounds[i].number <= rounds[i].total
        /\ rounds[i].number > 1 =>
              \E j \in 1..(i - 1) : /\ rounds[j].first = rounds[i].first
                                    /\ rounds[j].number = rounds[i].number - 1
                                    /\ rounds[j].run = "succeeded"

LEMMA InvParts ==
    RoundsInv <=> /\ Chain!TypeOK /\ Numbered /\ RoundsApart
                  /\ StartsFirst /\ ChainFits /\ WaitsInItem
  BY DEF RoundsInv, Chain!RoundsInOrder, Numbered

LEMMA MovesKeepOrder ==
    ASSUME Chain!TypeOK, Numbered, RoundsApart, RoundsMove
    PROVE  Numbered' /\ RoundsApart'
<1>1. /\ DOMAIN rounds' = DOMAIN rounds /\ DOMAIN rounds = 1..Len(rounds) /\ Len(rounds) \in Nat
      /\ \A i \in DOMAIN rounds :
            /\ rounds'[i].first = rounds[i].first /\ rounds'[i].number = rounds[i].number
            /\ rounds'[i].total = rounds[i].total
            /\ rounds[i].run = "succeeded" => rounds'[i].run = "succeeded"
  BY RoundTypes DEF RoundsMove, RoundMoves
<1>2. Numbered'
  <2> SUFFICES ASSUME NEW i \in DOMAIN rounds
               PROVE  /\ rounds'[i].number <= rounds'[i].total
                      /\ rounds'[i].number > 1 =>
                            \E j \in 1..(i - 1) : /\ rounds'[j].first = rounds'[i].first
                                                  /\ rounds'[j].number = rounds'[i].number - 1
                                                  /\ rounds'[j].run = "succeeded"
    BY <1>1 DEF Numbered
  <2>1. \A j \in 1..(i - 1) : j \in DOMAIN rounds
    BY <1>1
  <2> QED BY <1>1, <2>1 DEF Numbered
<1>3. Firsts' = Firsts
  BY <1>1 DEF Firsts
<1> QED BY <1>1, <1>2, <1>3 DEF RoundsApart

LEMMA MovesKeepChain ==
    ASSUME Chain!TypeOK, StartsFirst, ChainFits, WaitsInItem, RoundsMove,
           UNCHANGED chain, starts' \subseteq starts
    PROVE  StartsFirst' /\ ChainFits' /\ WaitsInItem'
<1>1. /\ DOMAIN rounds' = DOMAIN rounds /\ Len(rounds') = Len(rounds)
      /\ starts \subseteq DOMAIN rounds
      /\ \A i \in DOMAIN rounds :
            /\ rounds'[i].first = rounds[i].first /\ rounds'[i].number = rounds[i].number
            /\ rounds'[i].total = rounds[i].total
            /\ rounds'[i].state = "waiting" => rounds[i].state = "waiting"
  BY RoundTypes DEF RoundsMove, RoundMoves
<1>2. StartsFirst'
  BY <1>1 DEF StartsFirst
<1>3. Newest' = Newest
  BY DEF Newest
<1>4. ChainFits'
  BY <1>1, <1>3 DEF ChainFits
<1>5. WaitsInItem'
  BY <1>1 DEF WaitsInItem
<1> QED BY <1>2, <1>4, <1>5

\* The actions of the queue and the launches move one round.
LEMMA OneRoundMoves ==
    ASSUME Chain!TypeOK, NEW i \in DOMAIN rounds, NEW round \in Chain!Round,
           rounds' = [rounds EXCEPT ![i] = round],
           round.first = rounds[i].first, round.number = rounds[i].number,
           round.total = rounds[i].total,
           rounds[i].run = "succeeded" => round.run = "succeeded",
           round.state = "waiting" => rounds[i].state = "waiting"
    PROVE  RoundsMove
<1>1. /\ rounds' \in Seq(Chain!Round) /\ Len(rounds') = Len(rounds)
      /\ DOMAIN rounds' = DOMAIN rounds /\ rounds'[i] = round
      /\ \A j \in DOMAIN rounds : j # i => rounds'[j] = rounds[j]
  BY RoundTypes, SeqExcept
<1>2. \A j \in DOMAIN rounds : rounds[j] \in Chain!Round
  BY RoundTypes
<1> QED BY <1>1, <1>2 DEF RoundsMove, RoundMoves

LEMMA QueueMoves ==
    ASSUME Chain!TypeOK, NEW i \in DOMAIN rounds,
           \/ Chain!Pick(i) \/ Chain!StartRound(i) \/ Chain!RoundEnds(i)
           \/ Chain!Cancel(i) \/ Chain!Forget(i)
    PROVE  RoundsMove /\ UNCHANGED <<chain, starts, restarts>>
<1>0. rounds[i] \in Chain!Round
  BY RoundTypes
<1>1. CASE Chain!Pick(i)
  <2> DEFINE round == [rounds[i] EXCEPT !.state = "starting"]
  <2>1. round \in Chain!Round /\ rounds' = [rounds EXCEPT ![i] = round]
    BY <1>0, <1>1 DEF Chain!Pick, Chain!Round
  <2> QED BY <1>0, <1>1, <2>1, OneRoundMoves DEF Chain!Pick, Chain!Round
<1>2. CASE Chain!StartRound(i)
  <2>1. CASE /\ rounds[i].run = "none"
             /\ \E s \in {"failed", "skipped"} : rounds' = [rounds EXCEPT ![i].state = s]
    <3>1. PICK s \in {"failed", "skipped"} : rounds' = [rounds EXCEPT ![i].state = s]
      BY <2>1
    <3> DEFINE round == [rounds[i] EXCEPT !.state = s]
    <3>2. round \in Chain!Round /\ rounds' = [rounds EXCEPT ![i] = round]
      BY <1>0, <3>1 DEF Chain!Round
    <3> QED BY <1>0, <1>2, <3>2, OneRoundMoves DEF Chain!StartRound, Chain!Round
  <2>2. CASE rounds[i].run = "none" /\ rounds' = [rounds EXCEPT ![i].run = "running"]
    <3> DEFINE round == [rounds[i] EXCEPT !.run = "running"]
    <3>1. round \in Chain!Round /\ rounds' = [rounds EXCEPT ![i] = round]
      BY <1>0, <2>2 DEF Chain!Round
    <3> QED BY <1>0, <1>2, <2>2, <3>1, OneRoundMoves DEF Chain!StartRound, Chain!Round
  <2>3. CASE rounds' = [rounds EXCEPT ![i].state = "started"]
    <3> DEFINE round == [rounds[i] EXCEPT !.state = "started"]
    <3>1. round \in Chain!Round /\ rounds' = [rounds EXCEPT ![i] = round]
      BY <1>0, <2>3 DEF Chain!Round
    <3> QED BY <1>0, <1>2, <3>1, OneRoundMoves DEF Chain!StartRound, Chain!Round
  <2> QED BY <1>2, <2>1, <2>2, <2>3 DEF Chain!StartRound
<1>3. CASE Chain!RoundEnds(i)
  <2>1. PICK e \in {"succeeded", "bad"} : rounds' = [rounds EXCEPT ![i].run = e]
    BY <1>3 DEF Chain!RoundEnds
  <2> DEFINE round == [rounds[i] EXCEPT !.run = e]
  <2>2. round \in Chain!Round /\ rounds' = [rounds EXCEPT ![i] = round]
    BY <1>0, <2>1 DEF Chain!Round
  <2> QED BY <1>0, <1>3, <2>2, OneRoundMoves DEF Chain!RoundEnds, Chain!Running, Chain!Round
<1>4. CASE Chain!Cancel(i)
  <2> DEFINE round == [rounds[i] EXCEPT !.state = "cancelled"]
  <2>1. round \in Chain!Round /\ rounds' = [rounds EXCEPT ![i] = round]
    BY <1>0, <1>4 DEF Chain!Cancel, Chain!Round
  <2> QED BY <1>0, <1>4, <2>1, OneRoundMoves DEF Chain!Cancel, Chain!Round
<1>5. CASE Chain!Forget(i)
  <2> DEFINE round == [rounds[i] EXCEPT !.state = "gone"]
  <2>1. round \in Chain!Round /\ rounds' = [rounds EXCEPT ![i] = round]
    BY <1>0, <1>5 DEF Chain!Forget, Chain!Round
  <2>2. /\ round.first = rounds[i].first /\ round.number = rounds[i].number
        /\ round.total = rounds[i].total /\ round.run = rounds[i].run /\ round.state = "gone"
    BY <1>0 DEF Chain!Round
  <2>3. UNCHANGED <<chain, starts, restarts>>
    BY <1>5 DEF Chain!Forget
  <2> HIDE DEF round
  <2>4. RoundsMove
    BY <2>1, <2>2, OneRoundMoves
  <2> QED BY <2>3, <2>4
<1> QED BY <1>1, <1>2, <1>3, <1>4, <1>5

LEMMA ChainInit == Limits /\ Chain!Init => RoundsInv
<1> SUFFICES ASSUME Limits, Chain!Init PROVE RoundsInv
  OBVIOUS
<1>1. rounds = <<>> /\ starts = {} /\ DOMAIN rounds = {} /\ Len(rounds) = 0 /\ chain = Chain!NoChain
  BY DEF Chain!Init
<1>2. Chain!TypeOK
  <2>1. Chain!MaxRounds \in Nat
    BY Bounds
  <2>2. chain \in Chain!Chain
    BY <1>1, <2>1 DEF Chain!NoChain, Chain!Chain
  <2> QED BY <1>1, <2>1, <2>2 DEF Chain!TypeOK, Chain!Init, Limits
<1>3. Firsts = {}
  BY <1>1 DEF Firsts
<1>4. RoundsApart
  BY <1>1, <1>3, FS_EmptySet DEF RoundsApart, Limits
<1>5. Numbered /\ StartsFirst /\ WaitsInItem
  BY <1>1 DEF Numbered, StartsFirst, WaitsInItem
<1>6. ChainFits
  BY <1>1 DEF ChainFits, Chain!NoChain
<1> QED BY <1>2, <1>4, <1>5, <1>6, InvParts

\* Steps of the queue and the launches, and a restart.
LEMMA MovesKeepInv ==
    ASSUME Limits, RoundsInv, RoundsMove, UNCHANGED chain, starts' \subseteq starts,
           restarts' \in 0..MaxRestarts
    PROVE  RoundsInv'
<1>1. Chain!TypeOK'
  BY RoundTypes DEF RoundsInv, Chain!RoundsInOrder, Chain!TypeOK, RoundsMove
<1> QED BY <1>1, InvParts, MovesKeepOrder, MovesKeepChain
             DEF RoundsInv, Chain!RoundsInOrder, Numbered

\* A round is put at the end of the queue, in a place of its chain that is free.
LEMMA RoundAdded ==
    ASSUME Limits, RoundsInv, NEW first \in 1..(Len(rounds) + 1), NEW total \in Totals,
           NEW number \in 1..total, rounds' = Chain!Enqueued(first, number, total),
           \A i \in DOMAIN rounds : rounds[i].first = first => rounds[i].number # number,
           number > 1 => \E j \in DOMAIN rounds : /\ rounds[j].first = first
                                                 /\ rounds[j].number = number - 1
                                                 /\ rounds[j].run = "succeeded",
           first \in Firsts \/ Cardinality(Firsts) < MaxStarts
    PROVE  /\ rounds' \in Seq(Chain!Round) /\ Len(rounds') <= Chain!MaxRounds
           /\ Numbered' /\ RoundsApart' /\ RoundQueued(first, number, total)
<1> DEFINE n   == Len(rounds) + 1
           new == [first |-> first, number |-> number, total |-> total,
                   state |-> "waiting", run |-> "none"]
<1>1. /\ Chain!TypeOK /\ Numbered /\ RoundsApart
      /\ rounds \in Seq(Chain!Round) /\ Len(rounds) \in Nat /\ DOMAIN rounds = 1..Len(rounds)
      /\ \A i \in DOMAIN rounds : rounds[i] \in Chain!Round
  BY InvParts, RoundTypes
<1>2. rounds' = Append(rounds, new)
  BY DEF Chain!Enqueued
<1>3. /\ Len(rounds') = n /\ DOMAIN rounds' = DOMAIN rounds \cup {n}
      /\ rounds'[n] = new /\ \A i \in DOMAIN rounds : rounds'[i] = rounds[i]
  <2>1. rounds \in Seq(Chain!Round \cup {new})
    BY <1>1
  <2> HIDE DEF new
  <2> QED BY <1>2, <2>1, SeqAppend
<1>4. n \in Nat /\ n \notin DOMAIN rounds /\ DOMAIN rounds' = 1..n
  BY <1>1, <1>3
<1>5. /\ number \in Nat /\ number >= 1 /\ total \in Nat /\ number <= total /\ total <= Most
      /\ Most \in Nat /\ Chain!MaxRounds = MaxStarts * Most /\ Chain!MaxRounds \in Nat
  <2>1. Totals \subseteq Nat \ {0}
    BY DEF Limits
  <2>2. total \in Nat /\ total <= Most
    BY <2>1, Bounds
  <2>3. Most \in Nat /\ Chain!MaxRounds = MaxStarts * Most /\ Chain!MaxRounds \in Nat
    BY <2>1, Bounds
  <2> QED BY <2>2, <2>3
<1>6. RoundQueued(first, number, total)
  BY <1>3 DEF RoundQueued
<1>7. Firsts' = Firsts \cup {first}
  <2>1. rounds'[n].first = first
    BY <1>3
  <2> HIDE DEF n
  <2> QED BY <1>3, <2>1 DEF Firsts
<1>8. IsFiniteSet(Firsts)
  <2>1. IsFiniteSet(1..Len(rounds)) /\ Firsts \subseteq 1..Len(rounds)
    <3>1. \A i \in DOMAIN rounds : rounds[i].first \in Nat /\ rounds[i].first >= 1
      BY <1>1, <1>5 DEF Chain!Round
    <3>2. \A i \in DOMAIN rounds : rounds[i].first \in 1..Len(rounds)
      BY <1>1, <3>1 DEF RoundsApart
    <3>3. Firsts \subseteq 1..Len(rounds)
      BY <3>2 DEF Firsts
    <3> QED BY <1>1, <3>3, FS_Interval
  <2> QED BY <2>1, FS_Subset
<1>9. IsFiniteSet(Firsts') /\ Cardinality(Firsts') <= MaxStarts
  <2>1. Cardinality(Firsts) \in Nat /\ Cardinality(Firsts) <= MaxStarts
    BY <1>1, <1>8, FS_CardinalityType DEF RoundsApart
  <2>2. CASE first \in Firsts
    BY <1>7, <1>8, <2>1, <2>2
  <2>3. CASE first \notin Firsts
    <3>1. /\ IsFiniteSet(Firsts \cup {first})
          /\ Cardinality(Firsts \cup {first}) = Cardinality(Firsts) + 1
      BY <1>8, <2>3, FS_AddElement
    <3>2. Cardinality(Firsts) < MaxStarts /\ MaxStarts \in Nat
      BY <2>3 DEF Limits
    <3> QED BY <1>7, <2>1, <3>1, <3>2
  <2> QED BY <2>2, <2>3
<1>10. \A i \in 1..n : rounds'[i].number \in 1..Most /\ rounds'[i].first \in Firsts'
  <2> SUFFICES ASSUME NEW i \in 1..n
               PROVE  rounds'[i].number \in 1..Most /\ rounds'[i].first \in Firsts'
    OBVIOUS
  <2>1. rounds'[i].first \in Firsts'
    BY <1>4 DEF Firsts
  <2>2. CASE i = n
    BY <1>3, <1>5, <2>1, <2>2
  <2>3. CASE i \in DOMAIN rounds
    <3>1. rounds'[i] = rounds[i] /\ rounds[i].number \in 1..Chain!MaxRounds
          /\ rounds[i].total \in Totals /\ rounds[i].number <= rounds[i].total
      BY <1>1, <1>3, <2>3 DEF Chain!Round, RoundsApart
    <3>2. rounds[i].total <= Most /\ rounds[i].total \in Nat
      BY <3>1, Bounds DEF Limits
    <3> QED BY <1>5, <2>1, <3>1, <3>2
  <2> QED BY <1>3, <1>4, <2>2, <2>3
<1>11. \A i, j \in 1..n :
          rounds'[i].first = rounds'[j].first /\ rounds'[i].number = rounds'[j].number => i = j
  <2>1. new.first = first /\ new.number = number
    OBVIOUS
  <2> HIDE DEF new, n
  <2> QED BY <1>1, <1>3, <1>4, <2>1 DEF RoundsApart
<1>12. n <= Chain!MaxRounds
  <2> DEFINE place == [i \in 1..n |-> <<rounds'[i].first, rounds'[i].number>>]
  <2>1. IsFiniteSet(1..Most) /\ Cardinality(1..Most) = Most
    BY <1>5, UpTo
  <2>2. PICK F : F = Firsts'
    OBVIOUS
  <2>3. IsFiniteSet(F) /\ Cardinality(F) \in Nat /\ Cardinality(F) <= MaxStarts
    BY <1>9, <2>2, FS_CardinalityType
  <2>4. /\ IsFiniteSet(F \X (1..Most))
        /\ Cardinality(F \X (1..Most)) = Cardinality(F) * Most
    BY <2>1, <2>3, FS_Product
  <2>5. place \in Injection(1..n, F \X (1..Most))
    <3> HIDE DEF n
    <3>1. place \in [1..n -> F \X (1..Most)]
      BY <1>10, <2>2
    <3>2. \A i, j \in 1..n : place[i] = place[j] => i = j
      BY <1>11
    <3> QED BY <3>1, <3>2 DEF Injection, IsInjective
  <2> HIDE DEF place, n
  <2>6. Cardinality(1..n) <= Cardinality(F) * Most
    BY <2>4, <2>5, FS_Injection
  <2>7. Cardinality(1..n) = n
    BY <1>4, UpTo
  <2>8. Cardinality(F) * Most <= MaxStarts * Most
    BY <1>5, <2>3 DEF Limits
  <2>9. Cardinality(F) * Most \in Nat /\ MaxStarts * Most \in Nat
    BY <1>5, <2>3 DEF Limits
  <2> QED BY <1>4, <1>5, <2>6, <2>7, <2>8, <2>9
<1>13. new \in Chain!Round
  <2>1. MaxStarts >= 1 /\ MaxStarts \in Nat
    BY <1>1, <1>4, <1>5, <1>12 DEF Limits
  <2>2. Most <= MaxStarts * Most
    BY <1>5, <2>1
  <2> QED BY <1>4, <1>5, <1>12, <2>2 DEF Chain!Round
<1>14. rounds' \in Seq(Chain!Round)
  <2> HIDE DEF new
  <2> QED BY <1>1, <1>2, <1>13, SeqAppend
<1>15. RoundsApart'
  <2>1. \A i \in DOMAIN rounds' : rounds'[i].first <= i /\ rounds'[i].number <= rounds'[i].total
    <3>1. new.first <= n /\ new.number <= new.total
      BY <1>4, <1>5
    <3> HIDE DEF new, n
    <3> QED BY <1>1, <1>3, <3>1 DEF RoundsApart
  <2> QED BY <1>4, <1>9, <1>11, <2>1 DEF RoundsApart
<1>16. Numbered'
  <2> SUFFICES ASSUME NEW i \in 1..n
               PROVE  /\ rounds'[i].number <= rounds'[i].total
                      /\ rounds'[i].number > 1 =>
                            \E j \in 1..(i - 1) : /\ rounds'[j].first = rounds'[i].first
                                                  /\ rounds'[j].number = rounds'[i].number - 1
                                                  /\ rounds'[j].run = "succeeded"
    BY <1>4 DEF Numbered
  <2>1. CASE i = n
    <3>1. DOMAIN rounds = 1..(i - 1)
      BY <1>1, <2>1
    <3> QED BY <1>3, <1>5, <2>1, <3>1
  <2>2. CASE i \in DOMAIN rounds
    <3>1. \A j \in 1..(i - 1) : j \in DOMAIN rounds
      BY <1>1, <2>2
    <3> QED BY <1>1, <1>3, <2>2, <3>1 DEF Numbered
  <2> QED BY <1>3, <1>4, <2>1, <2>2
<1> QED BY <1>3, <1>6, <1>12, <1>14, <1>15, <1>16

LEMMA StartKeeps ==
    ASSUME Limits, RoundsInv, NEW total \in Totals, Chain!Start(total)
    PROVE  RoundsInv'
<1> DEFINE n == Len(rounds) + 1
<1>1. /\ Chain!TypeOK /\ RoundsApart /\ StartsFirst /\ ChainFits /\ WaitsInItem
      /\ Len(rounds) \in Nat /\ DOMAIN rounds = 1..Len(rounds) /\ starts \subseteq DOMAIN rounds
  BY InvParts, RoundTypes
<1>2. /\ rounds' = Chain!Enqueued(n, 1, total) /\ starts' = starts \cup {n}
      /\ UNCHANGED <<chain, restarts>> /\ Cardinality(Firsts) < MaxStarts
  <2>1. Cardinality({rounds[i].first : i \in DOMAIN rounds}) < MaxStarts
    BY DEF Chain!Start, Chain!Cardinality, Cardinality
  <2>2. /\ rounds' = Chain!Enqueued(n, 1, total) /\ starts' = starts \cup {n}
        /\ UNCHANGED <<chain, restarts>>
    BY DEF Chain!Start
  <2> QED BY <2>1, <2>2 DEF Firsts
<1>3. \A i \in DOMAIN rounds : rounds[i].first <= i /\ rounds[i].first \in Nat
  BY <1>1, RoundTypes, Bounds DEF RoundsApart, Chain!Round
<1>4. n \in 1..(Len(rounds) + 1) /\ 1 \in 1..total /\ n \notin DOMAIN rounds
      /\ \A i \in DOMAIN rounds : rounds[i].first # n
  BY <1>1, <1>3 DEF Limits
<1> HIDE DEF n
<1>5. /\ rounds' \in Seq(Chain!Round) /\ Len(rounds') <= Chain!MaxRounds
      /\ Numbered' /\ RoundsApart' /\ RoundQueued(n, 1, total)
  BY <1>2, <1>4, RoundAdded
<1>6. /\ DOMAIN rounds' = DOMAIN rounds \cup {n} /\ Len(rounds') = n
      /\ \A i \in DOMAIN rounds : rounds'[i] = rounds[i]
      /\ rounds'[n].first = n /\ rounds'[n].number = 1
  BY <1>5 DEF RoundQueued, n
<1>7. Chain!TypeOK'
  BY <1>1, <1>2, <1>5, <1>6 DEF Chain!TypeOK
<1>8. chain.first \in Nat /\ chain.first < n
  BY <1>1, Bounds DEF n, ChainFits, Chain!TypeOK, Chain!Chain
<1>9. StartsFirst'
  BY <1>1, <1>2, <1>4, <1>6, <1>8 DEF StartsFirst
<1>10. ChainFits'
  <2>1. Newest' = Newest
    BY <1>2 DEF Newest
  <2>2. n \in Nat
    BY <1>1 DEF n
  <2>3. ~chain.ended => Newest \in DOMAIN rounds /\ rounds'[Newest] = rounds[Newest]
    BY <1>1, <1>6 DEF ChainFits
  <2>4. chain'.first <= Len(rounds')
    BY <1>2, <1>6, <1>8, <2>2
  <2>5. ~chain.ended => \A i \in DOMAIN rounds' :
           rounds'[i].first = chain.first => rounds'[i].number <= rounds[Newest].number
    BY <1>1, <1>6, <1>8, <2>2 DEF ChainFits
  <2> QED BY <1>1, <1>2, <1>6, <2>1, <2>3, <2>4, <2>5 DEF ChainFits
<1>11. WaitsInItem'
  BY <1>1, <1>2, <1>6, <1>8 DEF WaitsInItem
<1> QED BY <1>5, <1>7, <1>9, <1>10, <1>11 DEF RoundsInv, Chain!RoundsInOrder, Numbered

LEMMA StartedKeeps ==
    ASSUME Limits, RoundsInv, NEW i \in DOMAIN rounds, Chain!Started(i)
    PROVE  RoundsInv'
<1>1. /\ Chain!TypeOK /\ Numbered /\ RoundsApart /\ StartsFirst /\ ChainFits /\ WaitsInItem
      /\ Len(rounds) \in Nat /\ DOMAIN rounds = 1..Len(rounds) /\ Len(rounds) <= Chain!MaxRounds
      /\ rounds[i] \in Chain!Round
  BY InvParts, RoundTypes DEF Chain!TypeOK
<1>2. /\ i \in starts /\ starts' = starts \ {i} /\ UNCHANGED <<rounds, restarts>>
      /\ rounds[i].first = i /\ rounds[i].number = 1
      /\ \A j \in DOMAIN rounds : rounds[j].first = i => j = i
  BY <1>1 DEF Chain!Started, StartsFirst
<1> DEFINE new(started, item, last) ==
             [first |-> i, total |-> rounds[i].total, started |-> started, item |-> item,
              last |-> last, ended |-> FALSE]
<1>3. \/ rounds[i].state = "started" /\ chain' = new(1, 0, i)
      \/ rounds[i].state \in {"waiting", "starting"} /\ chain' = new(0, i, 0)
      \/ rounds[i].state # "waiting" /\ chain' = chain
  BY DEF Chain!Started, Chain!NoChain
<1>4. Chain!MaxRounds \in Nat /\ i \in 1..Chain!MaxRounds /\ i # 0
  BY <1>1, Bounds
<1>5. Numbered' /\ RoundsApart'
  BY <1>1, <1>2 DEF Numbered, RoundsApart, Firsts
<1>6. CASE chain' = chain
  <2>1. Chain!TypeOK' /\ StartsFirst' /\ WaitsInItem' /\ ChainFits'
    BY <1>1, <1>2, <1>6 DEF Chain!TypeOK, StartsFirst, WaitsInItem, ChainFits, Newest
  <2> QED BY <1>5, <2>1 DEF RoundsInv, Chain!RoundsInOrder, Numbered
<1>7. CASE rounds[i].state = "started" /\ chain' = new(1, 0, i)
  <2>1. /\ chain'.first = i /\ chain'.item = 0 /\ chain'.last = i /\ chain'.started = 1
        /\ chain'.total = rounds[i].total /\ chain'.ended = FALSE /\ chain' \in Chain!Chain
    BY <1>1, <1>4, <1>7 DEF Chain!Chain, Chain!Round
  <2>2. Chain!TypeOK' /\ StartsFirst'
    BY <1>1, <1>2, <2>1 DEF Chain!TypeOK, StartsFirst
  <2>3. WaitsInItem'
    BY <1>2, <1>7, <2>1 DEF WaitsInItem
  <2>4. Newest' = i
    BY <2>1 DEF Newest
  <2>5. ChainFits'
    BY <1>1, <1>2, <2>1, <2>4 DEF ChainFits
  <2> QED BY <1>5, <2>2, <2>3, <2>5 DEF RoundsInv, Chain!RoundsInOrder, Numbered
<1>8. CASE chain' = new(0, i, 0)
  <2>1. /\ chain'.first = i /\ chain'.item = i /\ chain'.last = 0 /\ chain'.started = 0
        /\ chain'.total = rounds[i].total /\ chain'.ended = FALSE /\ chain' \in Chain!Chain
    BY <1>1, <1>4, <1>8 DEF Chain!Chain, Chain!Round
  <2>2. Chain!TypeOK' /\ StartsFirst'
    BY <1>1, <1>2, <2>1 DEF Chain!TypeOK, StartsFirst
  <2>3. WaitsInItem'
    BY <1>2, <2>1 DEF WaitsInItem
  <2>4. Newest' = i
    BY <1>4, <2>1 DEF Newest
  <2>5. ChainFits'
    BY <1>1, <1>2, <1>4, <2>1, <2>4 DEF ChainFits
  <2> QED BY <1>5, <2>2, <2>3, <2>5 DEF RoundsInv, Chain!RoundsInOrder, Numbered
<1> QED BY <1>3, <1>6, <1>7, <1>8

LEMMA FollowKeeps ==
    ASSUME Limits, RoundsInv, Chain!FollowRound
    PROVE  RoundsInv'
<1>1. /\ Chain!TypeOK /\ Numbered /\ RoundsApart /\ StartsFirst /\ ChainFits /\ WaitsInItem
      /\ Len(rounds) \in Nat /\ DOMAIN rounds = 1..Len(rounds)
      /\ chain \in Chain!Chain /\ \A i \in DOMAIN rounds : rounds[i] \in Chain!Round
  BY InvParts, RoundTypes
<1>2. /\ ~chain.ended /\ chain.item # 0 /\ UNCHANGED <<rounds, starts, restarts>>
      /\ rounds[chain.item].state # "waiting"
      /\ Newest = chain.item /\ chain.item \in DOMAIN rounds
      /\ rounds[chain.item].number = chain.started + 1
  BY <1>1 DEF Chain!FollowRound, Chain!Over, ChainFits, Newest
<1>3. Numbered' /\ RoundsApart'
  BY <1>1, <1>2 DEF Numbered, RoundsApart, Firsts
<1>4. CASE chain' = [chain EXCEPT !.started = @ + 1, !.last = chain.item, !.item = 0]
  <2>1. /\ chain'.first = chain.first /\ chain'.total = chain.total /\ chain'.item = 0
        /\ chain'.last = chain.item /\ chain'.started = chain.started + 1
        /\ chain'.ended = chain.ended
    BY <1>1, <1>4 DEF Chain!Chain
  <2>2. chain.started + 1 \in 0..Chain!MaxRounds
    BY <1>1, <1>2, Bounds DEF Chain!Round
  <2>3. chain' \in Chain!Chain
    <3>1. 0 \in 0..Chain!MaxRounds /\ chain.item \in 0..Chain!MaxRounds
      BY <1>1, Bounds DEF Chain!Chain
    <3> QED BY <1>1, <1>4, <2>2, <3>1 DEF Chain!Chain
  <2>4. Chain!TypeOK' /\ StartsFirst'
    BY <1>1, <1>2, <2>1, <2>3 DEF Chain!TypeOK, StartsFirst
  <2>5. WaitsInItem'
    BY <1>1, <1>2, <2>1 DEF WaitsInItem
  <2>6. Newest' = chain.item
    BY <2>1 DEF Newest
  <2>7. ChainFits'
    BY <1>1, <1>2, <2>1, <2>6 DEF ChainFits, Chain!Chain
  <2> QED BY <1>3, <2>4, <2>5, <2>7 DEF RoundsInv, Chain!RoundsInOrder, Numbered
<1>5. CASE chain' = [chain EXCEPT !.ended = TRUE]
  <2>1. chain'.first = chain.first /\ chain'.ended = TRUE /\ chain' \in Chain!Chain
    BY <1>1, <1>5 DEF Chain!Chain
  <2>2. Chain!TypeOK' /\ StartsFirst' /\ WaitsInItem' /\ ChainFits'
    BY <1>1, <1>2, <2>1 DEF Chain!TypeOK, StartsFirst, WaitsInItem, ChainFits
  <2> QED BY <1>3, <2>2 DEF RoundsInv, Chain!RoundsInOrder, Numbered
<1> QED BY <1>4, <1>5 DEF Chain!FollowRound, Chain!End

LEMMA NextKeeps ==
    ASSUME Limits, RoundsInv, Chain!NextRound
    PROVE  RoundsInv'
<1> DEFINE n == Len(rounds) + 1
<1>1. /\ Chain!TypeOK /\ Numbered /\ RoundsApart /\ StartsFirst /\ ChainFits /\ WaitsInItem
      /\ Len(rounds) \in Nat /\ DOMAIN rounds = 1..Len(rounds) /\ starts \subseteq DOMAIN rounds
      /\ chain \in Chain!Chain /\ \A i \in DOMAIN rounds : rounds[i] \in Chain!Round
  BY InvParts, RoundTypes
<1>2. /\ ~chain.ended /\ chain.item = 0 /\ UNCHANGED <<starts, restarts>>
      /\ chain.last \in DOMAIN rounds /\ rounds[chain.last].first = chain.first
      /\ rounds[chain.last].total = chain.total /\ rounds[chain.last].number = chain.started
      /\ \A i \in DOMAIN rounds : rounds[i].first = chain.first => rounds[i].number <= chain.started
  BY <1>1 DEF Chain!NextRound, ChainFits, Newest, Chain!Chain
<1>3. CASE chain' = [chain EXCEPT !.ended = TRUE] /\ UNCHANGED rounds
  <2>1. chain'.first = chain.first /\ chain'.ended = TRUE /\ chain' \in Chain!Chain
    BY <1>1, <1>3 DEF Chain!Chain
  <2>2. Chain!TypeOK' /\ StartsFirst' /\ ChainFits'
    BY <1>1, <1>2, <1>3, <2>1 DEF Chain!TypeOK, StartsFirst, ChainFits
  <2>3. WaitsInItem'
    BY <1>1, <1>2, <1>3, <2>1 DEF WaitsInItem
  <2>4. Numbered' /\ RoundsApart'
    BY <1>1, <1>3 DEF Numbered, RoundsApart, Firsts
  <2> QED BY <2>2, <2>3, <2>4 DEF RoundsInv, Chain!RoundsInOrder, Numbered
<1>4. CASE /\ Chain!MayGoOn /\ rounds' = Chain!Enqueued(chain.first, chain.started + 1, chain.total)
           /\ chain' = [chain EXCEPT !.item = n]
  <2>1. /\ rounds[chain.last].run = "succeeded" /\ chain.started < chain.total
    BY <1>4 DEF Chain!MayGoOn
  <2>2. /\ chain.total \in Totals /\ chain.total \in Nat /\ chain.started \in Nat
        /\ chain.first \in Nat /\ chain.first >= 1 /\ chain.first <= Len(rounds)
    <3>1. chain.total \in Totals /\ chain.total \in Nat
      BY <1>1, <1>2 DEF Chain!Round, Limits
    <3>2. Chain!MaxRounds \in Nat
      BY Bounds
    <3>3. chain.started \in 0..Chain!MaxRounds /\ chain.first \in 1..Chain!MaxRounds
      BY <1>1, <1>2 DEF Chain!Chain, Chain!Round
    <3>4. chain.first <= Len(rounds)
      BY <1>1 DEF ChainFits
    <3> QED BY <3>1, <3>2, <3>3, <3>4
  <2>3. /\ chain.first \in 1..(Len(rounds) + 1) /\ chain.started + 1 \in 1..chain.total
        /\ \A i \in DOMAIN rounds : rounds[i].first = chain.first
                                    => rounds[i].number # chain.started + 1
        /\ chain.first \in Firsts /\ (chain.started + 1) - 1 = chain.started
    <3>1. \A i \in DOMAIN rounds : rounds[i].number \in Nat
      BY <1>1, Bounds DEF Chain!Round
    <3> QED BY <1>1, <1>2, <2>1, <2>2, <3>1 DEF Firsts
  <2>4. /\ rounds' \in Seq(Chain!Round) /\ Len(rounds') <= Chain!MaxRounds
        /\ Numbered' /\ RoundsApart' /\ RoundQueued(chain.first, chain.started + 1, chain.total)
    BY <1>2, <1>4, <2>1, <2>2, <2>3, RoundAdded
  <2>5. /\ n \in Nat /\ n # 0 /\ n \notin DOMAIN rounds /\ Len(rounds') = n
        /\ DOMAIN rounds' = DOMAIN rounds \cup {n}
        /\ \A i \in DOMAIN rounds : rounds'[i] = rounds[i]
        /\ rounds'[n].first = chain.first /\ rounds'[n].number = chain.started + 1
        /\ rounds'[n].total = chain.total
    BY <1>1, <2>4 DEF RoundQueued
  <2> HIDE DEF n
  <2>6. /\ chain'.first = chain.first /\ chain'.total = chain.total /\ chain'.item = n
        /\ chain'.started = chain.started /\ chain'.ended = chain.ended
    BY <1>1, <1>4 DEF Chain!Chain
  <2>7. chain' \in Chain!Chain
    <3>1. n \in 0..Chain!MaxRounds
      BY <2>4, <2>5, Bounds
    <3> QED BY <1>1, <1>4, <3>1 DEF Chain!Chain
  <2>8. Chain!TypeOK'
    BY <1>1, <1>2, <2>4, <2>5, <2>7 DEF Chain!TypeOK
  <2>9. StartsFirst'
    BY <1>1, <1>2, <2>5, <2>6 DEF StartsFirst
  <2>10. WaitsInItem'
    BY <1>1, <1>2, <2>5, <2>6 DEF WaitsInItem
  <2>11. Newest' = n
    BY <2>5, <2>6 DEF Newest
  <2>12. ChainFits'
    <3>1. \A i \in DOMAIN rounds' :
             rounds'[i].first = chain.first => rounds'[i].number <= chain.started + 1
      BY <1>1, <1>2, <2>2, <2>5, Bounds DEF Chain!Round
    <3>2. chain.first <= n
      BY <1>1, <2>2 DEF n
    <3> QED BY <2>5, <2>6, <2>11, <3>1, <3>2 DEF ChainFits
  <2> QED BY <2>4, <2>8, <2>9, <2>10, <2>12 DEF RoundsInv, Chain!RoundsInOrder, Numbered
<1> QED BY <1>3, <1>4 DEF Chain!NextRound, Chain!End

LEMMA StopMoves ==
    ASSUME RoundsInv, Chain!Stop
    PROVE  /\ RoundsMove /\ UNCHANGED <<starts, restarts>>
           /\ chain' = [chain EXCEPT !.ended = TRUE]
           /\ \A i \in DOMAIN rounds : rounds'[i].state = "waiting" => ~Chain!CancelsRound \/ i # chain.item
<1>1. /\ Chain!TypeOK /\ Len(rounds) \in Nat /\ DOMAIN rounds = 1..Len(rounds)
      /\ \A i \in DOMAIN rounds : rounds[i] \in Chain!Round
  BY InvParts, RoundTypes
<1> DEFINE stops == Chain!Latest # 0 /\ rounds[Chain!Latest].run = "running"
           round(i) == IF Chain!CancelsRound /\ i = chain.item THEN [rounds[i] EXCEPT !.state = "cancelled"]
                       ELSE IF stops /\ i = Chain!Latest THEN [rounds[i] EXCEPT !.run = "stopping"]
                       ELSE rounds[i]
<1>2. rounds' = [i \in DOMAIN rounds |-> round(i)]
  BY DEF Chain!Stop
<1>3. ASSUME NEW i \in DOMAIN rounds
      PROVE  /\ round(i) \in Chain!Round /\ round(i).first = rounds[i].first
             /\ round(i).number = rounds[i].number /\ round(i).total = rounds[i].total
             /\ rounds[i].run = "succeeded" => round(i).run = "succeeded"
             /\ round(i).state = "waiting" =>
                   rounds[i].state = "waiting" /\ (~Chain!CancelsRound \/ i # chain.item)
  <2>1. rounds[i] \in Chain!Round
    BY <1>1
  <2>2. CASE Chain!CancelsRound /\ i = chain.item
    BY <2>1, <2>2 DEF Chain!Round
  <2>3. CASE ~(Chain!CancelsRound /\ i = chain.item) /\ stops /\ i = Chain!Latest
    BY <2>1, <2>3 DEF Chain!Round
  <2>4. CASE ~(Chain!CancelsRound /\ i = chain.item) /\ ~(stops /\ i = Chain!Latest)
    BY <2>1, <2>4
  <2> QED BY <2>2, <2>3, <2>4
<1> HIDE DEF round, stops
<1>4. \A i \in DOMAIN rounds : rounds'[i] = round(i)
  BY <1>2
<1>5. /\ rounds' \in Seq(Chain!Round) /\ Len(rounds') = Len(rounds)
      /\ DOMAIN rounds' = DOMAIN rounds
  <2>1. rounds' = [i \in 1..Len(rounds) |-> rounds'[i]]
    BY <1>1, <1>2
  <2>2. \A i \in 1..Len(rounds) : rounds'[i] \in Chain!Round
    BY <1>1, <1>3, <1>4
  <2> QED BY <1>1, <2>1, <2>2, SeqOf
<1>6. RoundsMove
  BY <1>3, <1>4, <1>5 DEF RoundsMove, RoundMoves
<1>7. UNCHANGED <<starts, restarts>> /\ chain' = [chain EXCEPT !.ended = TRUE]
  BY DEF Chain!Stop
<1> QED BY <1>3, <1>4, <1>6, <1>7

LEMMA StopKeeps ==
    ASSUME Limits, RoundsInv, Chain!Stop
    PROVE  RoundsInv'
<1>1. /\ Chain!TypeOK /\ Numbered /\ RoundsApart /\ StartsFirst /\ ChainFits /\ WaitsInItem
      /\ chain \in Chain!Chain
  BY InvParts, RoundTypes
<1>2. /\ RoundsMove /\ UNCHANGED <<starts, restarts>>
      /\ \A i \in DOMAIN rounds : rounds'[i].state = "waiting" => ~Chain!CancelsRound \/ i # chain.item
  BY StopMoves
<1>3. chain'.first = chain.first /\ chain'.ended = TRUE /\ chain' \in Chain!Chain
  BY <1>1, StopMoves DEF Chain!Chain
<1>4. Numbered' /\ RoundsApart'
  BY <1>1, <1>2, MovesKeepOrder
<1>5. Chain!TypeOK'
  BY <1>1, <1>2, <1>3 DEF Chain!TypeOK, RoundsMove
<1>6. StartsFirst' /\ ChainFits'
  BY <1>1, <1>2, <1>3 DEF StartsFirst, ChainFits, RoundsMove, RoundMoves, Chain!TypeOK
<1>7. WaitsInItem'
  <2> SUFFICES ASSUME NEW i \in DOMAIN rounds, rounds'[i].state = "waiting",
                      rounds'[i].first = chain.first
               PROVE  FALSE
    BY <1>2, <1>3 DEF WaitsInItem, RoundsMove
  <2>1. rounds[i].state = "waiting" /\ rounds[i].first = chain.first
    BY <1>2 DEF RoundsMove, RoundMoves
  <2>2. ~chain.ended /\ i = chain.item
    BY <1>1, <2>1 DEF WaitsInItem
  <2>3. Chain!CancelsRound
    BY <2>1, <2>2, RoundTypes, <1>1, Bounds DEF Chain!CancelsRound
  <2> QED BY <1>2, <2>2, <2>3
<1> QED BY <1>4, <1>5, <1>6, <1>7 DEF RoundsInv, Chain!RoundsInOrder, Numbered

LEMMA RestartMoves ==
    ASSUME Limits, Chain!TypeOK, Chain!Restart
    PROVE  RoundsMove /\ UNCHANGED chain /\ starts' = {} /\ restarts' \in 0..MaxRestarts
<1>1. /\ Len(rounds) \in Nat /\ DOMAIN rounds = 1..Len(rounds)
      /\ \A i \in DOMAIN rounds : rounds[i] \in Chain!Round
  BY RoundTypes
<1> DEFINE round(i) == IF rounds[i].state # "starting" THEN rounds[i]
                       ELSE [rounds[i] EXCEPT !.state = IF rounds[i].run = "none" THEN "failed"
                                                                                  ELSE "started"]
<1>2. rounds' = [i \in DOMAIN rounds |-> round(i)] /\ UNCHANGED chain /\ starts' = {}
      /\ restarts < MaxRestarts /\ restarts' = restarts + 1
  BY DEF Chain!Restart
<1>3. ASSUME NEW i \in DOMAIN rounds
      PROVE  /\ round(i) \in Chain!Round /\ round(i).first = rounds[i].first
             /\ round(i).number = rounds[i].number /\ round(i).total = rounds[i].total
             /\ round(i).run = rounds[i].run
             /\ round(i).state = "waiting" => rounds[i].state = "waiting"
  <2>1. rounds[i] \in Chain!Round
    BY <1>1
  <2> QED BY <2>1 DEF Chain!Round
<1> HIDE DEF round
<1>4. \A i \in DOMAIN rounds : rounds'[i] = round(i)
  BY <1>2
<1>5. /\ rounds' \in Seq(Chain!Round) /\ Len(rounds') = Len(rounds)
      /\ DOMAIN rounds' = DOMAIN rounds
  <2>1. rounds' = [i \in 1..Len(rounds) |-> rounds'[i]]
    BY <1>1, <1>2
  <2>2. \A i \in 1..Len(rounds) : rounds'[i] \in Chain!Round
    BY <1>1, <1>3, <1>4
  <2> QED BY <1>1, <2>1, <2>2, SeqOf
<1>6. RoundsMove
  BY <1>3, <1>4, <1>5 DEF RoundsMove, RoundMoves
<1>7. restarts' \in 0..MaxRestarts
  BY <1>2 DEF Chain!TypeOK, Limits
<1> QED BY <1>2, <1>6, <1>7

LEMMA ChainNext ==
    ASSUME Limits, RoundsInv, [Chain!Next]_(Chain!vars)
    PROVE  RoundsInv'
<1>0. Chain!TypeOK
  BY InvParts
<1>1. CASE \E total \in Totals : Chain!Start(total)
  BY <1>1, StartKeeps
<1>2. ASSUME NEW i \in DOMAIN rounds,
             \/ Chain!Pick(i) \/ Chain!StartRound(i) \/ Chain!RoundEnds(i)
             \/ Chain!Cancel(i) \/ Chain!Forget(i)
      PROVE  RoundsInv'
  <2>1. RoundsMove /\ UNCHANGED <<chain, starts, restarts>>
    BY <1>0, <1>2, QueueMoves
  <2>2. restarts' \in 0..MaxRestarts
    BY <1>0, <2>1 DEF Chain!TypeOK
  <2> QED BY <2>1, <2>2, MovesKeepInv
<1>3. CASE \E i \in DOMAIN rounds : Chain!Started(i)
  BY <1>3, StartedKeeps
<1>4. CASE Chain!FollowRound
  BY <1>4, FollowKeeps
<1>5. CASE Chain!NextRound
  BY <1>5, NextKeeps
<1>6. CASE Chain!Stop
  BY <1>6, StopKeeps
<1>7. CASE Chain!Restart
  BY <1>0, <1>7, RestartMoves, MovesKeepInv
<1>8. CASE UNCHANGED Chain!vars
  BY <1>8 DEF Chain!vars, RoundsInv, Chain!RoundsInOrder, Chain!TypeOK, RoundsApart, Firsts,
              StartsFirst, ChainFits, Newest, WaitsInItem
<1> QED BY <1>1, <1>2, <1>3, <1>4, <1>5, <1>6, <1>7, <1>8 DEF Chain!Next

\* Every round of a chain follows the success of the one before it, and there are never more
\* of them than were asked for, whatever is stopped, cancelled, forgotten or restarted
\* (knowledgeChain.ts 8-15); with the types and what the chain file says of its newest round.
THEOREM RoundsInvHolds == ASSUME Limits PROVE Chain!Spec => []RoundsInv
<1>1. Chain!Init => RoundsInv
  BY ChainInit
<1>2. RoundsInv /\ [Chain!Next]_(Chain!vars) => RoundsInv'
  BY ChainNext
<1> QED BY <1>1, <1>2, PTL DEF Chain!Spec

THEOREM RoundsInOrderHolds == ASSUME Limits PROVE Chain!Spec => []Chain!RoundsInOrder
<1>1. RoundsInv => Chain!RoundsInOrder
  BY DEF RoundsInv
<1> QED BY <1>1, RoundsInvHolds, PTL

\* Only a start that asks for a new chain, or the chain that goes on, adds a round.
LEMMA RoundsAdded ==
    ASSUME RoundsInv, [Chain!Next]_(Chain!vars), chain.ended,
           NEW i \in DOMAIN rounds' \ DOMAIN rounds
    PROVE  rounds'[i].first # chain.first
<1>1. /\ Chain!TypeOK /\ ChainFits /\ Len(rounds) \in Nat /\ DOMAIN rounds = 1..Len(rounds)
      /\ rounds \in Seq(Chain!Round) /\ chain \in Chain!Chain
  BY InvParts, RoundTypes
<1>2. ASSUME NEW total \in Totals, Chain!Start(total)
      PROVE  rounds'[i].first # chain.first
  <2> DEFINE n   == Len(rounds) + 1
             new == [first |-> n, number |-> 1, total |-> total, state |-> "waiting", run |-> "none"]
  <2>1. rounds' = Append(rounds, new)
    BY <1>2 DEF Chain!Start, Chain!Enqueued
  <2>2. rounds \in Seq(Chain!Round \cup {new})
    BY <1>1
  <2>3. new.first = n
    OBVIOUS
  <2> HIDE DEF new
  <2>4. DOMAIN rounds' = DOMAIN rounds \cup {n} /\ rounds'[n] = new
    BY <2>1, <2>2, SeqAppend
  <2>5. chain.first \in Int /\ chain.first <= Len(rounds)
    BY <1>1 DEF ChainFits, Chain!Chain
  <2> QED BY <1>1, <2>3, <2>4, <2>5
<1>3. ASSUME DOMAIN rounds' = DOMAIN rounds
      PROVE  FALSE
  BY <1>3
<1>4. CASE Chain!NextRound
  BY <1>3, <1>4 DEF Chain!NextRound
<1>5. CASE Chain!FollowRound \/ Chain!Stop \/ Chain!Restart \/ UNCHANGED Chain!vars
  BY <1>3, <1>5 DEF Chain!FollowRound, Chain!Stop, Chain!Restart, Chain!vars
<1>6. ASSUME NEW j \in DOMAIN rounds,
             \/ Chain!Pick(j) \/ Chain!StartRound(j) \/ Chain!RoundEnds(j)
             \/ Chain!Cancel(j) \/ Chain!Forget(j)
      PROVE  FALSE
  BY <1>1, <1>3, <1>6, QueueMoves DEF RoundsMove
<1>7. CASE \E j \in DOMAIN rounds : Chain!Started(j)
  BY <1>3, <1>7 DEF Chain!Started
<1> QED BY <1>2, <1>4, <1>5, <1>6, <1>7 DEF Chain!Next

\* A chain that has ended gets no further round, and no round of it that still waits is
\* started (knowledgeChain.ts 118-137): the only waiting round of a chain is the one it follows.
THEOREM EndedChainIsQuietHolds == ASSUME Limits PROVE Chain!Spec => Chain!EndedChainIsQuiet
<1>1. RoundsInv /\ [Chain!Next]_(Chain!vars) => [Chain!QuietOnceEnded]_(Chain!vars)
  <2> SUFFICES ASSUME RoundsInv, [Chain!Next]_(Chain!vars), chain.ended
               PROVE  /\ \A i \in DOMAIN rounds :
                            rounds[i].first = chain.first /\ rounds[i].state = "waiting"
                            => rounds'[i].state # "starting"
                      /\ \A i \in DOMAIN rounds' \ DOMAIN rounds : rounds'[i].first # chain.first
    BY DEF Chain!QuietOnceEnded
  <2>1. \A i \in DOMAIN rounds : ~(rounds[i].first = chain.first /\ rounds[i].state = "waiting")
    BY DEF RoundsInv, WaitsInItem
  <2> QED BY <2>1, RoundsAdded
<1>2. Chain!Spec => []RoundsInv
  BY RoundsInvHolds
<1>3. []RoundsInv /\ [][Chain!Next]_(Chain!vars) => [][Chain!QuietOnceEnded]_(Chain!vars)
  BY <1>1, PTL
<1> QED BY <1>2, <1>3, PTL DEF Chain!Spec, Chain!EndedChainIsQuiet

-----------------------------------------------------------------------------
(* New tasks: the inductive invariant *)

NewLimits ==
    /\ MaxAttempts \in Nat \ {0} /\ Keep \in Nat
    /\ MaxIds \in Nat /\ MaxItems \in Nat /\ MaxRestarts \in Nat
    /\ "free" \notin Requests /\ "lane" \notin Requests

\* Claims come one after the other: the request that opens a task is the first in line.
InLine ==
    \A r \in Requests :
        /\ reqs[r].at \in {"listing", "opening"} => \E k \in DOMAIN line : line[k] = r
        /\ reqs[r].at = "opening" => reqs[r].id \in New!Ids /\ Head(line) = r
        /\ reqs[r].at \in {"idle", "listing", "opening"} => reqs[r].tries < MaxAttempts
        /\ reqs[r].at = "opened" => reqs[r].id \in New!Ids /\ dirs[reqs[r].id] = r

\* Task t was made by a request that recorded it.
Made(t) == /\ t \in New!Ids /\ dirs[t] \in Requests
           /\ reqs[dirs[t]].at = "done" /\ reqs[dirs[t]].id = t

OwnTasks ==
    /\ \A k, l \in DOMAIN records : records[k].id = records[l].id => k = l
    /\ \A k \in DOMAIN records : Made(records[k].id)
    /\ \A i \in DOMAIN items : Made(items[i].task)

ItemsFit ==
    \A i \in DOMAIN items :
        /\ items[i].state \in {"waiting", "starting", "failed", "cancelled"} => items[i].run = "none"
        /\ items[i].state = "started" => items[i].run # "none"
        /\ items[i].state = "gone" => items[i].run \notin {"running", "verifying"}

\* Only the step a record names may be out, and an outcome is kept once it is not.
RecordFits(rec) ==
    /\ rec.item # 0 => rec.item \in DOMAIN items /\ items[rec.item].task = rec.id
    /\ \A i \in DOMAIN items : items[i].task = rec.id /\ New!InFlight(i) => i = rec.item
    /\ rec.kept # "none" => rec.item # 0 /\ ~New!InFlight(rec.item)
    /\ rec.kept = "ok" => items[rec.item].run \in {"ok", "gone"}
    /\ rec.confirmed => rec.kept = "ok"

RecordsFit == \A k \in DOMAIN records : RecordFits(records[k])

\* A Redo goes on from a task whose steps are over and that nobody confirmed.
RedoAlone ==
    /\ redos # {} => Len(items) < MaxItems
    /\ \A t, u \in redos : t = u
    /\ \A t \in redos :
          /\ Made(t)
          /\ \A i \in DOMAIN items : items[i].task = t => ~New!InFlight(i)
          /\ \A k \in DOMAIN records : records[k].id = t => ~records[k].confirmed

NewTypes == New!TypeOK /\ Len(items) <= MaxItems

NewInv == NewTypes /\ InLine /\ OwnTasks /\ ItemsFit /\ RecordsFit /\ RedoAlone

-----------------------------------------------------------------------------
(* Lemmas about ids, records and items *)

LEMMA LeastNat ==
    ASSUME NEW S \in SUBSET Nat, S # {}
    PROVE  \E m \in S : \A y \in S : m <= y
<1>1. \E m \in S : \A y \in S : ~(<<y, m>> \in OpToRel(<, Nat))
  BY NatLessThanWellFounded, WFMin
<1>2. PICK m \in S : \A y \in S : ~(y < m)
  BY <1>1 DEF OpToRel
<1>3. \A y \in S : m <= y
  BY <1>2
<1> QED BY <1>3

LEMMA SomeMax ==
    ASSUME NEW n \in Nat, NEW S \in SUBSET (0..n), S # {}
    PROVE  \E z \in S : \A y \in S : z >= y
<1> DEFINE T == {n - x : x \in S}
<1>1. T \subseteq Nat /\ T # {}
  <2>1. \A x \in S : n - x \in Nat
    OBVIOUS
  <2>2. PICK x \in S : TRUE
    OBVIOUS
  <2>3. n - x \in T
    OBVIOUS
  <2> QED BY <2>1, <2>3
<1> HIDE DEF T
<1>3. PICK m \in T : \A y \in T : m <= y
  BY <1>1, LeastNat
<1> USE DEF T
<1>4. PICK x \in S : m = n - x
  BY <1>3
<1>5. \A y \in S : x >= y
  BY <1>3, <1>4
<1> HIDE DEF T
<1> QED BY <1>5

LEMMA MaxOf ==
    ASSUME NEW n \in Nat, NEW S \in SUBSET (0..n), S # {}
    PROVE  New!Max(S) \in S /\ \A y \in S : New!Max(S) >= y
<1>1. \E z \in S : \A y \in S : z >= y
  BY SomeMax
<1> QED BY <1>1 DEF New!Max

LEMMA MinOf ==
    ASSUME NEW a \in Nat, NEW b \in Nat
    PROVE  New!Min({a, b}) \in Nat /\ New!Min({a, b}) <= a /\ New!Min({a, b}) <= b
<1>1. \E x \in {a, b} : \A y \in {a, b} : x <= y
  OBVIOUS
<1> QED BY <1>1 DEF New!Min

\* A lane claims an id that is free.
LEMMA NextIsFree ==
    ASSUME NewLimits, New!TypeOK
    PROVE  New!NextFree \in Nat /\ (New!NextFree \in New!Ids => dirs[New!NextFree] = "free")
<1> DEFINE S == {0} \cup {i \in New!Ids : dirs[i] # "free"}
<1>1. S \in SUBSET (0..MaxIds) /\ S # {} /\ MaxIds \in Nat
  BY DEF New!Ids, NewLimits
<1>2. New!NextFree = New!Max(S) + 1
  BY DEF New!NextFree
<1>3. \A i \in New!Ids : dirs[i] # "free" => i \in S
  OBVIOUS
<1> HIDE DEF S
<1>4. New!Max(S) \in S /\ \A y \in S : New!Max(S) >= y
  BY <1>1, MaxOf
<1>5. New!Max(S) \in Nat
  <2>1. S \subseteq Nat
    BY <1>1
  <2> QED BY <1>4, <2>1
<1>6. \A i \in New!Ids : dirs[i] # "free" => i <= New!Max(S)
  BY <1>3, <1>4, <1>5 DEF New!Ids
<1>7. New!NextFree \in New!Ids => dirs[New!NextFree] = "free"
  BY <1>2, <1>5, <1>6
<1> QED BY <1>2, <1>5, <1>7

LEMMA NewParts ==
    ASSUME New!TypeOK
    PROVE  /\ records \in Seq(New!Record) /\ Len(records) \in Nat
           /\ DOMAIN records = 1..Len(records)
           /\ \A k \in DOMAIN records : records[k] \in New!Record
           /\ items \in Seq(New!Item) /\ Len(items) \in Nat
           /\ DOMAIN items = 1..Len(items)
           /\ \A i \in DOMAIN items : items[i] \in New!Item
<1>1. records \in Seq(New!Record) /\ items \in Seq(New!Item)
  BY DEF New!TypeOK
<1> QED BY <1>1, SeqParts

\* A step that leaves records and items alone, and keeps what was made, keeps what they say.
LEMMA ClaimsKeep ==
    ASSUME NewInv, NewTypes', InLine', UNCHANGED <<records, items>>, redos' = {},
           \A t \in New!Ids : Made(t) => Made(t)'
    PROVE  NewInv'
<1>1. OwnTasks'
  BY DEF NewInv, OwnTasks, Made
<1>2. ItemsFit' /\ RecordsFit'
  BY DEF NewInv, ItemsFit, RecordsFit, RecordFits, New!InFlight
<1>3. RedoAlone'
  BY DEF RedoAlone
<1> QED BY <1>1, <1>2, <1>3 DEF NewInv

LEMMA InLineParts ==
    ASSUME NewTypes, InLine, NEW r \in Requests
    PROVE  /\ reqs \in [Requests -> New!Request] /\ reqs[r] \in New!Request
           /\ line \in Seq(Requests) /\ Len(line) \in Nat /\ DOMAIN line = 1..Len(line)
           /\ reqs[r].at \in {"listing", "opening"} =>
                 /\ line # <<>> /\ Len(line) > 0 /\ 1 \in DOMAIN line /\ Head(line) = line[1]
                 /\ Tail(line) \in Seq(Requests) /\ DOMAIN Tail(line) = 1..(Len(line) - 1)
                 /\ \A k \in 1..(Len(line) - 1) : Tail(line)[k] = line[k + 1]
<1>1. /\ reqs \in [Requests -> New!Request] /\ line \in Seq(Requests)
  BY DEF NewTypes, New!TypeOK
<1>2. Len(line) \in Nat /\ DOMAIN line = 1..Len(line)
  BY <1>1
<1>3. ASSUME reqs[r].at \in {"listing", "opening"}
      PROVE  line # <<>> /\ Len(line) > 0
  <2>1. PICK k \in DOMAIN line : line[k] = r
    BY <1>3 DEF InLine
  <2> QED BY <1>2, <2>1
<1>4. ASSUME line # <<>>
      PROVE  /\ Head(line) = line[1] /\ Tail(line) \in Seq(Requests)
             /\ DOMAIN Tail(line) = 1..(Len(line) - 1)
             /\ \A k \in 1..(Len(line) - 1) : Tail(line)[k] = line[k + 1]
  BY <1>1, <1>2, <1>4, HeadTailProperties
<1> QED BY <1>1, <1>2, <1>3, <1>4

\* When the first in line is served, all others still wait.
LEMMA LineMoves ==
    ASSUME NewTypes, InLine, NEW r \in Requests,
           reqs[r].at \in {"listing", "opening"}, Head(line) = r,
           NEW s \in Requests, s # r
    PROVE  /\ reqs[s].at # "opening"
           /\ reqs[s].at = "listing" => \E k \in DOMAIN Tail(line) : Tail(line)[k] = s
<1>1. reqs[s].at # "opening"
  BY DEF InLine
<1>2. ASSUME reqs[s].at = "listing"
      PROVE  \E k \in DOMAIN Tail(line) : Tail(line)[k] = s
  <2>1. PICK k \in DOMAIN line : line[k] = s
    BY <1>2 DEF InLine
  <2>2. k # 1 /\ k \in 1..Len(line)
    BY <2>1, InLineParts
  <2>3. k - 1 \in 1..(Len(line) - 1) /\ (k - 1) + 1 = k
    BY <2>2, InLineParts
  <2>4. Tail(line)[k - 1] = s
    BY <2>1, <2>3, InLineParts
  <2> QED BY <2>3, <2>4, InLineParts
<1> QED BY <1>1, <1>2

LEMMA CreateKeeps ==
    ASSUME NewLimits, NewInv, redos = {}, NEW r \in Requests, New!Create(r)
    PROVE  NewInv'
<1>1. /\ NewTypes /\ InLine /\ New!TypeOK /\ UNCHANGED <<dirs, records, items, redos, restarts>>
      /\ reqs[r].at = "idle"
  BY DEF NewInv, NewTypes, New!Create
<1>2. /\ reqs \in [Requests -> New!Request] /\ line \in Seq(Requests)
      /\ Len(line) \in Nat /\ DOMAIN line = 1..Len(line)
  BY <1>1, InLineParts
<1>3. \A t \in New!Ids : Made(t) => Made(t)'
  BY <1>1, <1>2 DEF New!Create, Made, New!Request
<1>4. CASE reqs' = [reqs EXCEPT ![r].at = "listing"] /\ line' = Append(line, r)
  <2>1. /\ line' \in Seq(Requests) /\ DOMAIN line' = DOMAIN line \cup {Len(line) + 1}
        /\ line'[Len(line) + 1] = r /\ \A k \in DOMAIN line : line'[k] = line[k]
    BY <1>2, <1>4
  <2>2. NewTypes'
    BY <1>1, <1>2, <1>4, <2>1 DEF NewTypes, New!TypeOK, New!Request
  <2>3. InLine'
    <3> SUFFICES ASSUME NEW s \in Requests
                 PROVE  /\ reqs'[s].at \in {"listing", "opening"} => \E k \in DOMAIN line' : line'[k] = s
                        /\ reqs'[s].at = "opening" => reqs'[s].id \in New!Ids /\ Head(line') = s
                        /\ reqs'[s].at \in {"idle", "listing", "opening"} => reqs'[s].tries < MaxAttempts
                        /\ reqs'[s].at = "opened" => reqs'[s].id \in New!Ids /\ dirs'[reqs'[s].id] = s
      BY DEF InLine
    <3>1. CASE s = r
      <4>1. reqs'[s].at = "listing" /\ reqs'[s].tries = reqs[s].tries
        BY <1>2, <1>4, <3>1 DEF New!Request
      <4> QED BY <1>1, <2>1, <3>1, <4>1 DEF InLine
    <3>2. CASE s # r
      <4>1. reqs'[s] = reqs[s]
        BY <1>2, <1>4, <3>2
      <4>2. reqs[s].at = "opening" => Head(line') = Head(line)
        <5>1. ASSUME reqs[s].at = "opening" PROVE 1 \in DOMAIN line /\ Head(line) = line[1]
          BY <1>1, <5>1, InLineParts
        <5>2. Head(line') = line'[1]
          BY <1>2, <2>1
        <5> QED BY <2>1, <5>1, <5>2
      <4> QED BY <1>1, <2>1, <4>1, <4>2 DEF InLine
    <3> QED BY <3>1, <3>2
  <2> QED BY <1>1, <1>3, <2>2, <2>3, ClaimsKeep
<1>5. CASE reqs' = [reqs EXCEPT ![r].at = "refused"] /\ UNCHANGED line
  <2>1. NewTypes'
    BY <1>1, <1>2, <1>5 DEF NewTypes, New!TypeOK, New!Request
  <2>2. InLine'
    BY <1>1, <1>2, <1>5 DEF InLine, New!Request
  <2> QED BY <1>1, <1>3, <2>1, <2>2, ClaimsKeep
<1> QED BY <1>4, <1>5 DEF New!Create

LEMMA ListKeeps ==
    ASSUME NewLimits, NewInv, redos = {}, NEW r \in Requests, New!List(r)
    PROVE  NewInv'
<1>1. /\ NewTypes /\ InLine /\ UNCHANGED <<dirs, line, records, items, redos, restarts>>
      /\ reqs[r].at = "listing" /\ Head(line) = r /\ reqs \in [Requests -> New!Request]
  BY InLineParts DEF NewInv, New!List
<1>2. PICK id \in New!Ids : reqs' = [reqs EXCEPT ![r].at = "opening", ![r].id = id]
  BY DEF New!List
<1>3. /\ reqs'[r].at = "opening" /\ reqs'[r].id = id /\ reqs'[r].tries = reqs[r].tries
      /\ \A s \in Requests : s # r => reqs'[s] = reqs[s]
  BY <1>1, <1>2 DEF New!Request
<1>4. reqs' \in [Requests -> New!Request]
  <2>1. id \in 0..MaxIds
    BY <1>2 DEF New!Ids, NewLimits
  <2> QED BY <1>1, <1>2, <2>1 DEF New!Request
<1>5. NewTypes'
  BY <1>1, <1>4 DEF NewTypes, New!TypeOK
<1>6. InLine'
  BY <1>1, <1>2, <1>3 DEF InLine
<1>7. \A t \in New!Ids : Made(t) => Made(t)'
  BY <1>1, <1>3 DEF Made
<1> QED BY <1>1, <1>5, <1>6, <1>7, ClaimsKeep

LEMMA OpenKeeps ==
    ASSUME NewLimits, NewInv, redos = {}, NEW r \in Requests, New!OpenTask(r)
    PROVE  NewInv'
<1>1. /\ NewTypes /\ InLine /\ UNCHANGED <<records, items, redos, restarts>>
      /\ reqs[r].at = "opening" /\ Head(line) = r /\ reqs[r].id \in New!Ids
      /\ reqs[r].tries < MaxAttempts
      /\ reqs \in [Requests -> New!Request] /\ dirs \in [New!Ids -> New!Makers]
      /\ reqs[r] \in New!Request /\ Tail(line) \in Seq(Requests) /\ line \in Seq(Requests)
  BY InLineParts DEF NewInv, NewTypes, New!OpenTask, InLine, New!TypeOK
<1>2. \A s \in Requests : s # r =>
         /\ reqs[s].at # "opening"
         /\ reqs[s].at = "listing" => \E k \in DOMAIN Tail(line) : Tail(line)[k] = s
  BY <1>1, LineMoves
<1>3. CASE /\ dirs[reqs[r].id] = "free" /\ dirs' = [dirs EXCEPT ![reqs[r].id] = r]
           /\ reqs' = [reqs EXCEPT ![r].at = "opened"] /\ line' = Tail(line)
  <2>1. /\ reqs'[r].at = "opened" /\ reqs'[r].id = reqs[r].id /\ dirs'[reqs[r].id] = r
        /\ \A s \in Requests : s # r => reqs'[s] = reqs[s]
        /\ \A t \in New!Ids : t # reqs[r].id => dirs'[t] = dirs[t]
    BY <1>1, <1>3 DEF New!Request
  <2>2. NewTypes'
    BY <1>1, <1>3 DEF NewTypes, New!TypeOK, New!Request, New!Makers
  <2>3. InLine'
    <3> SUFFICES ASSUME NEW s \in Requests
                 PROVE  /\ reqs'[s].at \in {"listing", "opening"} => \E k \in DOMAIN line' : line'[k] = s
                        /\ reqs'[s].at = "opening" => reqs'[s].id \in New!Ids /\ Head(line') = s
                        /\ reqs'[s].at \in {"idle", "listing", "opening"} => reqs'[s].tries < MaxAttempts
                        /\ reqs'[s].at = "opened" => reqs'[s].id \in New!Ids /\ dirs'[reqs'[s].id] = s
      BY DEF InLine
    <3>1. CASE s = r
      BY <1>1, <2>1, <3>1
    <3>2. CASE s # r
      <4>1. reqs[s].at = "opened" => dirs[reqs[s].id] = s /\ reqs[s].id \in New!Ids
        BY <1>1 DEF InLine
      <4>2. reqs[s].at = "opened" => dirs'[reqs[s].id] = s
        BY <1>3, <2>1, <4>1 DEF NewLimits
      <4> QED BY <1>1, <1>2, <1>3, <2>1, <3>2, <4>1, <4>2 DEF InLine
    <3> QED BY <3>1, <3>2
  <2>4. \A t \in New!Ids : Made(t) => Made(t)'
    BY <1>1, <1>3, <2>1 DEF Made, NewLimits
  <2> QED BY <1>1, <2>2, <2>3, <2>4, ClaimsKeep
<1>4. ASSUME dirs' = dirs, NEW at \in {"refused", "listing"}, NEW tries \in 0..MaxAttempts,
             reqs' = [reqs EXCEPT ![r].at = at, ![r].tries = tries],
             IF at = "refused" THEN line' = Tail(line) ELSE tries < MaxAttempts /\ line' = line
      PROVE  NewInv'
  <2>1. /\ reqs'[r].at = at /\ reqs'[r].id = reqs[r].id /\ reqs'[r].tries = tries
        /\ \A s \in Requests : s # r => reqs'[s] = reqs[s]
    BY <1>1, <1>4 DEF New!Request
  <2>2. reqs' \in [Requests -> New!Request]
    BY <1>1, <1>4 DEF New!Request
  <2>3. line' \in Seq(Requests)
    BY <1>1, <1>4
  <2>4. NewTypes'
    BY <1>1, <1>4, <2>2, <2>3 DEF NewTypes, New!TypeOK
  <2>5. InLine'
    <3> SUFFICES ASSUME NEW s \in Requests
                 PROVE  /\ reqs'[s].at \in {"listing", "opening"} => \E k \in DOMAIN line' : line'[k] = s
                        /\ reqs'[s].at = "opening" => reqs'[s].id \in New!Ids /\ Head(line') = s
                        /\ reqs'[s].at \in {"idle", "listing", "opening"} => reqs'[s].tries < MaxAttempts
                        /\ reqs'[s].at = "opened" => reqs'[s].id \in New!Ids /\ dirs'[reqs'[s].id] = s
      BY DEF InLine
    <3>1. CASE s = r
      <4>1. at = "listing" => \E k \in DOMAIN line' : line'[k] = r
        BY <1>1, <1>4 DEF InLine
      <4> QED BY <1>4, <2>1, <3>1, <4>1
    <3>2. CASE s # r
      <4>1. /\ reqs'[s] = reqs[s] /\ reqs[s].at # "opening"
            /\ reqs[s].at \in {"idle", "listing", "opening"} => reqs[s].tries < MaxAttempts
            /\ reqs[s].at = "opened" => reqs[s].id \in New!Ids /\ dirs[reqs[s].id] = s
        BY <1>1, <1>2, <2>1, <3>2 DEF InLine
      <4>2. reqs[s].at = "listing" => \E k \in DOMAIN line' : line'[k] = s
        <5>1. CASE at = "refused"
          BY <1>2, <1>4, <3>2, <5>1
        <5>2. CASE at = "listing"
          BY <1>1, <1>4, <5>2 DEF InLine
        <5> QED BY <5>1, <5>2
      <4> QED BY <1>4, <4>1, <4>2
    <3> QED BY <3>1, <3>2
  <2>6. \A t \in New!Ids : Made(t) => Made(t)'
    BY <1>1, <1>4, <2>1 DEF Made
  <2> QED BY <1>1, <2>4, <2>5, <2>6, ClaimsKeep
<1>5. CASE /\ dirs' = dirs
           /\ LET last == reqs[r].tries + 1 = MaxAttempts
              IN  /\ reqs' = [reqs EXCEPT ![r].at = IF last THEN "refused" ELSE "listing",
                                          ![r].tries = @ + 1]
                  /\ line' = IF last THEN Tail(line) ELSE line
  <2> DEFINE tries == reqs[r].tries + 1
             at == IF tries = MaxAttempts THEN "refused" ELSE "listing"
  <2>1. tries \in 0..MaxAttempts /\ at \in {"refused", "listing"}
    BY <1>1 DEF New!Request, NewLimits
  <2>2. reqs' = [reqs EXCEPT ![r].at = at, ![r].tries = tries]
    BY <1>1, <1>5
  <2>3. IF at = "refused" THEN line' = Tail(line) ELSE tries < MaxAttempts /\ line' = line
    BY <1>5, <2>1 DEF NewLimits
  <2> HIDE DEF at, tries
  <2> QED BY <1>4, <1>5, <2>1, <2>2, <2>3
<1>6. CASE dirs' = dirs /\ reqs' = [reqs EXCEPT ![r].at = "refused"] /\ line' = Tail(line)
  <2>1. reqs' = [reqs EXCEPT ![r].at = "refused", ![r].tries = reqs[r].tries]
    BY <1>1, <1>6 DEF New!Request
  <2>2. reqs[r].tries \in 0..MaxAttempts
    BY <1>1 DEF New!Request
  <2> QED BY <1>4, <1>6, <2>1, <2>2
<1> QED BY <1>3, <1>5, <1>6 DEF New!OpenTask

LEMMA LaneKeeps ==
    ASSUME NewLimits, NewInv, redos = {}, New!LaneClaims
    PROVE  NewInv'
<1>1. /\ NewTypes /\ New!TypeOK /\ InLine
      /\ UNCHANGED <<line, reqs, records, items, redos, restarts>>
      /\ New!NextFree \in New!Ids /\ dirs' = [dirs EXCEPT ![New!NextFree] = "lane"]
      /\ dirs \in [New!Ids -> New!Makers]
  BY DEF NewInv, NewTypes, New!LaneClaims, New!TypeOK
<1>2. dirs[New!NextFree] = "free"
  BY <1>1, NextIsFree
<1>3. NewTypes'
  BY <1>1 DEF NewTypes, New!TypeOK, New!Makers
<1>4. InLine'
  BY <1>1, <1>2 DEF InLine, NewLimits
<1>5. \A t \in New!Ids : Made(t) => Made(t)'
  BY <1>1, <1>2 DEF Made, NewLimits
<1> QED BY <1>1, <1>3, <1>4, <1>5, ClaimsKeep

LEMMA NewRestartKeeps ==
    ASSUME NewLimits, NewInv, New!Restart
    PROVE  NewInv'
<1>1. /\ NewTypes /\ UNCHANGED <<dirs, records, items>> /\ line' = <<>> /\ redos' = {}
      /\ restarts' = restarts + 1 /\ restarts < MaxRestarts /\ restarts \in 0..MaxRestarts
      /\ reqs \in [Requests -> New!Request] /\ InLine
  BY DEF NewInv, NewTypes, New!Restart, New!TypeOK
<1>2. \A r \in Requests :
         reqs'[r] = IF reqs[r].at \in {"listing", "opening", "opened"}
                    THEN [reqs[r] EXCEPT !.at = "refused"] ELSE reqs[r]
  BY DEF New!Restart
<1>3. reqs' \in [Requests -> New!Request]
  BY <1>1 DEF New!Restart, New!Request
<1>4. NewTypes'
  BY <1>1, <1>3 DEF NewTypes, New!TypeOK, NewLimits
<1>5. InLine'
  <2>1. ASSUME NEW r \in Requests
        PROVE  /\ reqs'[r].at \notin {"listing", "opening", "opened"}
               /\ reqs'[r].at = "idle" => reqs'[r] = reqs[r]
    <3>1. reqs[r] \in New!Request
      BY <1>1
    <3> QED BY <1>2, <3>1 DEF New!Request
  <2>2. \A r \in Requests : reqs'[r].at = "idle" => reqs'[r].tries < MaxAttempts
    BY <1>1, <2>1 DEF InLine
  <2> QED BY <2>1, <2>2 DEF InLine
<1>6. \A t \in New!Ids : Made(t) => Made(t)'
  BY <1>1, <1>2 DEF Made
<1> QED BY <1>1, <1>4, <1>5, <1>6, ClaimsKeep

-----------------------------------------------------------------------------
(* New tasks: what the operator does with a record *)

LEMMA RecordParts ==
    ASSUME NewInv, NEW t \in New!Listed
    PROVE  /\ New!Rec(t) \in New!Record /\ New!Rec(t).id = t /\ RecordFits(New!Rec(t))
           /\ \A k \in DOMAIN records : records[k].id = t => records[k] = New!Rec(t)
           /\ Made(t)
<1>1. PICK k \in DOMAIN records : records[k].id = t
  BY DEF New!Listed
<1>2. \A l \in DOMAIN records : records[l].id = t => l = k
  BY <1>1 DEF NewInv, OwnTasks
<1>3. New!Rec(t) = records[k]
  BY <1>1, <1>2 DEF New!Rec
<1>4. records[k] \in New!Record
  BY <1>1, NewParts DEF NewInv, NewTypes
<1> QED BY <1>1, <1>2, <1>3, <1>4 DEF NewInv, OwnTasks, RecordsFit

LEMMA PmStatuses ==
    ASSUME NewInv, NEW rec \in New!Record, RecordFits(rec)
    PROVE  New!PmStatus(rec) \in {"failed", "not started", "open", "verified"}
<1> SUFFICES ASSUME rec.item # 0
             PROVE  New!PmStatus(rec) \in {"failed", "not started", "open", "verified"}
  BY DEF New!PmStatus
<1>1. rec.item \in DOMAIN items /\ items[rec.item] \in New!Item
  BY NewParts DEF RecordFits, NewInv, NewTypes
<1>2. rec.kept # "none" => New!Kept(rec) \in {"failed", "verified"}
  BY DEF New!Kept, New!Record
<1>3. CASE items[rec.item].state # "started"
  BY <1>1, <1>2, <1>3 DEF New!PmStatus, New!Item
<1>4. CASE items[rec.item].state = "started"
  BY <1>1, <1>2, <1>4 DEF New!PmStatus, New!Item, NewInv, ItemsFit
<1> QED BY <1>3, <1>4

\* A verified pm step is kept on the record when it is looked at, and stays kept.
LEMMA ViewedFits ==
    ASSUME NewInv, NEW rec \in New!Record, RecordFits(rec)
    PROVE  LET v == New!Viewed(rec)
           IN  /\ v \in New!Record /\ RecordFits(v)
               /\ v.id = rec.id /\ v.item = rec.item
               /\ v.confirmed = rec.confirmed /\ v.closed = rec.closed
               /\ rec.kept = "ok" \/ New!PmStatus(rec) = "verified" => v.kept = "ok"
<1> DEFINE v == New!Viewed(rec)
<1>1. CASE ~New!Final(rec)
  <2>1. v = rec
    BY <1>1 DEF New!Viewed
  <2>2. New!PmStatus(rec) = "verified" => rec.kept = "ok"
    <3> SUFFICES ASSUME New!PmStatus(rec) = "verified", rec.kept # "ok"
                 PROVE  FALSE
      OBVIOUS
    <3>1. rec.item # 0 /\ rec.item \in DOMAIN items
      BY DEF New!PmStatus, RecordFits
    <3>2. items[rec.item] \in New!Item
      BY <3>1, NewParts DEF NewInv, NewTypes
    <3>3. rec.kept \in {"none", "bad"}
      BY DEF New!Record
    <3>4. CASE items[rec.item].state # "started"
      BY <3>1, <3>2, <3>3, <3>4 DEF New!PmStatus, New!Kept, New!Item
    <3>5. CASE items[rec.item].state = "started"
      BY <1>1, <3>1, <3>2, <3>3, <3>5 DEF New!PmStatus, New!Kept, New!Item, New!Final, NewInv, ItemsFit
    <3> QED BY <3>4, <3>5
  <2> QED BY <2>1, <2>2
<1>2. CASE New!Final(rec)
  <2> DEFINE kept == IF New!PmStatus(rec) = "verified" THEN "ok" ELSE "bad"
  <2>1. v = [rec EXCEPT !.kept = kept]
    BY <1>2 DEF New!Viewed
  <2>2. /\ v.id = rec.id /\ v.item = rec.item /\ v.kept = kept
        /\ v.confirmed = rec.confirmed /\ v.closed = rec.closed /\ v \in New!Record
    BY <2>1 DEF New!Record
  <2>3. rec.item # 0 /\ rec.item \in DOMAIN items
    BY <1>2 DEF New!Final, RecordFits
  <2>4. items[rec.item] \in New!Item
    BY <2>3, NewParts DEF NewInv, NewTypes
  <2>5. ~New!InFlight(rec.item)
    BY <1>2, <2>3 DEF New!Final, New!InFlight, NewInv, ItemsFit
  <2>6. kept = "ok" => items[rec.item].run \in {"ok", "gone"}
    BY <1>2, <2>3, <2>4 DEF New!Final, New!PmStatus, New!Item
  <2>7. rec.kept = "ok" => kept = "ok"
    BY <1>2, <2>3, <2>4 DEF New!Final, New!PmStatus, New!Item, RecordFits, NewInv, ItemsFit
  <2>8. RecordFits(v)
    BY <2>2, <2>5, <2>6, <2>7, <2>3 DEF RecordFits
  <2> QED BY <2>2, <2>7, <2>8
<1> QED BY <1>1, <1>2

\* What the operator changes on a record keeps the invariant when the record still fits.
LEMMA PutKeeps ==
    ASSUME NewInv, NEW t \in New!Listed, NEW rec \in New!Record, rec.id = t, RecordFits(rec),
           records' = New!Put(rec), UNCHANGED <<dirs, line, reqs, items, restarts>>,
           redos' \in SUBSET New!Ids, RedoAlone'
    PROVE  NewInv'
<1>1. /\ NewTypes /\ New!TypeOK /\ Len(records) \in Nat /\ DOMAIN records = 1..Len(records)
      /\ \A k \in DOMAIN records : records[k] \in New!Record
  BY NewParts DEF NewInv, NewTypes
<1>2. /\ records' = [k \in 1..Len(records) |-> records'[k]]
      /\ \A k \in DOMAIN records : records'[k] = IF records[k].id = t THEN rec ELSE records[k]
  BY <1>1 DEF New!Put
<1>3. \A k \in 1..Len(records) : records'[k] \in New!Record
  BY <1>1, <1>2
<1>4. records' \in Seq(New!Record) /\ Len(records') = Len(records) /\ DOMAIN records' = DOMAIN records
  BY <1>1, <1>2, <1>3, SeqOf
<1>5. NewTypes'
  BY <1>1, <1>4 DEF NewTypes, New!TypeOK
<1>6. \A k \in DOMAIN records : records'[k].id = records[k].id
  BY <1>2
<1>7. InLine' /\ ItemsFit'
  BY DEF NewInv, InLine, ItemsFit
<1>8. OwnTasks'
  BY <1>4, <1>6 DEF NewInv, OwnTasks, Made
<1>9. RecordsFit'
  <2> SUFFICES ASSUME NEW k \in DOMAIN records
               PROVE  RecordFits(records[k])'
    BY <1>4 DEF RecordsFit
  <2>1. RecordFits(records'[k])
    BY <1>2 DEF NewInv, RecordsFit
  <2> QED BY <2>1 DEF RecordFits, New!InFlight
<1> QED BY <1>5, <1>7, <1>8, <1>9 DEF NewInv

LEMMA OperatorKeeps ==
    ASSUME NewLimits, ~SlowProbe, NewInv, redos = {}, NEW t \in New!Listed, New!Operator(t)
    PROVE  NewInv'
<1> DEFINE rec == New!Rec(t)
           v   == New!Viewed(rec)
<1>1. rec \in New!Record /\ rec.id = t /\ RecordFits(rec) /\ Made(t)
  BY RecordParts
<1>2. /\ v \in New!Record /\ RecordFits(v) /\ v.id = t /\ v.item = rec.item
      /\ v.confirmed = rec.confirmed
      /\ rec.kept = "ok" \/ New!PmStatus(rec) = "verified" => v.kept = "ok"
  BY <1>1, ViewedFits
<1>3. redos' = {} => redos' \in SUBSET New!Ids /\ RedoAlone'
  BY DEF RedoAlone
<1>4. CASE New!View(t)
  BY <1>2, <1>3, <1>4, PutKeeps DEF New!View
<1>5. CASE New!Confirm(t)
  <2> DEFINE w == [v EXCEPT !.confirmed = TRUE]
  <2>1. New!PmStatus(rec) = "verified" \/ rec.confirmed
    <3> SUFFICES ASSUME ~rec.confirmed
                 PROVE  New!PmStatus(rec) = "verified"
      OBVIOUS
    <3>1. New!State(rec) \in {"review", "confirmed"}
      BY <1>5 DEF New!Confirm
    <3>2. rec.closed \in BOOLEAN /\ ~rec.closed
      BY <1>1, <3>1 DEF New!State, New!Record
    <3>3. New!PmStatus(rec) \in {"failed", "not started", "open", "verified"}
      BY <1>1, PmStatuses
    <3> QED BY <3>1, <3>2, <3>3 DEF New!State
  <2>2. v.kept = "ok"
    BY <1>1, <1>2, <2>1 DEF RecordFits
  <2>3. w \in New!Record /\ w.id = t /\ w.item = v.item /\ w.kept = v.kept
    BY <1>2 DEF New!Record
  <2>4. RecordFits(w)
    BY <1>2, <2>2, <2>3 DEF RecordFits
  <2>5. records' = New!Put(w) /\ redos' = {} /\ UNCHANGED <<dirs, line, reqs, items, restarts>>
    BY <1>5 DEF New!Confirm
  <2> HIDE DEF w
  <2> QED BY <1>3, <2>3, <2>4, <2>5, PutKeeps
<1>6. CASE New!Close(t)
  <2> DEFINE w == [v EXCEPT !.closed = TRUE]
  <2>1. /\ w \in New!Record /\ w.id = t /\ w.item = v.item /\ w.kept = v.kept
        /\ w.confirmed = v.confirmed
    BY <1>2 DEF New!Record
  <2>2. RecordFits(w)
    BY <1>2, <2>1 DEF RecordFits
  <2>3. records' = New!Put(w) /\ redos' = {} /\ UNCHANGED <<dirs, line, reqs, items, restarts>>
    BY <1>6 DEF New!Close
  <2> HIDE DEF w
  <2> QED BY <1>3, <2>1, <2>2, <2>3, PutKeeps
<1>7. CASE New!BeginRedo(t)
  <2>1. redos' = {t} /\ records' = New!Put(v) /\ UNCHANGED <<dirs, line, reqs, items, restarts>>
    BY <1>7 DEF New!BeginRedo
  <2>2. Len(items) < MaxItems
    <3>1. New!Cardinality(redos) = 0
      BY FS_EmptySet DEF New!Cardinality, Cardinality
    <3>2. Len(items) \in Nat
      BY NewParts DEF NewInv, NewTypes
    <3> QED BY <1>7, <3>1, <3>2 DEF New!BeginRedo, NewLimits
  <2>3. ~rec.confirmed /\ New!PmStatus(rec) # "open"
    BY <1>1, <1>7 DEF New!BeginRedo, New!MayRedo, New!State, New!Record
  <2>4. \A i \in DOMAIN items : items[i].task = t => ~New!InFlight(i)
    <3> SUFFICES ASSUME NEW i \in DOMAIN items, items[i].task = t, New!InFlight(i)
                 PROVE  FALSE
      OBVIOUS
    <3>1. i = rec.item /\ rec.item # 0
      BY <1>1, NewParts DEF RecordFits, NewInv, NewTypes
    <3>2. items[i] \in New!Item
      BY NewParts DEF NewInv, NewTypes
    <3>3. New!PmStatus(rec) = "open"
      BY <3>1, <3>2 DEF New!PmStatus, New!InFlight, New!Item, NewInv, ItemsFit
    <3> QED BY <2>3, <3>3
  <2>5. \A k \in DOMAIN records' : records'[k].id = t => ~records'[k].confirmed
    BY <1>2, <2>1, <2>3 DEF New!Put
  <2>6. Made(t)' /\ (\A i \in DOMAIN items' : items'[i].task = t => ~New!InFlight(i)')
    BY <1>1, <2>1, <2>4 DEF Made, New!InFlight
  <2>7. RedoAlone'
    BY <2>1, <2>2, <2>5, <2>6 DEF RedoAlone
  <2>8. redos' \in SUBSET New!Ids
    BY <1>1, <2>1 DEF Made
  <2> HIDE DEF v
  <2> QED BY <1>2, <2>1, <2>7, <2>8, PutKeeps
<1> QED BY <1>4, <1>5, <1>6, <1>7 DEF New!Operator

-----------------------------------------------------------------------------
(* New tasks: the pm steps *)

\* What the queue and a launch do to item i: it is never in flight again once it is not,
\* and a verified step is not forgotten otherwise than by being pruned.
StepMoves(i) ==
    /\ items' \in Seq(New!Item) /\ Len(items') = Len(items)
    /\ \A j \in DOMAIN items : j # i => items'[j] = items[j]
    /\ items'[i].task = items[i].task
    /\ New!InFlight(i)' => New!InFlight(i)
    /\ items[i].run \in {"ok", "gone"} => items'[i].run \in {"ok", "gone"}
    /\ items'[i].state \in {"waiting", "starting", "failed", "cancelled"} => items'[i].run = "none"
    /\ items'[i].state = "started" => items'[i].run # "none"
    /\ items'[i].state = "gone" => items'[i].run \notin {"running", "verifying"}

LEMMA StepMovesBy ==
    ASSUME NewInv, NEW i \in DOMAIN items, NEW item \in New!Item,
           items' = [items EXCEPT ![i] = item], item.task = items[i].task,
           \/ item.state \in {"waiting", "starting"} \/ item.run \in {"running", "verifying"}
              => New!InFlight(i),
           items[i].run \in {"ok", "gone"} => item.run \in {"ok", "gone"},
           item.state \in {"waiting", "starting", "failed", "cancelled"} => item.run = "none",
           item.state = "started" => item.run # "none",
           item.state = "gone" => item.run \notin {"running", "verifying"}
    PROVE  StepMoves(i)
<1>1. items \in Seq(New!Item)
  BY NewParts DEF NewInv, NewTypes
<1>2. /\ items' \in Seq(New!Item) /\ Len(items') = Len(items) /\ items'[i] = item
      /\ \A j \in DOMAIN items : j # i => items'[j] = items[j]
  BY <1>1
<1>3. New!InFlight(i)' => New!InFlight(i)
  BY <1>2 DEF New!InFlight
<1> QED BY <1>2, <1>3 DEF StepMoves

LEMMA PmMoves ==
    ASSUME NewInv, NEW i \in DOMAIN items, New!PmSteps(i) \/ New!Dropped(i)
    PROVE  StepMoves(i)
<1>1. /\ items[i] \in New!Item /\ New!InFlight(i) \in BOOLEAN
      /\ items[i].state \in {"waiting", "starting", "failed", "cancelled"} => items[i].run = "none"
      /\ items[i].state = "started" => items[i].run # "none"
      /\ items[i].state = "gone" => items[i].run \notin {"running", "verifying"}
  BY NewParts DEF NewInv, NewTypes, ItemsFit, New!InFlight
<1>2. ASSUME NEW state \in {"cancelled", "starting", "failed"},
             items[i].state \in {"waiting", "starting"},
             items' = [items EXCEPT ![i].state = state]
      PROVE  StepMoves(i)
  <2> DEFINE item == [items[i] EXCEPT !.state = state]
  <2>1. /\ item \in New!Item /\ item.task = items[i].task /\ item.state = state
        /\ item.run = "none" /\ items[i].run = "none" /\ New!InFlight(i)
    BY <1>1, <1>2 DEF New!Item, New!InFlight
  <2>2. items' = [items EXCEPT ![i] = item]
    BY <1>2
  <2> HIDE DEF item
  <2> QED BY <1>2, <2>1, <2>2, StepMovesBy
<1>3. ASSUME items[i].state = "starting",
             items' = [items EXCEPT ![i].state = "started", ![i].run = "running"]
      PROVE  StepMoves(i)
  <2> DEFINE item == [items[i] EXCEPT !.state = "started", !.run = "running"]
  <2>1. /\ item \in New!Item /\ item.task = items[i].task /\ item.state = "started"
        /\ item.run = "running" /\ items[i].run = "none" /\ New!InFlight(i)
    BY <1>1, <1>3 DEF New!Item, New!InFlight
  <2>2. items' = [items EXCEPT ![i] = item]
    <3>1. items \in Seq(New!Item)
      BY NewParts DEF NewInv, NewTypes
    <3> QED BY <1>1, <1>3, <3>1 DEF New!Item
  <2> HIDE DEF item
  <2> QED BY <2>1, <2>2, StepMovesBy
<1>4. ASSUME NEW run \in {"verifying", "ok", "bad", "gone"},
             \/ items[i].run \in {"running", "verifying"}
             \/ items[i].run \in {"ok", "bad"} /\ run = "gone",
             items' = [items EXCEPT ![i].run = run]
      PROVE  StepMoves(i)
  <2> DEFINE item == [items[i] EXCEPT !.run = run]
  <2>1. /\ item \in New!Item /\ item.task = items[i].task /\ item.state = items[i].state
        /\ item.run = run /\ items[i].state \in {"started", "gone"}
        /\ items[i].state = "gone" => run = "gone"
        /\ run = "verifying" => New!InFlight(i)
        /\ items[i].run \in {"ok", "gone"} => run = "gone"
    BY <1>1, <1>4 DEF New!Item, New!InFlight
  <2>2. items' = [items EXCEPT ![i] = item]
    BY <1>4
  <2> HIDE DEF item
  <2> QED BY <1>4, <2>1, <2>2, StepMovesBy
<1>5. ASSUME items[i].run \notin {"running", "verifying"},
             items' = [items EXCEPT ![i].state = "gone"]
      PROVE  StepMoves(i)
  <2> DEFINE item == [items[i] EXCEPT !.state = "gone"]
  <2>1. /\ item \in New!Item /\ item.task = items[i].task /\ item.state = "gone"
        /\ item.run = items[i].run
    BY <1>1 DEF New!Item
  <2>2. items' = [items EXCEPT ![i] = item]
    BY <1>5
  <2> HIDE DEF item
  <2> QED BY <1>5, <2>1, <2>2, StepMovesBy
<1>6. CASE New!PmSteps(i)
  BY <1>2, <1>3, <1>4, <1>6 DEF New!PmSteps
<1>7. CASE New!Dropped(i)
  BY <1>4, <1>5, <1>7 DEF New!Dropped
<1> QED BY <1>6, <1>7

LEMMA StepsKeep ==
    ASSUME NewInv, redos = {}, NEW i \in DOMAIN items, New!PmSteps(i) \/ New!Dropped(i)
    PROVE  NewInv'
<1>1. StepMoves(i) /\ UNCHANGED <<dirs, line, reqs, records, redos, restarts>>
  BY PmMoves DEF New!PmSteps, New!Dropped
<1>2. /\ NewTypes /\ New!TypeOK /\ Len(items) \in Nat /\ DOMAIN items = 1..Len(items)
      /\ \A k \in DOMAIN records : records[k] \in New!Record
  BY NewParts DEF NewInv, NewTypes
<1>3. DOMAIN items' = DOMAIN items /\ \A j \in DOMAIN items : items'[j].task = items[j].task
  BY <1>1, <1>2 DEF StepMoves
<1>4. NewTypes'
  BY <1>1, <1>2 DEF NewTypes, New!TypeOK, StepMoves
<1>5. InLine' /\ RedoAlone'
  BY <1>1 DEF NewInv, InLine, RedoAlone
<1>6. OwnTasks'
  BY <1>1, <1>3 DEF NewInv, OwnTasks, Made
<1>7. ItemsFit'
  BY <1>1, <1>3 DEF NewInv, ItemsFit, StepMoves
<1>8. \A j \in DOMAIN items : New!InFlight(j)' => New!InFlight(j)
  BY <1>1 DEF StepMoves, New!InFlight
<1>9. \A j \in DOMAIN items : items[j].run \in {"ok", "gone"} => items'[j].run \in {"ok", "gone"}
  BY <1>1 DEF StepMoves
<1>10. RecordsFit'
  <2> SUFFICES ASSUME NEW k \in DOMAIN records
               PROVE  RecordFits(records[k])'
    BY <1>1 DEF RecordsFit
  <2>1. RecordFits(records[k]) /\ records[k] \in New!Record /\ records'[k] = records[k]
    BY <1>1, <1>2 DEF NewInv, RecordsFit
  <2> DEFINE rec == records[k]
  <2>2. /\ rec.item # 0 => rec.item \in DOMAIN items' /\ items'[rec.item].task = rec.id
        /\ \A j \in DOMAIN items' : items'[j].task = rec.id /\ New!InFlight(j)' => j = rec.item
        /\ rec.confirmed => rec.kept = "ok"
    BY <1>3, <1>8, <2>1 DEF RecordFits
  <2>3. rec.kept # "none" => rec.item # 0 /\ ~New!InFlight(rec.item)'
    <3> SUFFICES ASSUME rec.kept # "none"
                 PROVE  rec.item # 0 /\ ~New!InFlight(rec.item)'
      OBVIOUS
    <3>1. rec.item # 0 /\ rec.item \in DOMAIN items /\ ~New!InFlight(rec.item)
      BY <2>1 DEF RecordFits
    <3> QED BY <1>1, <1>8, <3>1 DEF New!InFlight
  <2>4. rec.kept = "ok" => items'[rec.item].run \in {"ok", "gone"}
    <3> SUFFICES ASSUME rec.kept = "ok"
                 PROVE  items'[rec.item].run \in {"ok", "gone"}
      OBVIOUS
    <3>1. rec.item \in DOMAIN items /\ items[rec.item].run \in {"ok", "gone"}
      BY <2>1 DEF RecordFits
    <3> QED BY <1>9, <3>1
  <2> QED BY <1>1, <2>2, <2>3, <2>4 DEF RecordFits, New!InFlight
<1> QED BY <1>4, <1>5, <1>6, <1>7, <1>10 DEF NewInv

-----------------------------------------------------------------------------
(* New tasks: a record and its pm step, and another pm step *)

\* The records file: the new record before the others, and no more of them than are kept.
LEMMA NewestFirst ==
    ASSUME New!TypeOK, NewLimits, NEW x \in New!Record,
           records' = SubSeq(<<x>> \o records, 1, New!Min({Keep, Len(<<x>> \o records)}))
    PROVE  /\ records' \in Seq(New!Record) /\ Len(records') <= Keep
           /\ \A k \in DOMAIN records' :
                 \/ k = 1 /\ records'[k] = x
                 \/ k # 1 /\ k - 1 \in DOMAIN records /\ records'[k] = records[k - 1]
<1> DEFINE all == <<x>> \o records
           m   == New!Min({Keep, Len(all)})
<1>0. records' = SubSeq(all, 1, m) /\ Keep \in Nat
  BY DEF NewLimits
<1>1. /\ Len(records) \in Nat /\ DOMAIN records = 1..Len(records)
      /\ all \in Seq(New!Record) /\ Len(all) = Len(records) + 1
      /\ all[1] = x /\ \A k \in 2..(Len(records) + 1) : all[k] = records[k - 1]
  <2>1. records \in Seq(New!Record) /\ Len(records) \in Nat /\ DOMAIN records = 1..Len(records)
    BY NewParts
  <2>2. <<x>> \in Seq(New!Record) /\ Len(<<x>>) = 1 /\ <<x>>[1] = x
    OBVIOUS
  <2>3. all \in Seq(New!Record) /\ Len(all) = 1 + Len(records)
    BY <2>1, <2>2, ConcatProperties
  <2>4. \A k \in 1..(1 + Len(records)) : all[k] = IF k <= 1 THEN <<x>>[k] ELSE records[k - 1]
    BY <2>1, <2>2, ConcatProperties
  <2> QED BY <2>1, <2>2, <2>3, <2>4
<1>2. m \in Nat /\ m <= Keep /\ m <= Len(all)
  BY <1>0, <1>1, MinOf
<1> HIDE DEF all, m
<1>3. /\ records' \in Seq(New!Record) /\ Len(records') = m /\ DOMAIN records' = 1..m
      /\ \A k \in 1..m : records'[k] = all[k]
  <2> DEFINE part == SubSeq(all, 1, m)
  <2>1. /\ part \in Seq(New!Record) /\ Len(part) = m /\ DOMAIN part = 1..m
        /\ \A k \in 1..m : part[k] = all[k]
    <3>1. CASE m = 0
      BY <1>1, <1>2, <3>1, SubSeqProperties
    <3>2. CASE m # 0
      BY <1>1, <1>2, <3>2, SubSeqProperties
    <3> QED BY <3>1, <3>2
  <2> HIDE DEF part
  <2>2. records' = part
    BY <1>0 DEF part
  <2> QED BY <2>1, <2>2
<1>4. ASSUME NEW k \in DOMAIN records', k # 1
      PROVE  k - 1 \in DOMAIN records /\ records'[k] = records[k - 1]
  BY <1>1, <1>2, <1>3, <1>4
<1>5. 1 \in DOMAIN records' => records'[1] = x
  BY <1>1, <1>3
<1> QED BY <1>2, <1>3, <1>4, <1>5

\* Another pm step is queued: it is the only one of the task it is for that is in flight.
LEMMA ItemAdded ==
    ASSUME NewInv, NEW t \in New!Ids, items' = Append(items, New!NewItem(t)), Len(items) < MaxItems
    PROVE  /\ items' \in Seq(New!Item) /\ Len(items') = Len(items) + 1
           /\ DOMAIN items' = DOMAIN items \cup {Len(items) + 1} /\ Len(items) \in Nat
           /\ Len(items) + 1 \notin DOMAIN items
           /\ items'[Len(items) + 1] = New!NewItem(t)
           /\ New!NewItem(t).task = t
           /\ \A i \in DOMAIN items : items'[i] = items[i]
           /\ ItemsFit'
<1>1. items \in Seq(New!Item) /\ Len(items) \in Nat /\ DOMAIN items = 1..Len(items)
  BY NewParts DEF NewInv, NewTypes
<1>2. /\ New!NewItem(t) \in New!Item /\ New!NewItem(t).task = t
      /\ New!NewItem(t).state = "waiting" /\ New!NewItem(t).run = "none"
  BY DEF New!NewItem, New!Item
<1>3. /\ items' \in Seq(New!Item) /\ Len(items') = Len(items) + 1
      /\ DOMAIN items' = DOMAIN items \cup {Len(items) + 1}
      /\ items'[Len(items) + 1] = New!NewItem(t)
      /\ \A i \in DOMAIN items : items'[i] = items[i]
  BY <1>1, <1>2
<1>4. ItemsFit'
  BY <1>2, <1>3 DEF ItemsFit, NewInv
<1> QED BY <1>1, <1>2, <1>3, <1>4

\* A record of another task still fits.
LEMMA OthersFit ==
    ASSUME NewInv, NEW t \in New!Ids, items' = Append(items, New!NewItem(t)), Len(items) < MaxItems,
           NEW rec, RecordFits(rec), rec.id # t
    PROVE  /\ rec.item # 0 => rec.item \in DOMAIN items' /\ items'[rec.item].task = rec.id
           /\ \A i \in DOMAIN items' :
                 /\ items'[i].task = rec.id
                 /\ items'[i].state \in {"waiting", "starting"} \/ items'[i].run \in {"running", "verifying"}
                 => i = rec.item
           /\ rec.kept # "none" =>
                 /\ rec.item # 0
                 /\ items'[rec.item].state \notin {"waiting", "starting"}
                 /\ items'[rec.item].run \notin {"running", "verifying"}
           /\ rec.kept = "ok" => items'[rec.item].run \in {"ok", "gone"}
           /\ rec.confirmed => rec.kept = "ok"
<1>1. /\ DOMAIN items' = DOMAIN items \cup {Len(items) + 1}
      /\ items'[Len(items) + 1].task = t
      /\ \A i \in DOMAIN items : items'[i] = items[i]
  BY ItemAdded
<1> QED BY <1>1 DEF RecordFits, New!InFlight

LEMMA AddKeeps ==
    ASSUME NewLimits, NewInv, redos = {}, NEW r \in Requests, New!AddRecord(r)
    PROVE  NewInv'
<1>0. reqs[r].at = "opened" /\ reqs[r].id \in New!Ids /\ dirs[reqs[r].id] = r
  BY DEF NewInv, InLine, New!AddRecord
<1>a. PICK t \in New!Ids : t = reqs[r].id
  BY <1>0
<1> DEFINE n   == Len(items) + 1
           new == [id |-> t, item |-> n, kept |-> "none", confirmed |-> FALSE, closed |-> FALSE]
<1>1. /\ NewTypes /\ New!TypeOK /\ InLine /\ OwnTasks /\ RecordsFit /\ reqs[r].at = "opened"
      /\ Len(items) < MaxItems /\ reqs' = [reqs EXCEPT ![r].at = "done"]
      /\ items' = Append(items, New!NewItem(t))
      /\ UNCHANGED <<dirs, line, redos, restarts>>
      /\ reqs \in [Requests -> New!Request]
  BY <1>a DEF NewInv, NewTypes, New!AddRecord, New!TypeOK
<1>2. t \in New!Ids /\ dirs[t] = r /\ reqs[r].id = t
  BY <1>0, <1>a
<1>3. ~Made(t)
  BY <1>1, <1>2 DEF Made
<1>4. /\ reqs'[r].at = "done" /\ reqs'[r].id = t /\ \A s \in Requests : s # r => reqs'[s] = reqs[s]
      /\ reqs' \in [Requests -> New!Request]
  BY <1>1, <1>2 DEF New!Request
<1>5. Made(t)' /\ \A u \in New!Ids : Made(u) => Made(u)'
  BY <1>1, <1>2, <1>4 DEF Made
<1>6. /\ items' \in Seq(New!Item) /\ Len(items') = n /\ DOMAIN items' = DOMAIN items \cup {n}
      /\ Len(items) \in Nat /\ n \notin DOMAIN items
      /\ items'[n] = New!NewItem(t) /\ New!NewItem(t).task = t
      /\ (\A i \in DOMAIN items : items'[i] = items[i]) /\ ItemsFit'
  BY <1>1, <1>2, ItemAdded
<1>7. new \in New!Record
  BY <1>1, <1>2, <1>6 DEF New!Record, NewLimits
<1>8. /\ records' \in Seq(New!Record) /\ Len(records') <= Keep
      /\ \A k \in DOMAIN records' :
            \/ k = 1 /\ records'[k] = new
            \/ k # 1 /\ k - 1 \in DOMAIN records /\ records'[k] = records[k - 1]
  <2>1. records' = SubSeq(<<new>> \o records, 1, New!Min({Keep, Len(<<new>> \o records)}))
    BY <1>2 DEF New!AddRecord
  <2>2. PICK x \in New!Record : x = new
    BY <1>7
  <2> HIDE DEF new
  <2>3. records' = SubSeq(<<x>> \o records, 1, New!Min({Keep, Len(<<x>> \o records)}))
    BY <2>1, <2>2
  <2>4. /\ records' \in Seq(New!Record) /\ Len(records') <= Keep
        /\ \A k \in DOMAIN records' :
              \/ k = 1 /\ records'[k] = x
              \/ k # 1 /\ k - 1 \in DOMAIN records /\ records'[k] = records[k - 1]
    BY <1>1, <2>3, NewestFirst
  <2> QED BY <2>2, <2>4
<1>9. NewTypes'
  BY <1>1, <1>4, <1>6, <1>8 DEF NewTypes, New!TypeOK, NewLimits
<1>10. InLine'
  BY <1>1, <1>4 DEF InLine
<1>11. new.id = t /\ new.item = n /\ new.kept = "none" /\ ~new.confirmed
  OBVIOUS
<1>12. DOMAIN records' \subseteq Int
  BY <1>8
<1> HIDE DEF new
<1>13. \A k \in DOMAIN records : Made(records[k].id)
  BY <1>1 DEF OwnTasks
<1>14. OwnTasks'
  <2>1. ASSUME NEW k \in DOMAIN records', NEW l \in DOMAIN records', records'[k].id = records'[l].id
        PROVE  k = l
    <3>1. k = 1 <=> l = 1
      BY <1>3, <1>8, <1>11, <1>13, <2>1
    <3>2. ASSUME k # 1, l # 1 PROVE k - 1 = l - 1
      <4>1. /\ k - 1 \in DOMAIN records /\ records'[k] = records[k - 1]
            /\ l - 1 \in DOMAIN records /\ records'[l] = records[l - 1]
        BY <1>8, <3>2
      <4> QED BY <1>1, <2>1, <4>1 DEF OwnTasks
    <3> QED BY <1>12, <3>1, <3>2
  <2>2. \A k \in DOMAIN records' : Made(records[k].id)'
    <3> SUFFICES ASSUME NEW k \in DOMAIN records', k # 1
                 PROVE  Made(records[k].id)'
      BY <1>5, <1>8, <1>11
    <3>1. Made(records'[k].id)
      BY <1>8, <1>13
    <3> QED BY <1>5, <3>1 DEF Made
  <2>3. \A i \in DOMAIN items' : Made(items[i].task)'
    <3> SUFFICES ASSUME NEW i \in DOMAIN items
                 PROVE  Made(items[i].task)'
      BY <1>5, <1>6
    <3>1. Made(items[i].task)
      BY <1>1 DEF OwnTasks
    <3> QED BY <1>5, <1>6, <3>1 DEF Made
  <2> QED BY <2>1, <2>2, <2>3 DEF OwnTasks
<1>15. RecordsFit'
  <2>1. ASSUME NEW k \in DOMAIN records', k = 1
        PROVE  RecordFits(records[k])'
    <3>1. records'[k] = new
      BY <1>8, <2>1
    <3>2. \A i \in DOMAIN items : items[i].task # t
      BY <1>1, <1>3 DEF OwnTasks
    <3> QED BY <1>6, <1>11, <3>1, <3>2 DEF RecordFits
  <2>2. ASSUME NEW k \in DOMAIN records', k # 1
        PROVE  RecordFits(records[k])'
    <3>1. RecordFits(records'[k]) /\ records'[k].id # t
      BY <1>1, <1>3, <1>8, <1>13, <2>2 DEF RecordsFit
    <3> QED BY <1>1, <1>2, <3>1, OthersFit DEF RecordFits, New!InFlight
  <2> QED BY <2>1, <2>2 DEF RecordsFit
<1>16. RedoAlone'
  BY <1>1 DEF RedoAlone
<1> QED BY <1>6, <1>9, <1>10, <1>14, <1>15, <1>16 DEF NewInv

LEMMA RedoKeeps ==
    ASSUME NewLimits, NewInv, NEW t \in redos, New!FinishRedo(t)
    PROVE  NewInv'
<1> DEFINE n == Len(items) + 1
<1>1. /\ NewTypes /\ New!TypeOK /\ OwnTasks /\ RecordsFit /\ redos' = redos \ {t}
      /\ UNCHANGED <<dirs, line, reqs, restarts>> /\ redos \subseteq New!Ids
  BY DEF NewInv, NewTypes, New!FinishRedo, New!TypeOK
<1>2. /\ redos' = {} /\ Len(items) < MaxItems /\ Made(t) /\ t \in New!Ids
      /\ \A i \in DOMAIN items : items[i].task = t => ~New!InFlight(i)
      /\ \A k \in DOMAIN records : records[k].id = t => ~records[k].confirmed
  BY <1>1 DEF NewInv, RedoAlone, Made
<1>3. New!SetPmStep(t, n) /\ items' = Append(items, New!NewItem(t))
  BY <1>2 DEF New!FinishRedo, New!Pending, New!InFlight
<1>4. /\ items' \in Seq(New!Item) /\ Len(items') = n /\ DOMAIN items' = DOMAIN items \cup {n}
      /\ Len(items) \in Nat /\ n \notin DOMAIN items
      /\ items'[n] = New!NewItem(t) /\ New!NewItem(t).task = t
      /\ (\A i \in DOMAIN items : items'[i] = items[i]) /\ ItemsFit'
  BY <1>2, <1>3, ItemAdded
<1>5. /\ Len(records) \in Nat /\ DOMAIN records = 1..Len(records)
      /\ \A k \in DOMAIN records : records[k] \in New!Record
  BY <1>1, NewParts
<1> DEFINE new(k) == [records[k] EXCEPT !.item = n, !.kept = "none"]
<1>6. records' = [k \in DOMAIN records |-> IF records[k].id = t THEN new(k) ELSE records[k]]
  BY <1>3 DEF New!SetPmStep
<1>7. ASSUME NEW k \in DOMAIN records
      PROVE  /\ new(k) \in New!Record /\ new(k).id = records[k].id /\ new(k).item = n
             /\ new(k).kept = "none" /\ new(k).confirmed = records[k].confirmed
  <2>1. n \in 0..MaxItems /\ records[k] \in New!Record
    BY <1>2, <1>4, <1>5 DEF NewLimits
  <2> QED BY <2>1 DEF New!Record
<1> HIDE DEF new
<1>8. \A k \in DOMAIN records : /\ records'[k] = IF records[k].id = t THEN new(k) ELSE records[k]
                                /\ records'[k].id = records[k].id /\ records'[k] \in New!Record
  BY <1>5, <1>6, <1>7
<1>9. records' \in Seq(New!Record) /\ Len(records') = Len(records) /\ DOMAIN records' = DOMAIN records
  <2>1. records' = [k \in 1..Len(records) |-> records'[k]]
    BY <1>5, <1>6
  <2>2. \A k \in 1..Len(records) : records'[k] \in New!Record
    BY <1>5, <1>8
  <2> QED BY <1>5, <2>1, <2>2, SeqOf
<1>10. NewTypes'
  BY <1>1, <1>2, <1>4, <1>9 DEF NewTypes, New!TypeOK, NewLimits
<1>11. InLine' /\ RedoAlone'
  BY <1>1, <1>2 DEF NewInv, InLine, RedoAlone
<1>12. OwnTasks'
  <2>1. \A u \in New!Ids : Made(u) => Made(u)'
    BY <1>1 DEF Made
  <2>2. \A k \in DOMAIN records' : Made(records[k].id)'
    <3> SUFFICES ASSUME NEW k \in DOMAIN records
                 PROVE  Made(records[k].id)'
      BY <1>9
    <3>1. Made(records'[k].id)
      BY <1>1, <1>8 DEF OwnTasks
    <3> QED BY <2>1, <3>1 DEF Made
  <2>3. \A i \in DOMAIN items' : Made(items[i].task)'
    <3>1. ASSUME NEW i \in DOMAIN items
          PROVE  Made(items[i].task)'
      <4>1. Made(items[i].task)
        BY <1>1 DEF OwnTasks
      <4> QED BY <1>4, <2>1, <4>1 DEF Made
    <3>2. Made(t)'
      BY <1>2, <2>1
    <3> QED BY <1>4, <3>1, <3>2
  <2>4. \A k, l \in DOMAIN records' : records'[k].id = records'[l].id => k = l
    BY <1>1, <1>8, <1>9 DEF OwnTasks
  <2> QED BY <2>2, <2>3, <2>4 DEF OwnTasks
<1>13. RecordsFit'
  <2> SUFFICES ASSUME NEW k \in DOMAIN records
               PROVE  RecordFits(records[k])'
    BY <1>9 DEF RecordsFit
  <2>1. CASE records[k].id # t
    <3>1. RecordFits(records'[k]) /\ records'[k].id # t
      BY <1>1, <1>8, <2>1 DEF RecordsFit
    <3> QED BY <1>2, <1>3, <3>1, OthersFit DEF RecordFits, New!InFlight
  <2>2. CASE records[k].id = t
    <3>1. /\ records'[k].id = t /\ records'[k].item = n /\ records'[k].kept = "none"
          /\ ~records'[k].confirmed
      BY <1>2, <1>7, <1>8, <2>2
    <3>2. \A i \in DOMAIN items : items'[i].task = t => ~New!InFlight(i)'
      BY <1>2, <1>4 DEF New!InFlight
    <3>3. n # 0
      BY <1>4
    <3> QED BY <1>4, <3>1, <3>2, <3>3 DEF RecordFits
  <2> QED BY <2>1, <2>2
<1> QED BY <1>4, <1>10, <1>11, <1>12, <1>13 DEF NewInv

-----------------------------------------------------------------------------
(* New tasks: the theorems *)

LEMMA NewStarts == NewLimits /\ New!Init => NewInv
<1> SUFFICES ASSUME NewLimits, New!Init
             PROVE  NewInv
  OBVIOUS
<1>1. /\ dirs = [i \in New!Ids |-> "free"]
      /\ line = <<>> /\ reqs = [r \in Requests |-> [at |-> "idle", id |-> 0, tries |-> 0]]
      /\ records = <<>> /\ items = <<>> /\ redos = {} /\ restarts = 0
  BY DEF New!Init
<1>2. NewTypes
  <2>1. reqs \in [Requests -> New!Request]
    BY <1>1 DEF New!Request, NewLimits
  <2>2. records \in Seq(New!Record) /\ items \in Seq(New!Item) /\ line \in Seq(Requests)
    BY <1>1
  <2>3. Len(records) <= Keep /\ Len(items) <= MaxItems /\ restarts \in 0..MaxRestarts
    BY <1>1 DEF NewLimits
  <2>4. dirs \in [New!Ids -> New!Makers] /\ redos \subseteq New!Ids
    BY <1>1 DEF New!Makers
  <2> QED BY <2>1, <2>2, <2>3, <2>4 DEF NewTypes, New!TypeOK
<1>3. InLine
  BY <1>1 DEF InLine, NewLimits
<1>4. OwnTasks /\ ItemsFit /\ RecordsFit /\ RedoAlone
  BY <1>1 DEF OwnTasks, ItemsFit, RecordsFit, RedoAlone
<1> QED BY <1>2, <1>3, <1>4 DEF NewInv

LEMMA NewNext ==
    ASSUME NewLimits, ~SlowProbe, NewInv, [New!Next]_(New!vars)
    PROVE  NewInv'
<1>1. CASE UNCHANGED New!vars
  BY <1>1 DEF New!vars, NewInv, NewTypes, New!TypeOK, InLine, OwnTasks, Made, ItemsFit,
              RecordsFit, RecordFits, New!InFlight, RedoAlone
<1>2. CASE \E t \in redos : New!FinishRedo(t)
  BY <1>2, RedoKeeps
<1>3. CASE redos = {} /\ \E r \in Requests : New!Create(r) \/ New!List(r) \/ New!OpenTask(r) \/ New!AddRecord(r)
  BY <1>3, CreateKeeps, ListKeeps, OpenKeeps, AddKeeps
<1>4. CASE redos = {} /\ (New!LaneClaims \/ New!Restart)
  BY <1>4, LaneKeeps, NewRestartKeeps
<1>5. CASE redos = {} /\ \E i \in DOMAIN items : New!PmSteps(i) \/ New!Dropped(i)
  BY <1>5, StepsKeep
<1>6. CASE redos = {} /\ \E t \in New!Listed : New!Operator(t)
  BY <1>6, OperatorKeeps
<1> QED BY <1>1, <1>2, <1>3, <1>4, <1>5, <1>6 DEF New!Next

\* Claims, records and pm steps fit each other while a Redo is not interleaved with anything
\* else (the probe of the CLI is quick): every task has a record of its own, only the pm step
\* it names may be out, and a task that is being redone has none out and is not confirmed
\* (newTask.ts 228-351).
THEOREM NewInvHolds == ASSUME NewLimits, ~SlowProbe PROVE New!Spec => []NewInv
<1>1. New!Init => NewInv
  BY NewStarts
<1>2. NewInv /\ [New!Next]_(New!vars) => NewInv'
  BY NewNext
<1> QED BY <1>1, <1>2, PTL DEF New!Spec

\* newTask.ts 23-26, 306: what the operator confirmed is verified and final, with as many
\* requests, ids, records kept and pm steps as there may be.
THEOREM ConfirmedIsFinalHolds ==
    ASSUME NewLimits, ~SlowProbe PROVE New!Spec => []New!ConfirmedIsFinal
<1>1. NewInv => New!ConfirmedIsFinal
  <2> SUFFICES ASSUME NewInv, NEW t \in New!Listed, New!Rec(t).confirmed
               PROVE  /\ New!Rec(t).kept = "ok"
                      /\ \A i \in DOMAIN items : items[i].task = t => ~New!InFlight(i)
    BY DEF New!ConfirmedIsFinal, NewInv, NewTypes
  <2>1. New!Rec(t) \in New!Record /\ New!Rec(t).id = t /\ RecordFits(New!Rec(t))
    BY RecordParts
  <2> QED BY <2>1 DEF RecordFits
<1> QED BY <1>1, NewInvHolds, PTL

\* Every record of after a step that still names a pm step kept as verified keeps it so.
LEMMA KeptStays ==
    ASSUME NewLimits, ~SlowProbe, NewInv, [New!Next]_(New!vars),
           NEW t \in New!Listed, New!Rec(t).kept = "ok",
           NEW k \in DOMAIN records', records'[k].id = t, records'[k].item = New!Rec(t).item
    PROVE  records'[k].kept = "ok"
<1>1. /\ New!Rec(t) \in New!Record /\ RecordFits(New!Rec(t)) /\ Made(t)
      /\ \A l \in DOMAIN records : records[l].id = t => records[l] = New!Rec(t)
  BY RecordParts
<1>2. /\ New!TypeOK /\ DOMAIN records = 1..Len(records) /\ Len(records) \in Nat
      /\ DOMAIN items = 1..Len(items) /\ Len(items) \in Nat
  BY NewParts DEF NewInv, NewTypes
<1>3. CASE UNCHANGED records
  BY <1>1, <1>3
<1>4. ASSUME NEW u \in redos, New!FinishRedo(u)
      PROVE  records'[k].kept = "ok"
  <2>1. \A i \in DOMAIN items : items[i].task = u => ~New!InFlight(i)
    BY DEF NewInv, RedoAlone
  <2>2. New!SetPmStep(u, Len(items) + 1)
    BY <1>4, <2>1 DEF New!FinishRedo, New!Pending, New!InFlight
  <2>3. k \in DOMAIN records /\ records'[k] = IF records[k].id = u
           THEN [records[k] EXCEPT !.item = Len(items) + 1, !.kept = "none"] ELSE records[k]
    BY <2>2 DEF New!SetPmStep
  <2>4. CASE records[k].id # u
    BY <1>1, <2>3, <2>4
  <2>5. CASE records[k].id = u
    <3>1. records[k] \in New!Record
      BY <2>3, NewParts, <1>2
    <3>2. records'[k].id = records[k].id /\ records'[k].item = Len(items) + 1
      BY <2>3, <2>5, <3>1 DEF New!Record
    <3>3. New!Rec(t).item \in 1..Len(items)
      BY <1>1, <1>2 DEF RecordFits
    <3> QED BY <1>2, <3>2, <3>3
  <2> QED BY <2>4, <2>5
<1>5. ASSUME NEW r \in Requests, New!AddRecord(r)
      PROVE  records'[k].kept = "ok"
  <2> DEFINE new == [id |-> reqs[r].id, item |-> Len(items) + 1, kept |-> "none",
                     confirmed |-> FALSE, closed |-> FALSE]
  <2>1. /\ reqs[r].at = "opened" /\ reqs[r].id \in New!Ids /\ dirs[reqs[r].id] = r
        /\ Len(items) < MaxItems
    BY <1>5 DEF New!AddRecord, NewInv, InLine
  <2>a. new \in New!Record
    <3>1. Len(items) + 1 \in 0..MaxItems
      BY <1>2, <2>1 DEF NewLimits
    <3> QED BY <2>1, <3>1 DEF New!Record
  <2>2. PICK x \in New!Record : x = new
    BY <2>a
  <2>3. x.id # t
    BY <1>1, <2>1, <2>2 DEF Made
  <2>4. records' = SubSeq(<<new>> \o records, 1, New!Min({Keep, Len(<<new>> \o records)}))
    BY <1>5 DEF New!AddRecord
  <2> HIDE DEF new
  <2>5. records' = SubSeq(<<x>> \o records, 1, New!Min({Keep, Len(<<x>> \o records)}))
    BY <2>2, <2>4
  <2>6. \A l \in DOMAIN records' :
           \/ l = 1 /\ records'[l] = x
           \/ l # 1 /\ l - 1 \in DOMAIN records /\ records'[l] = records[l - 1]
    BY <1>2, <2>5, NewestFirst
  <2> QED BY <1>1, <2>3, <2>6
<1>6. ASSUME NEW u \in New!Listed, New!Operator(u)
      PROVE  records'[k].kept = "ok"
  <2> DEFINE v == New!Viewed(New!Rec(u))
  <2>1. /\ New!Rec(u) \in New!Record /\ New!Rec(u).id = u /\ RecordFits(New!Rec(u))
        /\ \A l \in DOMAIN records : records[l].id = u => records[l] = New!Rec(u)
    BY RecordParts
  <2>2. v \in New!Record /\ v.id = u /\ (New!Rec(u).kept = "ok" => v.kept = "ok")
    BY <2>1, ViewedFits
  <2> HIDE DEF v
  <2>3. PICK w \in {v, [v EXCEPT !.confirmed = TRUE], [v EXCEPT !.closed = TRUE]} :
           records' = New!Put(w)
    BY <1>6 DEF New!Operator, New!View, New!Confirm, New!Close, New!BeginRedo, v
  <2>4. w.id = u /\ w.kept = v.kept
    BY <2>2, <2>3 DEF New!Record
  <2>5. k \in DOMAIN records /\ records'[k] = IF records[k].id = u THEN w ELSE records[k]
    BY <2>3, <2>4 DEF New!Put
  <2> QED BY <1>1, <2>1, <2>2, <2>4, <2>5
<1>7. ASSUME NEW r \in Requests, New!Create(r) \/ New!List(r) \/ New!OpenTask(r)
      PROVE  UNCHANGED records
  BY <1>7 DEF New!Create, New!List, New!OpenTask
<1>8. ASSUME New!LaneClaims \/ New!Restart \/ UNCHANGED New!vars
             \/ \E i \in DOMAIN items : New!PmSteps(i) \/ New!Dropped(i)
      PROVE  UNCHANGED records
  BY <1>8 DEF New!LaneClaims, New!Restart, New!vars, New!PmSteps, New!Dropped
<1> QED BY <1>3, <1>4, <1>5, <1>6, <1>7, <1>8 DEF New!Next

\* types.ts 1379: once seen, a verified pm step stays so while the queue forgets its item and
\* its launch is pruned, until it is redone.
THEOREM OutcomeKeptHolds == ASSUME NewLimits, ~SlowProbe PROVE New!Spec => New!OutcomeKept
<1> DEFINE Kept == \A t \in New!Listed :
                      /\ New!Rec(t).kept = "ok"
                      /\ (t \in New!Listed)' /\ (New!Rec(t).item)' = New!Rec(t).item
                      => (New!Rec(t).kept = "ok" /\ New!State(New!Rec(t)) \in {"review", "confirmed", "closed"})'
<1>1. NewInv /\ NewInv' /\ [New!Next]_(New!vars) => [Kept]_(New!vars)
  <2> SUFFICES ASSUME NewInv, NewInv', [New!Next]_(New!vars), NEW t \in New!Listed,
                      New!Rec(t).kept = "ok", (t \in New!Listed)', (New!Rec(t).item)' = New!Rec(t).item
               PROVE  (New!Rec(t).kept = "ok" /\ New!State(New!Rec(t)) \in {"review", "confirmed", "closed"})'
    OBVIOUS
  <2>1. PICK k \in DOMAIN records' : records'[k].id = t
    BY DEF New!Listed
  <2>2. \A l \in DOMAIN records' : records'[l].id = t => l = k
    BY <2>1 DEF NewInv, OwnTasks
  <2>3. New!Rec(t)' = records'[k]
    BY <2>1, <2>2 DEF New!Rec
  <2>4. records'[k].item = New!Rec(t).item
    BY <2>3
  <2>5. records'[k].kept = "ok"
    BY <2>1, <2>4, KeptStays
  <2>6. RecordFits(records[k])'
    BY <2>1 DEF NewInv, RecordsFit
  <2>7. /\ New!Rec(t)'.kept = "ok" /\ New!Rec(t)' \in New!Record
        /\ New!Rec(t)'.item # 0 /\ New!Rec(t)'.item \in DOMAIN items'
        /\ items'[New!Rec(t)'.item].run \in {"ok", "gone"}
        /\ items'[New!Rec(t)'.item] \in New!Item
    <3>1. /\ records'[k].item # 0 /\ records'[k].item \in DOMAIN items'
          /\ items'[records'[k].item].run \in {"ok", "gone"}
      BY <2>5, <2>6 DEF RecordFits
    <3>2. records'[k] \in New!Record /\ items'[records'[k].item] \in New!Item
      BY <2>1, <3>1 DEF NewInv, NewTypes, New!TypeOK
    <3> QED BY <2>3, <2>5, <3>1, <3>2
  <2>8. New!PmStatus(New!Rec(t))' = "verified"
    BY <2>7 DEF New!PmStatus, New!Kept, New!Item, NewInv, ItemsFit
  <2>9. New!State(New!Rec(t))' \in {"review", "confirmed", "closed"}
    BY <2>7, <2>8 DEF New!State, New!Record
  <2> QED BY <2>7, <2>9
<1>2. New!Spec => []NewInv
  BY NewInvHolds
<1>3. []NewInv /\ [][New!Next]_(New!vars) => [][Kept]_(New!vars)
  BY <1>1, PTL
<1> QED BY <1>2, <1>3, PTL DEF New!Spec, New!OutcomeKept

-----------------------------------------------------------------------------
(* The start dialog *)

CONSTANTS Fields, MaxEdits, MaxPosts, MaxSteps, MaxOutages
VARIABLES server, seen, poll, form, planned, confirmed, promised, post, cancel, count

Dialog == INSTANCE StartDialog

DialogPost == [what : {"none", "start", "stop"}, at : {"none", "sent", "answered"},
               body : [Fields -> 0..1], answer : {"none", "running", "queued", "refused"}]

\* The tick stands for the form as it was promised; while a start is under way it cannot go,
\* because nothing can be edited then.
DialogInv ==
    /\ form \in [Fields -> 0..1] /\ post \in DialogPost /\ confirmed \in BOOLEAN
    /\ confirmed => form = promised
    /\ post.at # "none" /\ post.what = "start" => confirmed /\ post.body = promised

LEMMA PostMoves ==
    ASSUME DialogInv, NEW at \in {"none", "sent", "answered"},
           NEW answer \in {"none", "running", "queued", "refused"},
           post.at # "none", post' = [post EXCEPT !.at = at, !.answer = answer],
           UNCHANGED <<form, confirmed, promised>>
    PROVE  DialogInv'
  BY DEF DialogInv, DialogPost

LEMMA NoPostType == Dialog!NoPost \in DialogPost
<1>1. [f \in Fields |-> 0] \in [Fields -> 0..1]
  OBVIOUS
<1> QED BY <1>1 DEF Dialog!NoPost, DialogPost

LEMMA DialogNext == DialogInv /\ [Dialog!Next]_(Dialog!vars) => DialogInv'
<1> SUFFICES ASSUME DialogInv, [Dialog!Next]_(Dialog!vars)
             PROVE  DialogInv'
  OBVIOUS
<1>1. ASSUME UNCHANGED <<form, confirmed, promised, post>>
      PROVE  DialogInv'
  BY <1>1 DEF DialogInv
<1>2. CASE \/ UNCHANGED Dialog!vars \/ Dialog!Proceeds \/ Dialog!NextOfChain \/ Dialog!Elsewhere
           \/ Dialog!ServerCancels \/ Dialog!Reads \/ Dialog!ReadFails \/ Dialog!Plans
           \/ Dialog!CancelItem \/ Dialog!Cancelled
  BY <1>1, <1>2 DEF Dialog!vars, Dialog!Proceeds, Dialog!NextOfChain, Dialog!Elsewhere,
     Dialog!ServerCancels, Dialog!Reads, Dialog!TimerFires, Dialog!Answers, Dialog!Shown,
     Dialog!ReadFails, Dialog!Plans, Dialog!CancelItem, Dialog!Cancelled
<1>3. CASE Dialog!ServerTakes
  <2>1. /\ post.at = "sent" /\ UNCHANGED <<form, confirmed, promised>>
        /\ \E answer \in {"running", "queued", "refused"} :
              post' = [post EXCEPT !.at = "answered", !.answer = answer]
    BY <1>3 DEF Dialog!ServerTakes
  <2> QED BY <2>1, PostMoves
<1>4. ASSUME NEW f \in Fields, Dialog!Edit(f)
      PROVE  DialogInv'
  <2>1. post.at = "none" /\ UNCHANGED <<promised, post>> /\ confirmed' = FALSE
    BY <1>4 DEF Dialog!Edit, Dialog!Editable, Dialog!Busy, Dialog!Watched
  <2>2. form' \in [Fields -> 0..1]
    BY <1>4 DEF Dialog!Edit, DialogInv
  <2> QED BY <2>1, <2>2 DEF DialogInv
<1>5. CASE Dialog!Confirm
  BY <1>5 DEF Dialog!Confirm, DialogInv
<1>6. CASE Dialog!Start
  <2>1. /\ confirmed /\ UNCHANGED <<form, confirmed, promised>>
        /\ post' = [Dialog!NoPost EXCEPT !.what = "start", !.at = "sent", !.body = form]
    BY <1>6 DEF Dialog!Start, Dialog!Blocked
  <2>2. post'.what = "start" /\ post'.body = form /\ post' \in DialogPost
    BY <2>1 DEF Dialog!NoPost, DialogPost, DialogInv
  <2> QED BY <2>1, <2>2 DEF DialogInv
<1>7. CASE Dialog!Stop
  <2>1. /\ UNCHANGED <<form, confirmed, promised>>
        /\ post' = [Dialog!NoPost EXCEPT !.what = "stop", !.at = "sent"]
    BY <1>7 DEF Dialog!Stop
  <2>2. post'.what = "stop" /\ post' \in DialogPost
    BY <2>1, NoPostType DEF DialogPost
  <2> QED BY <2>1, <2>2 DEF DialogInv
<1>8. CASE Dialog!Answered
  <2>1. /\ UNCHANGED <<form, promised>> /\ post' = Dialog!NoPost
        /\ confirmed' = confirmed \/ confirmed' = (confirmed /\ post.what = "stop")
    BY <1>8 DEF Dialog!Answered
  <2>2. post'.at = "none" /\ post' \in DialogPost
    BY <2>1, NoPostType DEF Dialog!NoPost
  <2>3. confirmed' \in BOOLEAN /\ (confirmed' => confirmed)
    <3>1. CASE confirmed' = confirmed
      BY <3>1 DEF DialogInv
    <3>2. CASE confirmed' = (confirmed /\ post.what = "stop")
      BY <3>2
    <3> QED BY <2>1, <3>1, <3>2
  <2> QED BY <2>1, <2>2, <2>3 DEF DialogInv
<1> QED BY <1>2, <1>3, <1>4, <1>5, <1>6, <1>7, <1>8 DEF Dialog!Next

\* RunPanel.tsx 69: what is sent is what the confirmation line said when it was ticked, with
\* any fields and any number of edits, requests, answers and failed reads.
THEOREM PromisedIsSentHolds == Dialog!Spec => []Dialog!PromisedIsSent
<1>1. Dialog!Init => DialogInv
  <2> SUFFICES ASSUME Dialog!Init
               PROVE  DialogInv
    OBVIOUS
  <2>1. form \in [Fields -> 0..1]
    BY DEF Dialog!Init
  <2>2. post = Dialog!NoPost /\ confirmed = FALSE
    BY DEF Dialog!Init
  <2> QED BY <2>1, <2>2, NoPostType DEF DialogInv, Dialog!NoPost
<1>2. DialogInv /\ [Dialog!Next]_(Dialog!vars) => DialogInv'
  BY DialogNext
<1>3. DialogInv => Dialog!PromisedIsSent
  BY DEF DialogInv, Dialog!PromisedIsSent
<1> QED BY <1>1, <1>2, <1>3, PTL DEF Dialog!Spec

-----------------------------------------------------------------------------
(* The operator's prefix *)

CONSTANTS Names, Prefixes, Reserved, Candidates, Base, MaxPulls
VARIABLES registry, local, sync, tmp, pulls

Ident == INSTANCE Identity

\* What identity.ts makes of a name are prefixes of it that are not reserved (61-104), and 0
\* stands for no prefix.
PrefixLimits ==
    /\ Prefixes \subseteq Nat \ {0}
    /\ Base \in Prefixes \cup {0}
    /\ Names \cap {"nobody", "colleague", "none"} = {}
    /\ Candidates \in [Names -> Seq(Prefixes \ Reserved)]
    /\ MaxPulls \in Nat

\* The text a claim is added to had no owner for its prefix, and the temporary file is of a
\* sync that has yet to move it.
ClaimsFit ==
    /\ \A n \in Names : sync[n].at \in {"claiming", "opening", "writing", "renaming", "local"} =>
          sync[n].prefix \in Prefixes \ Reserved
    /\ \A n \in Names : sync[n].at \in {"writing", "renaming"} =>
          sync[n].text[sync[n].prefix] = "nobody"
    /\ tmp # "none" => sync[tmp].at = "renaming"

IdentInv == Ident!TypeOK /\ pulls \in Nat /\ ClaimsFit

LEMMA SelectFits ==
    ASSUME PrefixLimits, IdentInv, NEW n \in Names
    PROVE  Ident!Select(n) \in (Prefixes \ Reserved) \cup {0}
<1> DEFINE mine == {p \in Prefixes \ Reserved : sync[n].seen[p] = n}
           free == {k \in DOMAIN Candidates[n] : sync[n].seen[Candidates[n][k]] \in {"nobody", n}}
<1>1. CASE mine # {}
  <2>1. \E p \in mine : \A q \in mine : p <= q
    <3>1. mine \subseteq Nat /\ mine # {}
      BY <1>1 DEF PrefixLimits
    <3> HIDE DEF mine
    <3> QED BY <3>1, LeastNat
  <2>2. Ident!Select(n) = CHOOSE p \in mine : \A q \in mine : p <= q
    BY <1>1 DEF Ident!Select
  <2>3. Ident!Select(n) \in mine
    <3> HIDE DEF mine
    <3> QED BY <2>1, <2>2
  <2> QED BY <2>3
<1>2. CASE mine = {} /\ Ident!ConfiguredIsFree(sync[n])
  <2>1. Ident!Select(n) = sync[n].effective
    BY <1>2 DEF Ident!Select
  <2>2. sync[n].effective \in Ident!Found
    BY DEF IdentInv, Ident!TypeOK, Ident!Sync
  <2> QED BY <1>2, <2>1, <2>2 DEF Ident!ConfiguredIsFree, Ident!Found
<1>3. CASE mine = {} /\ ~Ident!ConfiguredIsFree(sync[n])
  <2>1. Ident!Select(n) = IF free = {} THEN 0
           ELSE Candidates[n][CHOOSE k \in free : \A j \in free : k <= j]
    BY <1>3 DEF Ident!Select
  <2>2. ASSUME free # {}
        PROVE  (CHOOSE k \in free : \A j \in free : k <= j) \in free
    <3>1. free \subseteq Nat
      BY DEF PrefixLimits
    <3> HIDE DEF free
    <3>2. \E k \in free : \A j \in free : k <= j
      BY <2>2, <3>1, LeastNat
    <3> QED BY <3>2
  <2>3. \A k \in free : Candidates[n][k] \in Prefixes \ Reserved
    BY DEF PrefixLimits
  <2> HIDE DEF free
  <2> QED BY <2>1, <2>2, <2>3
<1> QED BY <1>1, <1>2, <1>3

\* A step of one sync that leaves the registry and the temporary file alone.
LEMMA SyncMoves ==
    ASSUME IdentInv, NEW n \in Names, NEW s \in Ident!Sync, sync' = [sync EXCEPT ![n] = s],
           UNCHANGED <<registry, tmp, pulls>>, local' \in Ident!Found, sync[n].at # "renaming",
           s.at \in {"claiming", "opening", "writing", "local"} => s.prefix \in Prefixes \ Reserved,
           s.at # "renaming", s.at = "writing" => s.text[s.prefix] = "nobody"
    PROVE  IdentInv'
<1>1. /\ sync' \in [Names -> Ident!Sync] /\ sync'[n] = s
      /\ \A m \in Names : m # n => sync'[m] = sync[m]
  BY DEF IdentInv, Ident!TypeOK
<1>2. Ident!TypeOK'
  BY <1>1 DEF IdentInv, Ident!TypeOK
<1>3. ClaimsFit'
  BY <1>1 DEF IdentInv, Ident!TypeOK, ClaimsFit
<1> QED BY <1>2, <1>3 DEF IdentInv

LEMMA SyncKeeps ==
    ASSUME PrefixLimits, IdentInv, NEW n \in Names,
           \/ Ident!Begin(n) \/ Ident!ReadRegistry(n) \/ Ident!Selects(n)
           \/ Ident!Claim(n) \/ Ident!OpenText(n) \/ Ident!WriteLocal(n)
    PROVE  IdentInv' /\ UNCHANGED <<registry, pulls>>
<1>1. /\ sync \in [Names -> Ident!Sync] /\ sync[n] \in Ident!Sync /\ local \in Ident!Found
      /\ registry \in [Prefixes -> Ident!Owner]
      /\ sync[n].at \in {"claiming", "opening", "writing", "local"} => sync[n].prefix \in Prefixes \ Reserved
  BY DEF IdentInv, Ident!TypeOK, ClaimsFit
<1>2. CASE Ident!Begin(n)
  <2> DEFINE s == [Ident!NoSync EXCEPT !.at = "reading", !.effective = Ident!Effective,
                     !.found = IF local # 0 THEN "local" ELSE IF Base # 0 THEN "base" ELSE "none"]
  <2>1. Ident!Effective \in Ident!Found /\ 0 \in Ident!Found
    BY <1>1 DEF Ident!Effective, Ident!Found, PrefixLimits
  <2>2. [p \in Prefixes |-> "nobody"] \in [Prefixes -> Ident!Owner]
    BY DEF Ident!Owner
  <2>3. Ident!NoSync \in Ident!Sync
    BY <2>1, <2>2 DEF Ident!NoSync, Ident!Sync
  <2>4. s \in Ident!Sync /\ s.at = "reading"
    BY <2>1, <2>3 DEF Ident!Sync
  <2>5. sync' = [sync EXCEPT ![n] = s] /\ UNCHANGED <<registry, local, tmp, pulls>>
    BY <1>2 DEF Ident!Begin
  <2> HIDE DEF s
  <2> QED BY <1>1, <1>2, <2>4, <2>5, SyncMoves DEF Ident!Begin
<1>3. CASE Ident!ReadRegistry(n)
  <2> DEFINE s == [sync[n] EXCEPT !.at = "selecting", !.seen = registry]
  <2>1. s \in Ident!Sync /\ s.at = "selecting"
    BY <1>1 DEF Ident!Sync
  <2>2. sync' = [sync EXCEPT ![n] = s] /\ UNCHANGED <<registry, local, tmp, pulls>>
    BY <1>1, <1>3 DEF Ident!ReadRegistry, Ident!Sync
  <2> HIDE DEF s
  <2> QED BY <1>1, <1>3, <2>1, <2>2, SyncMoves DEF Ident!ReadRegistry
<1>4. CASE Ident!Selects(n)
  <2> DEFINE at == IF Ident!Select(n) = 0 THEN "refused" ELSE "claiming"
             s  == [sync[n] EXCEPT !.prefix = Ident!Select(n), !.at = at]
  <2>1. Ident!Select(n) \in (Prefixes \ Reserved) \cup {0}
    BY SelectFits
  <2>2. s \in Ident!Sync /\ s.at = at /\ s.prefix = Ident!Select(n)
    BY <1>1, <2>1 DEF Ident!Sync, Ident!Found
  <2>3. sync' = [sync EXCEPT ![n] = s] /\ UNCHANGED <<registry, local, tmp, pulls>>
    BY <1>1, <1>4 DEF Ident!Selects, Ident!Sync
  <2>4. s.at \in {"refused", "claiming"} /\ (s.at = "claiming" => s.prefix \in Prefixes \ Reserved)
    BY <2>1, <2>2
  <2> HIDE DEF s
  <2> QED BY <1>1, <1>4, <2>2, <2>3, <2>4, SyncMoves DEF Ident!Selects
<1>5. CASE Ident!Claim(n)
  <2> DEFINE now == registry[sync[n].prefix]
             at  == IF now = "nobody" THEN "opening" ELSE IF now = n THEN "local" ELSE "refused"
             s   == [sync[n] EXCEPT !.at = at]
  <2>1. s \in Ident!Sync /\ s.at = at /\ s.prefix = sync[n].prefix
    BY <1>1 DEF Ident!Sync
  <2>2. sync' = [sync EXCEPT ![n] = s] /\ UNCHANGED <<registry, local, tmp, pulls>>
    BY <1>1, <1>5 DEF Ident!Claim, Ident!Sync
  <2>3. sync[n].prefix \in Prefixes \ Reserved
    BY <1>1, <1>5 DEF Ident!Claim
  <2>4. s.at \in {"opening", "local", "refused"}
    BY <2>1
  <2> HIDE DEF s
  <2> QED BY <1>1, <2>1, <2>2, <2>3, <2>4, <1>5, SyncMoves DEF Ident!Claim
<1>7. CASE Ident!OpenText(n)
  <2> DEFINE at == IF registry[sync[n].prefix] = "nobody" THEN "writing" ELSE "refused"
             s  == [sync[n] EXCEPT !.text = registry, !.at = at]
  <2>1. s \in Ident!Sync /\ s.at = at /\ s.text = registry /\ s.prefix = sync[n].prefix
    BY <1>1 DEF Ident!Sync
  <2>2. sync' = [sync EXCEPT ![n] = s] /\ UNCHANGED <<registry, local, tmp, pulls>>
    BY <1>1, <1>7 DEF Ident!OpenText, Ident!Sync
  <2>3. sync[n].prefix \in Prefixes \ Reserved
    BY <1>1, <1>7 DEF Ident!OpenText
  <2>4. s.at \in {"writing", "refused"} /\ (s.at = "writing" => s.text[s.prefix] = "nobody")
    BY <2>1
  <2>5. sync[n].at # "renaming" /\ local' \in Ident!Found /\ s.prefix \in Prefixes \ Reserved
    BY <1>1, <1>7, <2>1, <2>2, <2>3 DEF Ident!OpenText
  <2> HIDE DEF s, at
  <2> QED BY <2>1, <2>2, <2>4, <2>5, SyncMoves
<1>6. CASE Ident!WriteLocal(n)
  <2> DEFINE s == [sync[n] EXCEPT !.at = "done"]
  <2>1. s \in Ident!Sync /\ s.at = "done" /\ local' \in Ident!Found
    BY <1>1, <1>6 DEF Ident!WriteLocal, Ident!Sync
  <2>2. sync' = [sync EXCEPT ![n] = s] /\ UNCHANGED <<registry, tmp, pulls>>
    BY <1>6 DEF Ident!WriteLocal
  <2> HIDE DEF s
  <2> QED BY <1>6, <2>1, <2>2, SyncMoves DEF Ident!WriteLocal
<1> QED BY <1>2, <1>3, <1>4, <1>5, <1>6, <1>7 DEF Ident!Begin, Ident!ReadRegistry, Ident!Selects,
           Ident!Claim, Ident!OpenText, Ident!WriteLocal

\* The edited text is written beside the registry, which stays.
LEMMA WriteKeeps ==
    ASSUME IdentInv, NEW n \in Names, Ident!WriteClaim(n)
    PROVE  IdentInv' /\ UNCHANGED <<registry, pulls>>
<1>1. /\ sync[n].at = "writing" /\ sync[n] \in Ident!Sync /\ sync \in [Names -> Ident!Sync]
      /\ tmp' = n /\ sync' = [sync EXCEPT ![n].at = "renaming"] /\ UNCHANGED <<registry, local, pulls>>
  BY DEF IdentInv, Ident!TypeOK, Ident!WriteClaim
<1>2. /\ sync' \in [Names -> Ident!Sync]
      /\ \A m \in Names : m # n => sync'[m] = sync[m]
      /\ sync'[n].at = "renaming" /\ sync'[n].prefix = sync[n].prefix /\ sync'[n].text = sync[n].text
  BY <1>1 DEF Ident!Sync
<1>3. Ident!TypeOK'
  BY <1>1, <1>2 DEF IdentInv, Ident!TypeOK
<1>4. ClaimsFit'
  BY <1>1, <1>2 DEF IdentInv, ClaimsFit
<1> QED BY <1>1, <1>3, <1>4 DEF IdentInv

\* A claim is added where nobody had one in the text it was added to.
LEMMA RenameKeeps ==
    ASSUME PrefixLimits, IdentInv, NEW n \in Names, Ident!Rename(n)
    PROVE  /\ IdentInv'
           /\ \A p \in Prefixes : registry[p] # "nobody" /\ registry'[p] # registry[p] =>
                 tmp # "none" /\ sync[tmp].text[p] # registry[p]
<1>1. /\ sync[n].at = "renaming" /\ sync[n] \in Ident!Sync /\ sync \in [Names -> Ident!Sync]
      /\ sync[n].prefix \in Prefixes \ Reserved
      /\ tmp' = "none" /\ UNCHANGED <<local, pulls>>
      /\ registry \in [Prefixes -> Ident!Owner]
  BY DEF IdentInv, Ident!TypeOK, ClaimsFit, Ident!Rename
<1>2. PICK at \in {"refused", "local"} : sync' = [sync EXCEPT ![n].at = at]
  BY DEF Ident!Rename
<1>3. /\ sync' \in [Names -> Ident!Sync]
      /\ \A m \in Names : m # n => sync'[m] = sync[m]
      /\ sync'[n].at \in {"refused", "local"} /\ sync'[n].prefix = sync[n].prefix
  BY <1>1, <1>2 DEF Ident!Sync
<1>4. ClaimsFit'
  BY <1>1, <1>3 DEF IdentInv, ClaimsFit
<1>5. CASE tmp = "none"
  <2>1. registry' = registry
    BY <1>5 DEF Ident!Rename
  <2>2. Ident!TypeOK'
    BY <1>1, <1>3, <2>1 DEF IdentInv, Ident!TypeOK
  <2> QED BY <1>1, <1>4, <2>1, <2>2 DEF IdentInv
<1>6. CASE tmp # "none"
  <2>1. /\ tmp \in Names /\ sync[tmp] \in Ident!Sync /\ sync[tmp].at = "renaming"
        /\ sync[tmp].prefix \in Prefixes /\ sync[tmp].text[sync[tmp].prefix] = "nobody"
    BY <1>6 DEF IdentInv, Ident!TypeOK, ClaimsFit
  <2>2. sync[tmp].text \in [Prefixes -> Ident!Owner] /\ tmp \in Ident!Owner
    BY <2>1 DEF Ident!Sync, Ident!Owner
  <2>3. registry' = [sync[tmp].text EXCEPT ![sync[tmp].prefix] = tmp]
    BY <1>6 DEF Ident!Rename, Ident!Claimed
  <2>4. registry' \in [Prefixes -> Ident!Owner]
    BY <2>2, <2>3
  <2>5. Ident!TypeOK'
    BY <1>1, <1>3, <2>4 DEF IdentInv, Ident!TypeOK
  <2>6. ASSUME NEW p \in Prefixes, registry[p] # "nobody", registry'[p] # registry[p]
        PROVE  sync[tmp].text[p] # registry[p]
    <3>1. CASE p = sync[tmp].prefix
      BY <2>1, <2>6, <3>1
    <3>2. CASE p # sync[tmp].prefix
      <4>1. registry'[p] = sync[tmp].text[p]
        BY <2>2, <2>3, <3>2
      <4> QED BY <2>6, <4>1
    <3> QED BY <3>1, <3>2
  <2> QED BY <1>1, <1>4, <1>6, <2>5, <2>6 DEF IdentInv
<1> QED BY <1>5, <1>6

LEMMA IdentNext ==
    ASSUME PrefixLimits, IdentInv, [Ident!Next]_(Ident!vars)
    PROVE  /\ IdentInv'
           /\ pulls' = pulls =>
                 \A p \in Prefixes : registry[p] # "nobody" /\ registry'[p] # registry[p] =>
                    tmp # "none" /\ sync[tmp].text[p] # registry[p]
<1>1. CASE UNCHANGED Ident!vars
  BY <1>1 DEF Ident!vars, IdentInv, Ident!TypeOK, ClaimsFit
<1>2. CASE \E n \in Names : Ident!WriteClaim(n)
  BY <1>2, WriteKeeps
<1>3. CASE \E n \in Names : Ident!Rename(n)
  BY <1>3, RenameKeeps
<1>4. CASE \E n \in Names :
              \/ Ident!Begin(n) \/ Ident!ReadRegistry(n) \/ Ident!Selects(n)
              \/ Ident!Claim(n) \/ Ident!OpenText(n) \/ Ident!WriteLocal(n)
  BY <1>4, SyncKeeps
<1>5. CASE Ident!Pull
  <2>1. /\ pulls \in Nat /\ pulls' = pulls + 1 /\ UNCHANGED <<local, sync, tmp>>
        /\ registry' \in [Prefixes -> Ident!Owner]
    BY <1>5 DEF Ident!Pull, IdentInv, Ident!TypeOK, Ident!Owner
  <2>2. IdentInv'
    BY <2>1 DEF IdentInv, Ident!TypeOK, ClaimsFit
  <2> QED BY <2>1, <2>2
<1> QED BY <1>1, <1>2, <1>3, <1>4, <1>5 DEF Ident!Next

\* identity.ts 132-180, 212: with any operators at once and pulls at any moment, a sync never
\* selects a reserved prefix and never takes or drops one that the shared registry gives to
\* somebody, except what came in after the text of the claim being written was read.
THEOREM OwnersStandHolds ==
    ASSUME PrefixLimits PROVE Ident!Spec => Ident!OwnersStand
<1>1. Ident!Init => IdentInv
  <2> SUFFICES ASSUME Ident!Init
               PROVE  IdentInv
    OBVIOUS
  <2>1. [p \in Prefixes |-> "nobody"] \in [Prefixes -> Ident!Owner] /\ 0 \in Ident!Found
    BY DEF Ident!Owner, Ident!Found
  <2>2. Ident!NoSync \in Ident!Sync /\ Ident!NoSync.at = "idle"
    BY <2>1 DEF Ident!NoSync, Ident!Sync
  <2>3. Ident!TypeOK /\ pulls \in Nat
    BY <2>1, <2>2 DEF Ident!Init, Ident!TypeOK
  <2>4. ClaimsFit
    BY <2>2 DEF Ident!Init, ClaimsFit
  <2> QED BY <2>3, <2>4 DEF IdentInv
<1>2. IdentInv /\ [Ident!Next]_(Ident!vars) => IdentInv'
  BY IdentNext
<1>3. IdentInv /\ [Ident!Next]_(Ident!vars) => [Ident!OwnerStands]_(Ident!vars)
  BY IdentNext DEF Ident!OwnerStands, IdentInv, ClaimsFit
<1> QED BY <1>1, <1>2, <1>3, PTL DEF Ident!Spec, Ident!OwnersStand

-----------------------------------------------------------------------------
(* Worktrees *)

CONSTANTS Repos, ReadOnly, Replacing, MaxOutside
VARIABLES branches, base, pushed, linked, main, closed, flow, removal, outside, steps

Trees == INSTANCE Worktrees

TreeLimits == "none" \notin Repos /\ MaxRestarts \in Nat

\* git has one worktree at a path, and what the dashboard makes is at its own path.
OnePerPath ==
    \A r \in Repos : \A v, w \in linked[r] :
        /\ v.path = w.path => v = w
        /\ w.maker = "dashboard" => w.path = "ours"

OwnAt(r) == \A w \in linked[r] : w.path = "ours" => w.maker = "dashboard"

\* Where the dashboard made a worktree, nobody else has one: on record or about to be.
MadeIsOurs ==
    \A r \in Repos :
        /\ registry[r].origin = "created" => registry[r].path = "ours" /\ OwnAt(r)
        /\ Trees!Unrecorded(r) => OwnAt(r)

FlowFits ==
    \A k \in {"run", "open"} :
        /\ flow[k].at # "making" => flow[k].made = {}
        /\ \A m, n \in flow[k].made : m = n

\* Where the dashboard is about to remove a worktree, nobody else has one.
RemovalFits ==
    removal # Trees!NoRemoval => removal.path = "ours" /\ OwnAt(removal.repo)

\* With nothing changed and nothing begun since a removal began, what it saw still holds.
SinceFits ==
    /\ outside \in Nat /\ steps \in Nat
    /\ removal # Trees!NoRemoval =>
          /\ removal.since <= outside + steps
          /\ removal.since = outside + steps =>
                /\ closed /\ ~Trees!Running
                /\ removal.checked => Trees!Safe(removal.repo, removal.branch)

TreesInv ==
    /\ Trees!TypeOK /\ restarts \in Nat
    /\ OnePerPath /\ MadeIsOurs /\ FlowFits /\ RemovalFits /\ Trees!MadeIsOnRecord

LEMMA PlanParts ==
    ASSUME TreesInv, NEW r \in Repos, NEW adopt \in BOOLEAN,
           NEW plan, plan = Trees!Plan(r, adopt), plan.action # "refuse"
    PROVE  /\ plan.action \in {"reuse", "adopt", "add", "create"}
           /\ plan.path \in Trees!Paths /\ plan.branch \in Trees!Branches
           /\ plan.action \in {"add", "create"} => plan.path = "ours" /\ Trees!At(r, "ours") = {}
           /\ plan.action = "adopt" => plan.path = "ours" \/ Trees!At(r, "ours") = {}
<1> DEFINE own == Trees!At(r, "ours")
           theirs == {w \in linked[r] : w.branch \in Trees!Branches}
           Say(action, path, branch) == [action |-> action, path |-> path, branch |-> branch]
           Refuse == Say("refuse", "none", "other")
           Take(w) == Say(IF adopt THEN "adopt" ELSE "refuse", w.path, w.branch)
           Reuse == /\ registry[r] # Trees!NoRecord /\ Trees!At(r, registry[r].path) # {}
                    /\ Trees!Found(r).branch = registry[r].branch
<1>1. registry[r] \in Trees!Record /\ linked[r] \subseteq Trees!Worktree
  BY DEF TreesInv, Trees!TypeOK
<1>2. r \notin ReadOnly
  BY DEF Trees!Plan
<1>3. CASE Reuse
  <2>1. plan = Say("reuse", registry[r].path, registry[r].branch)
    BY <1>2, <1>3 DEF Trees!Plan
  <2>2. registry[r].path \in Trees!Paths /\ registry[r].branch \in Trees!Branches
    BY <1>1, <1>3 DEF Trees!Record
  <2> QED BY <2>1, <2>2
<1>4. CASE ~Reuse
  <2>1. plan = IF own # {}
               THEN LET w == CHOOSE w \in own : TRUE
                    IN  IF w.branch \in Trees!Branches THEN Take(w) ELSE Refuse
               ELSE IF main[r] \in Trees!Branches THEN Refuse
               ELSE IF theirs # {} THEN Take(CHOOSE w \in theirs : TRUE)
               ELSE IF branches[r] = {} THEN Say("create", "ours", "task")
               ELSE Say("add", "ours", IF "task" \in branches[r] THEN "task" ELSE "slug")
    BY <1>2, <1>4 DEF Trees!Plan
  <2>2. CASE own # {}
    <3>1. PICK w \in own : plan = IF w.branch \in Trees!Branches THEN Take(w) ELSE Refuse
      BY <2>1, <2>2
    <3>2. w.path = "ours"
      BY DEF Trees!At
    <3> QED BY <3>1, <3>2 DEF Trees!Paths
  <2>3. CASE own = {} /\ theirs # {}
    <3> DEFINE chosen == CHOOSE w \in theirs : TRUE
    <3>a. chosen \in theirs
      BY <2>3
    <3>b. main[r] \notin Trees!Branches /\ plan = Take(chosen)
      BY <2>1, <2>3
    <3> HIDE DEF chosen
    <3>1. PICK w \in theirs : plan = Take(w)
      BY <3>a, <3>b
    <3>2. w.path \in Trees!Paths
      BY <1>1 DEF Trees!Worktree
    <3> QED BY <2>3, <3>1, <3>2
  <2>4. CASE own = {} /\ theirs = {}
    BY <2>1, <2>4 DEF Trees!Paths, Trees!Branches
  <2> QED BY <2>2, <2>3, <2>4
<1> QED BY <1>3, <1>4

\* A step that leaves worktrees and records alone.
LEMMA FlowKeeps ==
    ASSUME TreesInv, UNCHANGED <<linked, registry>>, Trees!TypeOK', FlowFits', RemovalFits',
           restarts' \in Nat,
           \A r \in Repos : Trees!Unrecorded(r)' => Trees!Unrecorded(r),
           restarts' = 0 => restarts = 0 /\ \A r \in Repos : Trees!Unrecorded(r) => Trees!Unrecorded(r)'
    PROVE  TreesInv'
<1>1. OnePerPath' /\ MadeIsOurs'
  BY DEF TreesInv, OnePerPath, MadeIsOurs, OwnAt
<1>2. Trees!MadeIsOnRecord'
  BY DEF TreesInv, Trees!MadeIsOnRecord
<1> QED BY <1>1, <1>2 DEF TreesInv

\* A worktree that stands where one of the same maker did, or somebody's where the dashboard
\* has none.
Stands(r, v) ==
    \/ \E w \in linked[r] : v.path = w.path /\ v.maker = w.maker
    \/ /\ v.maker = "somebody" /\ v.path # registry[r].path /\ ~Trees!Unrecorded(r)
       /\ removal.repo = r => v.path # removal.path

\* A step that changes the worktrees of one repository: none is taken for another's.
LEMMA LinkedKeeps ==
    ASSUME TreesInv, NEW r \in Repos, NEW S \in SUBSET Trees!Worktree,
           linked' = [linked EXCEPT ![r] = S],
           UNCHANGED <<registry, flow, removal, restarts>>, Trees!TypeOK',
           \A v, w \in S : v.path = w.path => v = w,
           \A v \in S : Stands(r, v)
    PROVE  TreesInv'
<1>1. linked'[r] = S /\ \A q \in Repos : q # r => linked'[q] = linked[q]
  <2>1. linked \in [Repos -> SUBSET Trees!Worktree]
    BY DEF TreesInv, Trees!TypeOK
  <2> QED BY ONLY <2>1, r \in Repos, linked' = [linked EXCEPT ![r] = S]
<1>2. OnePerPath'
  BY <1>1 DEF TreesInv, OnePerPath, Stands
<1>3. \A q \in Repos : Trees!Unrecorded(q)' <=> Trees!Unrecorded(q)
  BY DEF Trees!Unrecorded
<1>4. MadeIsOurs'
  BY <1>1, <1>3 DEF TreesInv, MadeIsOurs, OwnAt, Stands
<1>5. FlowFits'
  BY DEF TreesInv, FlowFits
<1>6. Trees!MadeIsOnRecord'
  <2> SUFFICES ASSUME NEW q \in Repos, NEW v \in linked'[q], v.maker = "dashboard", restarts = 0
               PROVE  registry[q].path = v.path \/ Trees!Unrecorded(q)
    BY <1>3 DEF Trees!MadeIsOnRecord
  <2>1. PICK w \in linked[q] : v.path = w.path /\ v.maker = w.maker
    BY <1>1 DEF Stands, TreesInv, Trees!MadeIsOnRecord
  <2> QED BY <2>1 DEF TreesInv, Trees!MadeIsOnRecord
<1>7. RemovalFits'
  <2> SUFFICES ASSUME removal # Trees!NoRemoval, NEW v \in linked'[removal.repo], v.path = "ours"
               PROVE  v.maker = "dashboard" /\ removal.path = "ours"
    BY DEF RemovalFits, OwnAt, TreesInv
  <2>1. removal.path = "ours" /\ OwnAt(removal.repo) /\ removal.repo \in Repos
    BY DEF TreesInv, RemovalFits, Trees!TypeOK, Trees!Removal
  <2>2. CASE removal.repo # r
    BY <1>1, <2>1, <2>2 DEF OwnAt
  <2>3. CASE removal.repo = r
    <3>1. PICK w \in linked[r] : v.path = w.path /\ v.maker = w.maker
      BY <1>1, <2>1, <2>3 DEF Stands
    <3> QED BY <2>1, <2>3, <3>1 DEF OwnAt
  <2> QED BY <2>2, <2>3
<1> QED BY <1>2, <1>4, <1>5, <1>6, <1>7 DEF TreesInv

\* What a step leaves of one flow.
LEMMA FlowPut ==
    ASSUME TreesInv, NEW k \in {"run", "open"}, NEW f \in Trees!Flow,
           flow' = [flow EXCEPT ![k] = f],
           f.at # "making" => f.made = {}, \A m, n \in f.made : m = n
    PROVE  flow' \in [{"run", "open"} -> Trees!Flow] /\ FlowFits'
<1>1. flow \in [{"run", "open"} -> Trees!Flow]
  BY DEF TreesInv, Trees!TypeOK
<1>2. flow'[k] = f /\ \A j \in {"run", "open"} : j # k => flow'[j] = flow[j]
  BY <1>1
<1> QED BY <1>1, <1>2 DEF TreesInv, FlowFits

LEMMA PlainFlow ==
    ASSUME TreesInv, NEW k \in {"run", "open"}, NEW f \in Trees!Flow, f.made = {},
           flow' = [flow EXCEPT ![k] = f], flow[k].made = {},
           UNCHANGED <<branches, base, linked, registry, Trees!Same>>
    PROVE  TreesInv'
<1>1. flow' \in [{"run", "open"} -> Trees!Flow] /\ FlowFits'
  BY FlowPut
<1>2. flow \in [{"run", "open"} -> Trees!Flow]
  BY DEF TreesInv, Trees!TypeOK
<1>3. \A j \in {"run", "open"} : flow'[j].made = flow[j].made
  BY <1>2
<1>4. \A r \in Repos : Trees!Unrecorded(r)' <=> Trees!Unrecorded(r)
  BY <1>1, <1>2, <1>3 DEF Trees!Unrecorded
<1>5. Trees!TypeOK' /\ RemovalFits' /\ restarts' = restarts /\ restarts \in Nat
  BY <1>1 DEF TreesInv, Trees!TypeOK, Trees!Same, RemovalFits, OwnAt
<1> QED BY <1>1, <1>4, <1>5, FlowKeeps DEF Trees!Same

LEMMA NoFlowType == Trees!NoFlow \in Trees!Flow /\ Trees!NoFlow.made = {}
BY DEF Trees!NoFlow, Trees!Flow

LEMMA FlowSteps ==
    ASSUME TreesInv, NEW k \in {"run", "open"},
           \/ Trees!PlanAll(k) \/ Trees!GoesToWork(k) \/ Trees!Ends(k)
           \/ \E targets \in (SUBSET Repos) \ {{}}, adopt \in BOOLEAN : Trees!Begin(k, targets, adopt)
    PROVE  TreesInv'
<1>1. flow[k] \in Trees!Flow
  BY DEF TreesInv, Trees!TypeOK
<1>2. CASE Trees!PlanAll(k)
  <2>1. flow[k].made = {}
    BY <1>2 DEF TreesInv, FlowFits, Trees!PlanAll
  <2>2. [flow[k] EXCEPT !.at = "making"] \in Trees!Flow /\ [flow[k] EXCEPT !.at = "making"].made = {}
    BY <1>1, <2>1 DEF Trees!Flow
  <2>3. PICK f \in Trees!Flow : f.made = {} /\ flow' = [flow EXCEPT ![k] = f]
    BY <1>2, <2>2, NoFlowType DEF Trees!PlanAll
  <2> QED BY <1>2, <2>1, <2>3, PlainFlow DEF Trees!PlanAll
<1>3. CASE Trees!GoesToWork(k)
  <2>1. flow[k].made = {}
    BY <1>3 DEF Trees!GoesToWork
  <2>2. [flow[k] EXCEPT !.at = "working"] \in Trees!Flow /\ [flow[k] EXCEPT !.at = "working"].made = {}
    BY <1>1, <2>1 DEF Trees!Flow
  <2>3. PICK f \in Trees!Flow : f.made = {} /\ flow' = [flow EXCEPT ![k] = f]
    BY <1>3, <2>2, NoFlowType DEF Trees!GoesToWork
  <2> QED BY <1>3, <2>1, <2>3, PlainFlow DEF Trees!GoesToWork
<1>4. CASE Trees!Ends(k)
  BY <1>4, NoFlowType, PlainFlow DEF Trees!Ends
<1>5. ASSUME NEW targets \in (SUBSET Repos) \ {{}}, NEW adopt \in BOOLEAN,
             Trees!Begin(k, targets, adopt)
      PROVE  TreesInv'
  <2> DEFINE f == [Trees!NoFlow EXCEPT !.at = "planned", !.adopt = adopt,
                                       !.targets = targets, !.left = targets]
  <2>1. f \in Trees!Flow /\ f.made = {}
    BY DEF Trees!NoFlow, Trees!Flow
  <2>2. flow[k].made = {}
    BY <1>5, NoFlowType DEF Trees!Begin
  <2>3. flow' = [flow EXCEPT ![k] = f] /\ UNCHANGED <<branches, base, linked, registry, Trees!Same>>
    BY <1>5 DEF Trees!Begin
  <2> HIDE DEF f
  <2> QED BY <2>1, <2>2, <2>3, PlainFlow
<1> QED BY <1>2, <1>3, <1>4, <1>5

LEMMA RecordKeeps ==
    ASSUME TreesInv, NEW k \in {"run", "open"}, Trees!RecordOne(k)
    PROVE  TreesInv'
<1>1. PICK m \in flow[k].made :
         registry' = [registry EXCEPT ![m.repo] =
            [path |-> "ours", branch |-> m.branch, origin |-> "created", made |-> m.fresh]]
  BY DEF Trees!RecordOne
<1>2. flow[k] \in Trees!Flow /\ flow \in [{"run", "open"} -> Trees!Flow]
  BY DEF TreesInv, Trees!TypeOK
<1>3. m.repo \in Repos /\ m.branch \in Trees!Branches /\ m.fresh \in BOOLEAN
  BY <1>2 DEF Trees!Flow
<1> DEFINE f == [flow[k] EXCEPT !.made = {}]
           record == [path |-> "ours", branch |-> m.branch, origin |-> "created", made |-> m.fresh]
<1>4. f \in Trees!Flow /\ f.made = {}
  BY <1>2 DEF Trees!Flow
<1>5. flow' = [flow EXCEPT ![k] = f]
  BY DEF Trees!RecordOne
<1>6. record \in Trees!Record /\ record.path = "ours"
  BY <1>3 DEF Trees!Record, Trees!Paths
<1> HIDE DEF f, record
<1>7. flow' \in [{"run", "open"} -> Trees!Flow] /\ FlowFits'
  BY <1>4, <1>5, FlowPut
<1>8. registry \in [Repos -> Trees!Record] /\ registry' = [registry EXCEPT ![m.repo] = record]
  BY <1>1 DEF TreesInv, Trees!TypeOK, record
<1>9. /\ registry'[m.repo] = record /\ registry' \in [Repos -> Trees!Record]
      /\ \A q \in Repos : q # m.repo => registry'[q] = registry[q]
  BY <1>3, <1>6, <1>8
<1>10. /\ flow'[k].made = {} /\ \A j \in {"run", "open"} : j # k => flow'[j] = flow[j]
       /\ \A n \in flow[k].made : n = m
  BY <1>2, <1>4, <1>5 DEF TreesInv, FlowFits
<1>11. \A q \in Repos : /\ Trees!Unrecorded(q)' => Trees!Unrecorded(q)
                        /\ Trees!Unrecorded(q) /\ q # m.repo => Trees!Unrecorded(q)'
  BY <1>2, <1>7, <1>10 DEF Trees!Unrecorded
<1>12. Trees!Unrecorded(m.repo)
  BY <1>2 DEF Trees!Unrecorded
<1>13. UNCHANGED <<branches, base, linked, steps, Trees!Same>>
  BY DEF Trees!RecordOne
<1>14. Trees!TypeOK' /\ RemovalFits' /\ restarts' \in Nat /\ OnePerPath'
  BY <1>7, <1>9, <1>13 DEF TreesInv, Trees!TypeOK, Trees!Same, RemovalFits, OwnAt, OnePerPath
<1>15. OwnAt(m.repo)
  BY <1>3, <1>12 DEF TreesInv, MadeIsOurs
<1>16. MadeIsOurs'
  BY <1>6, <1>9, <1>11, <1>13, <1>15 DEF TreesInv, MadeIsOurs, OwnAt
<1>17. Trees!MadeIsOnRecord'
  <2> SUFFICES ASSUME NEW q \in Repos, NEW v \in linked[q], v.maker = "dashboard", restarts = 0
               PROVE  registry'[q].path = v.path \/ Trees!Unrecorded(q)'
    BY <1>13, <1>14 DEF Trees!MadeIsOnRecord, Trees!Same
  <2>1. v.path = "ours"
    BY DEF TreesInv, OnePerPath
  <2>2. CASE q = m.repo
    BY <2>1, <2>2, <1>6, <1>9
  <2>3. CASE q # m.repo
    BY <2>3, <1>9, <1>11 DEF TreesInv, Trees!MadeIsOnRecord
  <2> QED BY <2>2, <2>3
<1> QED BY <1>7, <1>14, <1>16, <1>17 DEF TreesInv

LEMMA ForgetKeeps ==
    ASSUME TreesInv, NEW r \in Repos, Trees!Forget(r)
    PROVE  TreesInv'
<1>1. Trees!NoRecord \in Trees!Record /\ Trees!NoRecord.origin # "created"
  BY DEF Trees!NoRecord, Trees!Record
<1>2. registry \in [Repos -> Trees!Record] /\ registry' = [registry EXCEPT ![r] = Trees!NoRecord]
  BY DEF TreesInv, Trees!TypeOK, Trees!Forget
<1>3. /\ registry'[r] = Trees!NoRecord /\ registry' \in [Repos -> Trees!Record]
      /\ \A q \in Repos : q # r => registry'[q] = registry[q]
  BY <1>1, <1>2
<1>4. UNCHANGED <<branches, base, linked, flow, steps, Trees!Same>>
  BY DEF Trees!Forget
<1>5. \A q \in Repos : Trees!Unrecorded(q)' <=> Trees!Unrecorded(q)
  BY <1>4 DEF Trees!Unrecorded
<1>6. Trees!TypeOK' /\ RemovalFits' /\ restarts' \in Nat /\ OnePerPath' /\ FlowFits'
  BY <1>3, <1>4 DEF TreesInv, Trees!TypeOK, Trees!Same, RemovalFits, OwnAt, OnePerPath, FlowFits
<1>7. MadeIsOurs'
  BY <1>1, <1>3, <1>4, <1>5 DEF TreesInv, MadeIsOurs, OwnAt
<1>8. \A w \in linked[r] : w.maker # "dashboard"
  <2>1. \A w \in linked[r] : w.path # "ours"
    BY DEF Trees!Forget, Trees!At, TreesInv, MadeIsOurs
  <2> QED BY <2>1 DEF TreesInv, OnePerPath
<1>9. Trees!MadeIsOnRecord'
  BY <1>3, <1>4, <1>5, <1>6, <1>8 DEF TreesInv, Trees!MadeIsOnRecord, Trees!Same
<1> QED BY <1>6, <1>7, <1>9 DEF TreesInv

LEMMA RestartKeepsTrees ==
    ASSUME TreesInv, Trees!Restart, TreeLimits
    PROVE  TreesInv'
<1>1. flow \in [{"run", "open"} -> Trees!Flow]
  BY DEF TreesInv, Trees!TypeOK
<1>2. \A k \in {"run", "open"} : flow'[k] \in Trees!Flow /\ flow'[k].made = {}
  <2> TAKE k \in {"run", "open"}
  <2>1. flow'[k] = IF flow[k].at = "working" THEN flow[k] ELSE Trees!NoFlow
    BY DEF Trees!Restart
  <2>2. flow[k].at = "working" => flow[k].made = {}
    BY DEF TreesInv, FlowFits
  <2> QED BY <1>1, <2>1, <2>2, NoFlowType
<1>3. flow' \in [{"run", "open"} -> Trees!Flow]
  <2>1. flow' = [k \in {"run", "open"} |-> flow'[k]]
    BY DEF Trees!Restart
  <2> QED BY <1>2, <2>1
<1>4. FlowFits' /\ \A r \in Repos : ~Trees!Unrecorded(r)'
  BY <1>2, <1>3 DEF FlowFits, Trees!Unrecorded
<1>5. Trees!TypeOK' /\ RemovalFits' /\ restarts' \in Nat /\ restarts' # 0
  BY <1>3 DEF TreesInv, Trees!TypeOK, Trees!Restart, RemovalFits
<1>6. UNCHANGED <<linked, registry>>
  BY DEF Trees!Restart
<1> QED BY <1>4, <1>5, <1>6, FlowKeeps

LEMMA BeginRemovalKeeps ==
    ASSUME TreeLimits, TreesInv, SinceFits, NEW r \in Repos,
           Trees!CheckRemoval(r) \/ \E d \in BOOLEAN : Trees!BeginRemoval(r, d)
    PROVE  TreesInv'
<1>1. UNCHANGED <<branches, base, pushed, linked, main, registry, closed, flow, outside, steps, restarts>>
  BY DEF Trees!BeginRemoval, Trees!CheckRemoval
<1>2. removal' \in {Trees!NoRemoval} \cup Trees!Removal /\ RemovalFits'
  <2>1. CASE Trees!CheckRemoval(r)
    <3>1. removal \in {Trees!NoRemoval} \cup Trees!Removal
      BY DEF TreesInv, Trees!TypeOK
    <3>2. CASE removal' = Trees!NoRemoval
      BY <3>2 DEF RemovalFits
    <3>3. CASE removal' # Trees!NoRemoval
      <4>1. removal' = [removal EXCEPT !.checked = TRUE]
        BY <2>1, <3>3 DEF Trees!CheckRemoval
      <4>2. removal # Trees!NoRemoval
        BY <2>1, <3>3, <4>1 DEF Trees!CheckRemoval, TreeLimits, Trees!NoRemoval
      <4>3. removal \in Trees!Removal
        BY <3>1, <4>2
      <4>4. /\ removal' \in Trees!Removal
            /\ removal'.repo = removal.repo /\ removal'.path = removal.path
        BY <4>1, <4>3 DEF Trees!Removal
      <4> QED BY <1>1, <4>2, <4>4 DEF TreesInv, RemovalFits, OwnAt
    <3> QED BY <3>2, <3>3
  <2>2. ASSUME NEW d \in BOOLEAN, Trees!BeginRemoval(r, d)
        PROVE  removal' \in {Trees!NoRemoval} \cup Trees!Removal /\ RemovalFits'
    <3>1. /\ removal' = [repo |-> r, path |-> registry[r].path, branch |-> registry[r].branch,
                         delete |-> d, checked |-> FALSE, since |-> outside + steps]
          /\ registry[r].origin = "created" /\ registry[r] \in Trees!Record
      BY <2>2 DEF Trees!BeginRemoval, TreesInv, Trees!TypeOK
    <3>2. registry[r].path = "ours" /\ OwnAt(r) /\ registry[r].branch \in Trees!Branches
      BY <3>1 DEF TreesInv, MadeIsOurs, Trees!Record, Trees!NoRecord
    <3>3. outside + steps \in Nat
      BY DEF SinceFits
    <3>4. removal' \in Trees!Removal /\ removal'.repo = r /\ removal'.path = "ours"
      BY <3>1, <3>2, <3>3 DEF Trees!Removal, Trees!Paths
    <3> QED BY <1>1, <3>2, <3>4 DEF RemovalFits, OwnAt
  <2> QED BY <2>1, <2>2
<1>3. Trees!TypeOK' /\ FlowFits' /\ restarts' \in Nat
  BY <1>1, <1>2 DEF TreesInv, Trees!TypeOK, FlowFits
<1>4. \A q \in Repos : Trees!Unrecorded(q)' <=> Trees!Unrecorded(q)
  BY <1>1 DEF Trees!Unrecorded
<1> QED BY <1>1, <1>2, <1>3, <1>4, FlowKeeps

LEMMA MakeKeeps ==
    ASSUME TreesInv, NEW k \in {"run", "open"}, NEW r \in Repos, Trees!MakeOne(k, r)
    PROVE  TreesInv'
<1>1. flow[k] \in Trees!Flow /\ flow \in [{"run", "open"} -> Trees!Flow]
  BY DEF TreesInv, Trees!TypeOK
<1>2. flow[k].at = "making" /\ flow[k].made = {} /\ flow[k].adopt \in BOOLEAN
  BY <1>1 DEF Trees!MakeOne, Trees!Flow
<1>3. PICK plan : /\ plan = Trees!Plan(r, flow[k].adopt) /\ plan.action # "refuse"
                  /\ Trees!MakeFor(r, plan)
                  /\ flow' = [flow EXCEPT ![k].left = @ \ {r},
                                          ![k].made = IF plan.action \notin {"add", "create"} THEN {}
                                              ELSE {[repo |-> r, branch |-> plan.branch,
                                                     fresh |-> plan.action = "create"]}]
  BY DEF Trees!MakeOne
<1>4. /\ plan.action \in {"reuse", "adopt", "add", "create"}
      /\ plan.path \in Trees!Paths /\ plan.branch \in Trees!Branches
      /\ plan.action \in {"add", "create"} => plan.path = "ours" /\ Trees!At(r, "ours") = {}
      /\ plan.action = "adopt" => plan.path = "ours" \/ Trees!At(r, "ours") = {}
  BY <1>2, <1>3, PlanParts
<1> DEFINE made == IF plan.action \notin {"add", "create"} THEN {}
                   ELSE {[repo |-> r, branch |-> plan.branch, fresh |-> plan.action = "create"]}
           f == [flow[k] EXCEPT !.left = @ \ {r}, !.made = made]
<1>5. made \in SUBSET [repo : Repos, branch : Trees!Branches, fresh : BOOLEAN]
  BY <1>4
<1>6. flow' = [flow EXCEPT ![k] = f]
  BY <1>1, <1>3
<1>7. f \in Trees!Flow /\ f.made = made /\ f.at = "making"
  <2> HIDE DEF made
  <2> QED BY <1>1, <1>2, <1>5 DEF Trees!Flow
<1>8. \A m, n \in f.made : m = n
  BY <1>7
<1> HIDE DEF f
<1>9. flow' \in [{"run", "open"} -> Trees!Flow] /\ FlowFits'
  BY <1>6, <1>7, <1>8, FlowPut
<1>10. flow'[k].made = made /\ \A j \in {"run", "open"} : j # k => flow'[j] = flow[j]
  BY <1>1, <1>6, <1>7
<1>11. UNCHANGED <<steps, Trees!Same>>
  BY DEF Trees!MakeOne
<1>12. \A q \in Repos : q # r => (Trees!Unrecorded(q)' <=> Trees!Unrecorded(q))
  BY <1>1, <1>2, <1>9, <1>10 DEF Trees!Unrecorded
<1>13. Trees!Unrecorded(r) => Trees!Unrecorded(r)'
  BY <1>1, <1>2, <1>9, <1>10 DEF Trees!Unrecorded
<1>14. plan.action \in {"add", "create"} => Trees!Unrecorded(r)'
  <2>1. plan.action \in {"add", "create"} => \E m \in made : m.repo = r
    OBVIOUS
  <2> HIDE DEF made
  <2>2. DOMAIN flow' = {"run", "open"}
    BY <1>9
  <2> QED BY <2>1, <2>2, <1>10 DEF Trees!Unrecorded
<1>15. plan.action \notin {"add", "create"} => (Trees!Unrecorded(r)' => Trees!Unrecorded(r))
  BY <1>1, <1>2, <1>9, <1>10 DEF Trees!Unrecorded
<1> HIDE DEF made
<1> DEFINE new == [path |-> "ours", branch |-> plan.branch, dirty |-> FALSE, maker |-> "dashboard"]
           S == IF plan.action \in {"add", "create"} THEN linked[r] \cup {new} ELSE linked[r]
           R == IF plan.action = "adopt" THEN Trees!Adopted(plan) ELSE registry[r]
<1>16. linked \in [Repos -> SUBSET Trees!Worktree] /\ registry \in [Repos -> Trees!Record]
  BY DEF TreesInv, Trees!TypeOK
<1>17. linked' = [linked EXCEPT ![r] = S]
  BY <1>3, <1>16 DEF Trees!MakeFor
<1>18. registry' = [registry EXCEPT ![r] = R]
  BY <1>3, <1>16 DEF Trees!MakeFor
<1>19. new \in Trees!Worktree
  BY <1>4 DEF Trees!Worktree, Trees!Paths
<1>20. S \in SUBSET Trees!Worktree /\ linked[r] \subseteq S
  BY <1>16, <1>19
<1>21. R \in Trees!Record
  <2>1. Trees!Adopted(plan) \in Trees!Record
    BY <1>4 DEF Trees!Adopted, Trees!Record
  <2> QED BY <2>1, <1>16
<1>22. plan.action = "adopt" => R.path = plan.path /\ R.origin = "adopted"
  BY DEF Trees!Adopted
<1>23. plan.action # "adopt" => R = registry[r]
  OBVIOUS
<1>24. \A v \in S : v \in linked[r] \/ (v = new /\ plan.action \in {"add", "create"})
  OBVIOUS
<1>25. new.path = "ours" /\ new.maker = "dashboard"
  OBVIOUS
<1> HIDE DEF S, R, new
<1>26. /\ linked'[r] = S /\ registry'[r] = R
       /\ \A q \in Repos : q # r => linked'[q] = linked[q] /\ registry'[q] = registry[q]
  BY <1>16, <1>17, <1>18
<1>27. linked' \in [Repos -> SUBSET Trees!Worktree] /\ registry' \in [Repos -> Trees!Record]
  BY <1>16, <1>17, <1>18, <1>20, <1>21
<1>28. branches' \in [Repos -> SUBSET Trees!Branches] /\ base' \in [Repos -> SUBSET Trees!Branches]
  <2>1. /\ branches' = [branches EXCEPT ![r] = @ \cup {plan.branch}]
        /\ base' = [base EXCEPT ![r] = IF plan.action = "create" THEN @ \cup {plan.branch} ELSE @]
    BY <1>3 DEF Trees!MakeFor
  <2>2. branches \in [Repos -> SUBSET Trees!Branches] /\ base \in [Repos -> SUBSET Trees!Branches]
    BY DEF TreesInv, Trees!TypeOK
  <2> QED BY <2>1, <2>2, <1>4
<1>29. Trees!TypeOK' /\ restarts' = restarts /\ restarts' \in Nat
  BY <1>9, <1>11, <1>27, <1>28 DEF TreesInv, Trees!TypeOK, Trees!Same
<1>30. \A w \in linked[r] : plan.action \in {"add", "create"} => w.path # "ours"
  BY <1>4 DEF Trees!At
<1>31. OnePerPath'
  <2>1. \A v, w \in S : /\ v.path = w.path => v = w
                        /\ w.maker = "dashboard" => w.path = "ours"
    BY <1>24, <1>25, <1>30 DEF TreesInv, OnePerPath
  <2> QED BY <2>1, <1>26 DEF TreesInv, OnePerPath
<1>32. MadeIsOurs'
  <2> SUFFICES ASSUME NEW q \in Repos
               PROVE  /\ registry'[q].origin = "created" => registry'[q].path = "ours" /\ OwnAt(q)'
                      /\ Trees!Unrecorded(q)' => OwnAt(q)'
    BY DEF MadeIsOurs
  <2>1. CASE q # r
    BY <2>1, <1>12, <1>26 DEF TreesInv, MadeIsOurs, OwnAt
  <2>2. CASE q = r /\ plan.action \in {"add", "create"}
    <3>1. OwnAt(q)'
      BY <2>2, <1>24, <1>25, <1>26, <1>30 DEF OwnAt
    <3> QED BY <3>1, <2>2, <1>23, <1>26 DEF TreesInv, MadeIsOurs
  <2>3. CASE q = r /\ plan.action \notin {"add", "create"}
    <3>1. OwnAt(r) => OwnAt(r)'
      BY <2>3, <1>24, <1>26 DEF OwnAt
    <3> QED BY <3>1, <2>3, <1>15, <1>22, <1>23, <1>26 DEF TreesInv, MadeIsOurs
  <2> QED BY <2>1, <2>2, <2>3
<1>33. Trees!MadeIsOnRecord'
  <2> SUFFICES ASSUME NEW q \in Repos, NEW v \in linked'[q], v.maker = "dashboard", restarts = 0
               PROVE  registry'[q].path = v.path \/ Trees!Unrecorded(q)'
    BY <1>29 DEF Trees!MadeIsOnRecord
  <2>1. v.path = "ours"
    BY <1>31 DEF OnePerPath
  <2>2. CASE q # r
    BY <2>2, <1>12, <1>26 DEF TreesInv, Trees!MadeIsOnRecord
  <2>3. CASE q = r /\ plan.action \in {"add", "create"}
    BY <2>3, <1>14
  <2>4. CASE q = r /\ plan.action = "adopt"
    <3>1. v \in Trees!At(r, "ours")
      BY <2>1, <2>4, <1>24, <1>26 DEF Trees!At
    <3> QED BY <3>1, <2>1, <2>4, <1>4, <1>22, <1>26
  <2>5. CASE q = r /\ plan.action = "reuse"
    <3>1. v \in linked[r]
      BY <2>5, <1>24, <1>26
    <3> QED BY <3>1, <2>5, <1>13, <1>23, <1>26 DEF TreesInv, Trees!MadeIsOnRecord
  <2> QED BY <2>2, <2>3, <2>4, <2>5, <1>4
<1>34. RemovalFits'
  <2>1. \A q \in Repos : OwnAt(q) => OwnAt(q)'
    BY <1>24, <1>25, <1>26 DEF OwnAt
  <2>2. removal' = removal /\ (removal # Trees!NoRemoval => removal.repo \in Repos)
    BY <1>11 DEF Trees!Same, TreesInv, Trees!TypeOK, Trees!Removal
  <2> QED BY <2>1, <2>2 DEF TreesInv, RemovalFits, OwnAt
<1> QED BY <1>9, <1>29, <1>31, <1>32, <1>33, <1>34 DEF TreesInv

LEMMA RemoveKeeps ==
    ASSUME TreesInv, TreeLimits, NEW r \in Repos, Trees!Remove(r)
    PROVE  TreesInv'
<1> DEFINE left(gone) == IF gone THEN linked[r] \ Trees!At(r, removal.path) ELSE linked[r]
<1>1. PICK gone \in BOOLEAN :
        /\ linked' = [linked EXCEPT ![r] = left(gone)]
        /\ registry' = [registry EXCEPT ![r] = Trees!RecordAfter(r, gone)]
        /\ \E B \in SUBSET branches[r] : branches' = [branches EXCEPT ![r] = B]
  <2>1. PICK gone \in BOOLEAN :
        /\ linked' = [linked EXCEPT ![r] = left(gone)]
        /\ registry' = [registry EXCEPT ![r] = Trees!RecordAfter(r, gone)]
        /\ branches' = [branches EXCEPT ![r] =
              IF /\ gone /\ removal.delete /\ removal.branch \in base[r]
                 /\ removal.branch \notin {w.branch : w \in left(gone)} \cup {main[r]}
              THEN @ \ {removal.branch} ELSE @]
    BY DEF Trees!Remove
  <2>2. \E B \in SUBSET branches[r] : branches' = [branches EXCEPT ![r] = B]
    <3> DEFINE C == /\ gone /\ removal.delete /\ removal.branch \in base[r]
                    /\ removal.branch \notin {w.branch : w \in left(gone)} \cup {main[r]}
    <3>1. branches' = [branches EXCEPT ![r] = IF C THEN branches[r] \ {removal.branch} ELSE branches[r]]
      BY <2>1
    <3> HIDE DEF C
    <3> WITNESS (IF C THEN branches[r] \ {removal.branch} ELSE branches[r]) \in SUBSET branches[r]
    <3> QED BY <3>1
  <2> QED BY <2>1, <2>2
<1>2. UNCHANGED <<base, pushed, main, closed, flow, outside, steps, restarts>> /\ removal' = Trees!NoRemoval
  BY DEF Trees!Remove
<1>3. removal.path = "ours"
  BY DEF TreesInv, RemovalFits, Trees!Remove, Trees!NoRemoval, TreeLimits
<1>4. Trees!NoRecord \in Trees!Record /\ Trees!NoRecord.origin # "created"
  BY DEF Trees!NoRecord, Trees!Record
<1>5. /\ linked \in [Repos -> SUBSET Trees!Worktree] /\ registry \in [Repos -> Trees!Record]
      /\ branches \in [Repos -> SUBSET Trees!Branches]
  BY DEF TreesInv, Trees!TypeOK
<1>6. branches' \in [Repos -> SUBSET Trees!Branches]
  BY <1>1, <1>5
<1>7. \A q \in Repos : Trees!Unrecorded(q)' <=> Trees!Unrecorded(q)
  BY <1>2 DEF Trees!Unrecorded
<1>8. CASE ~gone
  <2>1. linked' = linked /\ registry' = registry
    BY <1>1, <1>5, <1>8 DEF Trees!RecordAfter
  <2>2. Trees!TypeOK' /\ FlowFits' /\ RemovalFits' /\ restarts' \in Nat
    BY <2>1, <1>2, <1>6 DEF TreesInv, Trees!TypeOK, FlowFits, RemovalFits
  <2> QED BY <2>1, <2>2, <1>2, <1>7, FlowKeeps
<1>9. CASE gone
  <2>1. linked' = [linked EXCEPT ![r] = linked[r] \ Trees!At(r, removal.path)]
    BY <1>1, <1>9
  <2>2. registry' = [registry EXCEPT ![r] = Trees!NoRecord]
    BY <1>1, <1>9 DEF Trees!RecordAfter
  <2>3. /\ registry'[r] = Trees!NoRecord /\ linked'[r] = linked[r] \ Trees!At(r, removal.path)
        /\ \A q \in Repos : q # r => linked'[q] = linked[q] /\ registry'[q] = registry[q]
        /\ linked' \in [Repos -> SUBSET Trees!Worktree] /\ registry' \in [Repos -> Trees!Record]
    BY <2>1, <2>2, <1>4, <1>5
  <2>4. \A q \in Repos : linked'[q] \subseteq linked[q]
    BY <2>3
  <2>5. Trees!TypeOK' /\ FlowFits' /\ RemovalFits' /\ restarts' \in Nat
    BY <2>3, <1>2, <1>6 DEF TreesInv, Trees!TypeOK, FlowFits, RemovalFits
  <2>6. OnePerPath'
    BY <2>4 DEF TreesInv, OnePerPath
  <2>7. MadeIsOurs'
    BY <2>3, <2>4, <1>4, <1>7 DEF TreesInv, MadeIsOurs, OwnAt
  <2>9. \A w \in linked'[r] : w.maker # "dashboard"
    BY <2>3, <1>3 DEF TreesInv, OnePerPath, Trees!At
  <2>10. Trees!MadeIsOnRecord'
    <3> SUFFICES ASSUME NEW q \in Repos, NEW v \in linked'[q], v.maker = "dashboard", restarts = 0
                 PROVE  registry'[q].path = v.path \/ Trees!Unrecorded(q)'
      BY <2>5, <1>2 DEF Trees!MadeIsOnRecord
    <3> QED BY <2>3, <2>9, <1>7 DEF TreesInv, Trees!MadeIsOnRecord
  <2> QED BY <2>5, <2>6, <2>7, <2>10 DEF TreesInv
<1> QED BY <1>8, <1>9

LEMMA WriteKeepsTrees ==
    ASSUME TreesInv, NEW r \in Repos, Trees!StepWrites(r)
    PROVE  TreesInv'
<1>1. PICK w \in Trees!At(r, registry[r].path), d \in BOOLEAN :
        linked' = [linked EXCEPT ![r] = (@ \ {w}) \cup {[w EXCEPT !.dirty = d]}]
  BY DEF Trees!StepWrites
<1> DEFINE new == [w EXCEPT !.dirty = d]
           S == (linked[r] \ {w}) \cup {new}
<1>2. linked \in [Repos -> SUBSET Trees!Worktree] /\ w \in linked[r] /\ w \in Trees!Worktree
  BY DEF TreesInv, Trees!TypeOK, Trees!At
<1>3. new \in Trees!Worktree /\ new.path = w.path /\ new.maker = w.maker
  BY <1>2 DEF Trees!Worktree
<1>4. linked' = [linked EXCEPT ![r] = S]
  BY <1>1, <1>2
<1> HIDE DEF new
<1>5. S \in SUBSET Trees!Worktree
  BY <1>2, <1>3
<1>6. /\ \A v, x \in S : v.path = x.path => v = x
      /\ \A v \in S : Stands(r, v)
  BY <1>2, <1>3 DEF TreesInv, OnePerPath, Stands
<1> HIDE DEF S
<1>7. UNCHANGED <<branches, main, registry, closed, flow, removal, outside, steps, restarts>>
  BY DEF Trees!StepWrites
<1>8. /\ linked' \in [Repos -> SUBSET Trees!Worktree]
      /\ base' \in [Repos -> SUBSET Trees!Branches] /\ pushed' \in [Repos -> SUBSET Trees!Branches]
  <2>1. /\ base' = [base EXCEPT ![r] = @ \ {registry[r].branch}]
        /\ pushed' = [pushed EXCEPT ![r] = @ \ {registry[r].branch}]
        /\ base \in [Repos -> SUBSET Trees!Branches] /\ pushed \in [Repos -> SUBSET Trees!Branches]
    BY DEF Trees!StepWrites, TreesInv, Trees!TypeOK
  <2> QED BY <2>1, <1>2, <1>4, <1>5
<1>9. Trees!TypeOK'
  BY <1>7, <1>8 DEF TreesInv, Trees!TypeOK
<1> QED BY <1>4, <1>5, <1>6, <1>7, <1>9, LinkedKeeps

LEMMA ElsewhereKeeps ==
    ASSUME TreesInv, Trees!Elsewhere, ~Replacing
    PROVE  TreesInv'
<1>1. UNCHANGED <<registry, flow, removal, steps, restarts>>
  BY DEF Trees!Elsewhere
<1>2. \A q \in Repos : Trees!Unrecorded(q)' <=> Trees!Unrecorded(q)
  BY <1>1 DEF Trees!Unrecorded
<1>3. FlowFits' /\ restarts' \in Nat /\ (linked' = linked => RemovalFits')
  BY <1>1 DEF TreesInv, RemovalFits, FlowFits, OwnAt
<1>4. linked \in [Repos -> SUBSET Trees!Worktree] /\ branches \in [Repos -> SUBSET Trees!Branches]
  BY DEF TreesInv, Trees!TypeOK
<1>5. CASE closed' = ~closed /\ UNCHANGED <<branches, base, pushed, linked, main>>
  <2>1. Trees!TypeOK'
    BY <1>1, <1>5 DEF TreesInv, Trees!TypeOK
  <2> QED BY <2>1, <1>1, <1>2, <1>3, <1>5, FlowKeeps
<1>6. ASSUME NEW r \in Repos, closed' = closed, Trees!AddElsewhere(r)
      PROVE  TreesInv'
  <2>1. PICK b \in Trees!Branches, p \in Trees!Paths :
          /\ Trees!At(r, p) = {} /\ p # registry[r].path /\ ~Trees!Unrecorded(r)
          /\ removal.repo = r => p # removal.path
          /\ linked' = [linked EXCEPT ![r] = @ \cup
                {[path |-> p, branch |-> b, dirty |-> FALSE, maker |-> "somebody"]}]
          /\ branches' = [branches EXCEPT ![r] = @ \cup {b}]
          /\ UNCHANGED <<base, pushed, main>>
    BY <1>6 DEF Trees!AddElsewhere
  <2> DEFINE new == [path |-> p, branch |-> b, dirty |-> FALSE, maker |-> "somebody"]
             S == linked[r] \cup {new}
  <2>2. new \in Trees!Worktree /\ new.path = p /\ new.maker = "somebody"
    BY <2>1 DEF Trees!Worktree
  <2>3. linked' = [linked EXCEPT ![r] = S]
    BY <2>1, <1>4
  <2> HIDE DEF new
  <2>4. S \in SUBSET Trees!Worktree
    BY <2>2, <1>4
  <2>5. \A v, w \in S : v.path = w.path => v = w
    BY <2>1, <2>2 DEF TreesInv, OnePerPath, Trees!At
  <2>6. \A v \in S : Stands(r, v)
    BY <2>1, <2>2 DEF Stands
  <2> HIDE DEF S
  <2>7. Trees!TypeOK'
    <3>1. branches' \in [Repos -> SUBSET Trees!Branches]
      BY <2>1, <1>4
    <3>2. linked' \in [Repos -> SUBSET Trees!Worktree]
      BY <2>3, <2>4, <1>4
    <3> QED BY <3>1, <3>2, <2>1, <1>1, <1>6 DEF TreesInv, Trees!TypeOK
  <2> QED BY <2>3, <2>4, <2>5, <2>6, <2>7, <1>1, <1>3, LinkedKeeps
<1>7. ASSUME NEW r \in Repos, closed' = closed, Trees!RemoveElsewhere(r)
      PROVE  TreesInv'
  <2>1. PICK w \in linked[r] : /\ linked' = [linked EXCEPT ![r] = @ \ {w}]
                              /\ UNCHANGED <<branches, base, pushed, main>>
    BY <1>7 DEF Trees!RemoveElsewhere
  <2> DEFINE S == linked[r] \ {w}
  <2>2. linked' = [linked EXCEPT ![r] = S] /\ S \in SUBSET Trees!Worktree
    BY <2>1, <1>4
  <2>3. /\ \A v, x \in S : v.path = x.path => v = x
        /\ \A v \in S : Stands(r, v)
    BY DEF TreesInv, OnePerPath, Stands
  <2> HIDE DEF S
  <2>4. Trees!TypeOK'
    <3>1. linked' \in [Repos -> SUBSET Trees!Worktree]
      BY <2>2, <1>4
    <3> QED BY <3>1, <2>1, <1>1, <1>7 DEF TreesInv, Trees!TypeOK
  <2> QED BY <2>2, <2>3, <2>4, <1>1, <1>3, LinkedKeeps
<1>8. ASSUME NEW r \in Repos, closed' = closed, Trees!Switch(r)
      PROVE  TreesInv'
  <2>1. UNCHANGED <<base, pushed>>
    BY <1>8 DEF Trees!Switch
  <2>2. CASE UNCHANGED <<branches, linked>>
                /\ \E b \in {"other"} \cup (branches[r] \ Trees!CheckedOut(r)) : main' = [main EXCEPT ![r] = b]
    <3>1. main' \in [Repos -> Trees!Branches \cup {"other"}]
      BY <2>2, <1>4 DEF TreesInv, Trees!TypeOK
    <3>2. Trees!TypeOK'
      BY <3>1, <2>1, <2>2, <1>1, <1>8 DEF TreesInv, Trees!TypeOK
    <3> QED BY <3>2, <2>2, <1>1, <1>2, <1>3, FlowKeeps
  <2>3. ASSUME NEW w \in linked[r], NEW b \in {"other", "slug"} \ Trees!CheckedOut(r), UNCHANGED main,
               linked' = [linked EXCEPT ![r] = (@ \ {w}) \cup {[w EXCEPT !.branch = b]}],
               branches' = [branches EXCEPT ![r] = @ \cup ({b} \cap Trees!Branches)]
        PROVE  TreesInv'
    <3> DEFINE new == [w EXCEPT !.branch = b]
               S == (linked[r] \ {w}) \cup {new}
    <3>1. w \in Trees!Worktree
      BY <1>4
    <3>2. new \in Trees!Worktree /\ new.path = w.path /\ new.maker = w.maker
      BY <3>1 DEF Trees!Worktree, Trees!Branches
    <3>3. linked' = [linked EXCEPT ![r] = S]
      BY <2>3, <1>4
    <3> HIDE DEF new
    <3>4. S \in SUBSET Trees!Worktree
      BY <3>2, <1>4
    <3>5. /\ \A v, x \in S : v.path = x.path => v = x
          /\ \A v \in S : Stands(r, v)
      BY <3>2 DEF TreesInv, OnePerPath, Stands
    <3> HIDE DEF S
    <3>6. Trees!TypeOK'
      <4>1. branches' \in [Repos -> SUBSET Trees!Branches]
        BY <2>3, <1>4
      <4>2. linked' \in [Repos -> SUBSET Trees!Worktree]
        BY <3>3, <3>4, <1>4
      <4> QED BY <4>1, <4>2, <2>1, <2>3, <1>1, <1>8 DEF TreesInv, Trees!TypeOK
    <3> QED BY <3>3, <3>4, <3>5, <3>6, <1>1, <1>3, LinkedKeeps
  <2> QED BY <1>8, <2>2, <2>3 DEF Trees!Switch
<1>9. ASSUME NEW r \in Repos, closed' = closed, Trees!Deliver(r)
      PROVE  TreesInv'
  <2>1. base' \in [Repos -> SUBSET Trees!Branches] /\ pushed' \in [Repos -> SUBSET Trees!Branches]
    <3>1. base \in [Repos -> SUBSET Trees!Branches] /\ pushed \in [Repos -> SUBSET Trees!Branches]
      BY DEF TreesInv, Trees!TypeOK
    <3>2. PICK b \in Trees!Branches :
            \/ base' = [base EXCEPT ![r] = @ \cup {b}] /\ UNCHANGED pushed
            \/ pushed' = [pushed EXCEPT ![r] = @ \cup {b}] /\ UNCHANGED base
      BY <1>4, <1>9 DEF Trees!Deliver
    <3> QED BY <3>1, <3>2
  <2>2. UNCHANGED <<branches, linked, main>>
    BY <1>9 DEF Trees!Deliver
  <2>3. Trees!TypeOK'
    BY <2>1, <2>2, <1>1, <1>9 DEF TreesInv, Trees!TypeOK
  <2> QED BY <2>2, <2>3, <1>1, <1>2, <1>3, FlowKeeps
<1> QED BY <1>5, <1>6, <1>7, <1>8, <1>9 DEF Trees!Elsewhere

\* Nothing changes what a removal saw without being counted.
LEMMA SinceKeeps ==
    ASSUME TreeLimits, TreesInv, SinceFits, [Trees!Next]_(Trees!vars)
    PROVE  SinceFits'
<1>1. /\ flow \in [{"run", "open"} -> Trees!Flow] /\ base \in [Repos -> SUBSET Trees!Branches]
      /\ removal \in {Trees!NoRemoval} \cup Trees!Removal
      /\ outside \in Nat /\ steps \in Nat
  BY DEF TreesInv, Trees!TypeOK, SinceFits
<1>2. CASE UNCHANGED Trees!vars
  BY <1>2 DEF Trees!vars, SinceFits, Trees!Running, Trees!Safe
<1>3. CASE removal' = Trees!NoRemoval /\ UNCHANGED <<outside, steps>>
  BY <1>1, <1>3 DEF SinceFits
<1>4. CASE removal' = removal /\ outside' + steps' = outside + steps + 1 /\ outside' \in Nat /\ steps' \in Nat
  <2>1. removal # Trees!NoRemoval => removal.since \in Nat
    BY <1>1 DEF Trees!Removal
  <2>2. removal # Trees!NoRemoval => removal.since <= outside + steps
    BY DEF SinceFits
  <2>3. ASSUME removal # Trees!NoRemoval PROVE removal.since < outside' + steps'
    <3>1. removal.since \in Nat /\ removal.since <= outside + steps
      BY <2>1, <2>2, <2>3
    <3>2. \A i, m, n : i \in Nat /\ m \in Nat /\ n = m + 1 /\ i <= m => i < n
      OBVIOUS
    <3>3. outside + steps \in Nat
      BY <1>1
    <3> QED BY ONLY <3>1, <3>2, <3>3, <1>4
  <2>4. removal' # Trees!NoRemoval => removal # Trees!NoRemoval /\ removal'.since = removal.since
    BY <1>4
  <2>5. removal' # Trees!NoRemoval => /\ removal'.since \in Nat
                                      /\ removal'.since < outside' + steps'
    BY <2>1, <2>3, <2>4
  <2>6. outside' \in Nat /\ steps' \in Nat
    BY <1>4
  <2>7. removal' # Trees!NoRemoval => /\ removal'.since <= outside' + steps'
                                      /\ removal'.since # outside' + steps'
    BY ONLY <2>5, <2>6
  <2> QED BY <2>6, <2>7 DEF SinceFits
<1>5. CASE /\ UNCHANGED <<removal, closed, outside, steps, pushed>>
           /\ flow["run"].at = "idle" => flow'["run"].at = "idle"
           /\ flow["run"].at = "idle" => \A r \in Repos : base[r] \subseteq base'[r]
  <2>1. removal # Trees!NoRemoval => removal.repo \in Repos
    BY <1>1 DEF Trees!Removal
  <2> QED BY <1>1, <1>5, <2>1 DEF SinceFits, Trees!Running, Trees!Safe
<1>6. ASSUME NEW k \in {"run", "open"}, NEW f \in Trees!Flow, flow' = [flow EXCEPT ![k] = f],
             flow[k].at = "idle" => f.at = "idle", UNCHANGED <<removal, closed, outside, steps, pushed>>,
             \A r \in Repos : base[r] \subseteq base'[r]
      PROVE  SinceFits'
  <2>1. flow["run"].at = "idle" => flow'["run"].at = "idle"
    BY <1>1, <1>6
  <2> QED BY <1>5, <1>6, <2>1
<1>7. ASSUME NEW k \in {"run", "open"},
             Trees!PlanAll(k) \/ Trees!RecordOne(k) \/ Trees!GoesToWork(k) \/ Trees!Ends(k)
      PROVE  SinceFits'
  <2>1. flow[k] \in Trees!Flow
    BY <1>1
  <2>2. /\ flow[k].at # "idle" /\ UNCHANGED <<removal, closed, outside, steps, pushed, base>>
    BY <1>7, <2>1 DEF Trees!PlanAll, Trees!RecordOne, Trees!GoesToWork, Trees!Ends, Trees!Same,
                      TreesInv, FlowFits
  <2>3. /\ [flow[k] EXCEPT !.at = "making"] \in Trees!Flow
        /\ [flow[k] EXCEPT !.at = "working"] \in Trees!Flow
        /\ [flow[k] EXCEPT !.made = {}] \in Trees!Flow
    BY <2>1 DEF Trees!Flow
  <2>4. PICK f \in Trees!Flow : flow' = [flow EXCEPT ![k] = f]
    BY <1>7, <2>3, NoFlowType DEF Trees!PlanAll, Trees!RecordOne, Trees!GoesToWork, Trees!Ends
  <2> QED BY <1>6, <2>2, <2>4
<1>8. ASSUME NEW k \in {"run", "open"}, NEW targets \in (SUBSET Repos) \ {{}}, NEW adopt \in BOOLEAN,
             Trees!Begin(k, targets, adopt)
      PROVE  SinceFits'
  BY <1>1, <1>4, <1>8 DEF Trees!Begin, Trees!Same
<1>9. ASSUME NEW k \in {"run", "open"}, NEW r \in Repos, Trees!MakeOne(k, r)
      PROVE  SinceFits'
  <2>1. flow[k].at = "making" /\ UNCHANGED <<removal, closed, outside, steps, pushed>>
    BY <1>9 DEF Trees!MakeOne, Trees!Same
  <2>2. PICK M : flow' = [flow EXCEPT ![k].left = @ \ {r}, ![k].made = M]
    BY <1>9 DEF Trees!MakeOne
  <2>3. flow'["run"].at = flow["run"].at
    BY <1>1, <2>2 DEF Trees!Flow
  <2>4. \A q \in Repos : base[q] \subseteq base'[q]
    BY <1>1, <1>9 DEF Trees!MakeOne, Trees!MakeFor
  <2> QED BY <1>5, <2>1, <2>3, <2>4
<1>10. ASSUME NEW r \in Repos, Trees!StepWrites(r) \/ Trees!Forget(r)
       PROVE  SinceFits'
  <2>1. CASE Trees!StepWrites(r)
    <3>1. flow["run"].at = "working" /\ UNCHANGED <<flow, removal, closed, outside, steps>>
      BY <2>1 DEF Trees!StepWrites
    <3> QED BY <1>1, <3>1 DEF SinceFits, Trees!Running
  <2>2. CASE Trees!Forget(r)
    BY <1>5, <2>2 DEF Trees!Forget, Trees!Same
  <2> QED BY <1>10, <2>1, <2>2
<1>11. ASSUME NEW r \in Repos, Trees!CheckRemoval(r)
       PROVE  SinceFits'
  <2>1. UNCHANGED <<base, pushed, closed, flow, outside, steps>>
    BY <1>11 DEF Trees!CheckRemoval
  <2>2. CASE ~Trees!Removable(r)
    BY <1>3, <1>11, <2>1, <2>2 DEF Trees!CheckRemoval
  <2>3. CASE Trees!Removable(r)
    <3>1. /\ removal' = [removal EXCEPT !.checked = TRUE] /\ removal.repo = r
          /\ removal # Trees!NoRemoval
      BY <1>11, <2>3 DEF Trees!CheckRemoval, Trees!NoRemoval, TreeLimits
    <3>2. /\ removal'.since = removal.since /\ removal'.repo = r /\ removal'.branch = removal.branch
          /\ removal.since \in Nat
      BY <1>1, <3>1 DEF Trees!Removal
    <3>3. Trees!Safe(r, removal.branch)
      BY <2>3 DEF Trees!Removable
    <3> QED BY <1>1, <2>1, <3>1, <3>2, <3>3 DEF SinceFits, Trees!Running, Trees!Safe
  <2> QED BY <2>2, <2>3
<1>12. ASSUME NEW r \in Repos, NEW d \in BOOLEAN, Trees!BeginRemoval(r, d)
       PROVE  SinceFits'
  <2>1. /\ removal' = [repo |-> r, path |-> registry[r].path, branch |-> registry[r].branch,
                       delete |-> d, checked |-> FALSE, since |-> outside + steps]
        /\ closed /\ ~Trees!Running /\ UNCHANGED <<closed, flow, outside, steps>>
    BY <1>12 DEF Trees!BeginRemoval
  <2>2. removal'.since = outside + steps /\ removal'.checked = FALSE
    BY <2>1
  <2> QED BY <1>1, <2>1, <2>2 DEF SinceFits, Trees!Running
<1>13. CASE Trees!Elsewhere
  BY <1>1, <1>4, <1>13 DEF Trees!Elsewhere
<1>14. CASE Trees!Restart \/ \E r \in Repos : Trees!Remove(r)
  BY <1>3, <1>14 DEF Trees!Restart, Trees!Remove
<1> QED BY <1>2, <1>7, <1>8, <1>9, <1>10, <1>11, <1>12, <1>13, <1>14 DEF Trees!Next

LEMMA TreesNext ==
    ASSUME TreeLimits, ~Replacing, TreesInv, SinceFits, [Trees!Next]_(Trees!vars)
    PROVE  TreesInv' /\ SinceFits'
<1>1. CASE UNCHANGED Trees!vars
  <2>1. UNCHANGED <<linked, registry, flow, removal, restarts>>
    BY <1>1 DEF Trees!vars
  <2>2. Trees!TypeOK' /\ FlowFits' /\ RemovalFits' /\ restarts' \in Nat
    BY <1>1 DEF Trees!vars, TreesInv, Trees!TypeOK, FlowFits, RemovalFits, OwnAt
  <2>3. \A q \in Repos : Trees!Unrecorded(q)' <=> Trees!Unrecorded(q)
    BY <2>1 DEF Trees!Unrecorded
  <2> QED BY <2>1, <2>2, <2>3, FlowKeeps, SinceKeeps
<1>2. ASSUME NEW k \in {"run", "open"},
             \/ Trees!PlanAll(k) \/ Trees!GoesToWork(k) \/ Trees!Ends(k)
             \/ \E targets \in (SUBSET Repos) \ {{}}, adopt \in BOOLEAN : Trees!Begin(k, targets, adopt)
      PROVE  TreesInv'
  BY <1>2, FlowSteps
<1>5. ASSUME NEW k \in {"run", "open"}, Trees!RecordOne(k)
      PROVE  TreesInv'
  BY <1>5, RecordKeeps
<1>6. ASSUME NEW k \in {"run", "open"}, NEW r \in Repos, Trees!MakeOne(k, r)
      PROVE  TreesInv'
  BY <1>6, MakeKeeps
<1>3. ASSUME Trees!Elsewhere \/ Trees!Restart PROVE TreesInv'
  BY <1>3, ElsewhereKeeps, RestartKeepsTrees
<1>4. ASSUME NEW r \in Repos, \/ Trees!StepWrites(r) \/ Trees!Forget(r)
                              \/ Trees!CheckRemoval(r) \/ Trees!Remove(r)
                              \/ \E d \in BOOLEAN : Trees!BeginRemoval(r, d)
      PROVE  TreesInv'
  BY <1>4, WriteKeepsTrees, ForgetKeeps, RemoveKeeps, BeginRemovalKeeps
<1> QED BY <1>1, <1>2, <1>3, <1>4, <1>5, <1>6, SinceKeeps DEF Trees!Next

LEMMA TreesInit == Trees!Init => TreesInv /\ SinceFits
<1> SUFFICES ASSUME Trees!Init PROVE TreesInv /\ SinceFits
  OBVIOUS
<1>1. Trees!NoRecord \in Trees!Record /\ Trees!NoRecord.origin # "created"
  BY DEF Trees!NoRecord, Trees!Record
<1>2. Trees!TypeOK /\ restarts \in Nat
  BY <1>1, NoFlowType DEF Trees!Init, Trees!TypeOK
<1>3. \A r \in Repos : linked[r] = {} /\ registry[r] = Trees!NoRecord
  BY DEF Trees!Init
<1>4. \A k \in {"run", "open"} : flow[k].made = {}
  BY NoFlowType DEF Trees!Init
<1>5. OnePerPath /\ MadeIsOurs /\ FlowFits /\ Trees!MadeIsOnRecord
  BY <1>1, <1>2, <1>3, <1>4 DEF OnePerPath, MadeIsOurs, OwnAt, FlowFits, Trees!MadeIsOnRecord
<1>6. RemovalFits /\ SinceFits
  BY DEF Trees!Init, RemovalFits, SinceFits
<1> QED BY <1>2, <1>5, <1>6 DEF TreesInv

\* MadeIsOnRecord: what the dashboard made and git still has, cleanup will find.
THEOREM MadeIsOnRecordHolds ==
    ASSUME TreeLimits, ~Replacing
    PROVE  Trees!Spec => []Trees!MadeIsOnRecord
<1>1. Trees!Init => TreesInv /\ SinceFits
  BY TreesInit
<1>2. TreesInv /\ SinceFits /\ [Trees!Next]_(Trees!vars) => (TreesInv /\ SinceFits)'
  BY TreesNext
<1>3. TreesInv => Trees!MadeIsOnRecord
  BY DEF TreesInv
<1> QED BY <1>1, <1>2, <1>3, PTL DEF Trees!Spec

\* RemovesOnlyItsOwn: whatever comes between the checks of a removal and the removal, cleanup
\* removes only a clean worktree the dashboard made and only a merged branch; with nothing
\* changed and nothing begun in between, of a closed task that nobody runs, with its branch
\* merged or pushed.
THEOREM RemovesOnlyItsOwnHolds ==
    ASSUME TreeLimits, ~Replacing
    PROVE  Trees!Spec => Trees!RemovesOnlyItsOwn
<1>1. Trees!Init => TreesInv /\ SinceFits
  BY TreesInit
<1>2. TreesInv /\ SinceFits /\ [Trees!Next]_(Trees!vars) => (TreesInv /\ SinceFits)'
  BY TreesNext
<1>3. TreesInv /\ SinceFits /\ [Trees!Next]_(Trees!vars) => [Trees!RemovedIsItsOwn]_(Trees!vars)
  <2> SUFFICES ASSUME TreesInv, SinceFits, Trees!Next, NEW r \in Repos, removal.repo = r,
                      removal' = Trees!NoRemoval
               PROVE  /\ branches[r] \ branches'[r] \subseteq base[r]
                      /\ \A w \in linked[r] \ linked'[r] :
                            /\ w.maker = "dashboard" /\ ~w.dirty
                            /\ removal.since = outside + steps =>
                                  closed /\ ~Trees!Running /\ Trees!Safe(r, removal.branch)
    BY DEF Trees!RemovedIsItsOwn
  <2>1. removal # Trees!NoRemoval
    BY DEF TreeLimits, Trees!NoRemoval
  <2>2. \/ \E q \in Repos : Trees!Remove(q) \/ Trees!CheckRemoval(q)
        \/ UNCHANGED <<branches, linked>>
    <3>1. removal' # removal
      BY <2>1
    <3> QED BY <3>1 DEF Trees!Next, Trees!PlanAll, Trees!RecordOne, Trees!GoesToWork, Trees!Ends,
          Trees!Begin, Trees!MakeOne, Trees!Same, Trees!StepWrites, Trees!Forget, Trees!BeginRemoval,
          Trees!Elsewhere, Trees!Restart
  <2>3. CASE UNCHANGED <<branches, linked>>
    BY <2>3
  <2>4. ASSUME NEW q \in Repos, Trees!CheckRemoval(q)
        PROVE  UNCHANGED <<branches, linked>>
    BY <2>4 DEF Trees!CheckRemoval
  <2>5. ASSUME Trees!Remove(r), NEW w \in linked[r] \ linked'[r]
        PROVE  /\ w.maker = "dashboard" /\ ~w.dirty
               /\ removal.since = outside + steps =>
                     closed /\ ~Trees!Running /\ Trees!Safe(r, removal.branch)
    <3>1. removal.path = "ours" /\ OwnAt(r) /\ removal.checked
      BY <2>1, <2>5 DEF TreesInv, RemovalFits, Trees!Remove
    <3>2. linked \in [Repos -> SUBSET Trees!Worktree]
      BY DEF TreesInv, Trees!TypeOK
    <3>3. w \in Trees!At(r, removal.path) /\ ~w.dirty
      BY <2>5, <3>2 DEF Trees!Remove
    <3> QED BY <2>1, <3>1, <3>3 DEF OwnAt, Trees!At, SinceFits
  <2>6. ASSUME Trees!Remove(r)
        PROVE  branches[r] \ branches'[r] \subseteq base[r]
    <3>1. branches \in [Repos -> SUBSET Trees!Branches]
      BY DEF TreesInv, Trees!TypeOK
    <3>2. \/ branches' = [branches EXCEPT ![r] = branches[r]]
          \/ branches' = [branches EXCEPT ![r] = branches[r] \ {removal.branch}] /\ removal.branch \in base[r]
      BY <2>6 DEF Trees!Remove
    <3> QED BY <3>1, <3>2
  <2>7. \A q \in Repos : Trees!Remove(q) => q = r
    BY DEF Trees!Remove
  <2> QED BY <2>2, <2>3, <2>4, <2>5, <2>6, <2>7
<1> QED BY <1>1, <1>2, <1>3, PTL DEF Trees!Spec, Trees!RemovesOnlyItsOwn

-----------------------------------------------------------------------------
(* Knowledge audits *)

CONSTANTS Plain, AutoWrite, PolicyChanges, MaxChanges
VARIABLES audits, contract, policy, cache, known, disk, adopted, load, dirty, result, changes

Audits == INSTANCE KnowledgeAudits WITH Auto <- AutoWrite

\* An audit has a policy source or not.
AuditLimits == Plain \cap AutoWrite = {} /\ MaxChanges \in Nat

\* The audits whose verdict cannot depend on a changed policy (a policy is version 1 at first).
Covered == IF policy = 1 THEN Audits!Files ELSE Plain

\* A verdict that was found for signature sig under contract c, as long as neither changed.
Right(f, sig, c, v) ==
    f \in Covered /\ sig # 0 /\ sig = audits[f] /\ c = contract => v = Audits!Truth(f)

EntryFits(f, e, c) == e.sig <= changes + 1 /\ Right(f, e.sig, c, e.verdict)

\* Versions are counted by the changes, so no signature comes back.
VersionsFit ==
    /\ contract \in 1..(changes + 1) /\ policy \in 1..(changes + 1)
    /\ known <= changes + 1 /\ disk.contract <= changes + 1
    /\ \A f \in Audits!Files : audits[f] <= changes + 1

CachesFit ==
    /\ known = 0 => cache = Audits!Empty
    /\ \A f \in Audits!Files : /\ EntryFits(f, cache[f], known)
                               /\ EntryFits(f, disk.cache[f], disk.contract)

\* What a load has read is right unless something changed since it began.
LoadFits ==
    /\ load.at # "idle" => /\ load.contract \in 1..(changes + 1)
                           /\ dirty \/ load.contract = contract
    /\ load.at \in {"files", "cache"} => \A f \in Audits!Files : load.found[f] = Audits!NoEntry.verdict
    /\ load.at \in {"cache", "validate"} =>
          /\ known = load.contract
          /\ dirty \/ load.sig = audits
          /\ \A f \in Audits!Files : /\ load.sig[f] <= changes + 1
                                     /\ load.sig[f] = 0 => f \notin load.left /\ load.found[f] = Audits!NoEntry.verdict
    /\ load.at = "cache" => \A f \in Audits!Files : load.sig[f] # 0 => f \in load.left
    /\ load.at = "validate" =>
          \A f \in Audits!Files \ load.left : Right(f, load.sig[f], load.contract, load.found[f])

AuditsInv ==
    /\ Audits!TypeOK /\ changes \in Nat
    /\ VersionsFit /\ CachesFit /\ LoadFits
    /\ Audits!CurrentWhenQuiet(Covered)

LEMMA EmptyTypes ==
    ASSUME AuditLimits
    PROVE  /\ Audits!NoEntry \in Audits!Entry /\ Audits!NoEntry.sig = 0
           /\ Audits!NoEntry.verdict \in Audits!Verdict
           /\ Audits!Empty \in [Audits!Files -> Audits!Entry]
           /\ \A f \in Audits!Files : Audits!Empty[f] = Audits!NoEntry
           /\ Audits!NoLoad \in Audits!Load /\ Audits!NoLoad.at = "idle"
           /\ \A f \in Audits!Files : Audits!NoLoad.found[f] = Audits!NoEntry.verdict
           /\ Audits!NoLoad.found \in [Audits!Files -> Audits!Verdict]
<1>1. 0 \in Audits!Sigs
  BY DEF AuditLimits, Audits!Sigs
<1>2. Audits!NoEntry.verdict \in Audits!Verdict
  BY <1>1 DEF Audits!NoEntry, Audits!Verdict
<1>3. Audits!NoEntry \in Audits!Entry /\ Audits!NoEntry.sig = 0
  BY <1>1 DEF Audits!NoEntry, Audits!Entry, Audits!Verdict
<1>4. /\ Audits!Empty \in [Audits!Files -> Audits!Entry]
      /\ \A f \in Audits!Files : Audits!Empty[f] = Audits!NoEntry
  BY <1>3 DEF Audits!Empty
<1>5. /\ Audits!NoLoad.at = "idle"
      /\ Audits!NoLoad.found = [f \in Audits!Files |-> Audits!NoEntry.verdict]
  BY DEF Audits!NoLoad
<1>6. [f \in Audits!Files |-> Audits!NoEntry.verdict] \in [Audits!Files -> Audits!Verdict]
  BY <1>2
<1>7. [f \in Audits!Files |-> 0] \in [Audits!Files -> Audits!Sigs]
  BY <1>1
<1>8. Audits!NoLoad \in Audits!Load
  BY <1>1, <1>6, <1>7 DEF Audits!NoLoad, Audits!Load
<1> QED BY <1>2, <1>3, <1>4, <1>5, <1>6, <1>8

LEMMA TruthOf ==
    ASSUME AuditLimits, Audits!TypeOK, NEW f \in Audits!Files
    PROVE  /\ Audits!Validated(f, audits[f], contract, policy) \in Audits!Verdict
           /\ audits[f] # 0 => Audits!Truth(f) = Audits!Validated(f, audits[f], contract, policy)
<1>1. audits[f] \in Audits!Sigs /\ contract \in Audits!Sigs /\ policy \in Audits!Sigs /\ 0 \in Audits!Sigs
  BY DEF AuditLimits, Audits!TypeOK, Audits!Sigs
<1> QED BY <1>1 DEF Audits!Validated, Audits!Truth, Audits!Verdict

\* What was right before a change is right after it.
LEMMA ChangeMoves ==
    ASSUME AuditLimits, AuditsInv, Audits!Change
    PROVE  /\ changes' = changes + 1 /\ dirty'
           /\ VersionsFit' /\ audits' \in [Audits!Files -> Audits!Sigs]
           /\ contract' \in Audits!Sigs /\ policy' \in Audits!Sigs
           /\ \A f \in Audits!Files : \A sig, c \in Audits!Sigs : \A v :
                 sig <= changes + 1 /\ c <= changes + 1 /\ Right(f, sig, c, v) => Right(f, sig, c, v)'
<1>1. /\ changes \in Nat /\ changes < MaxChanges /\ changes' = changes + 1 /\ dirty' = TRUE
      /\ UNCHANGED <<cache, known, disk, adopted, load, result, restarts>>
  BY DEF AuditsInv, Audits!Change
<1>2. changes + 2 \in Audits!Sigs /\ 0 \in Audits!Sigs /\ \A x \in Audits!Sigs : x \in Nat
  BY <1>1 DEF AuditLimits, Audits!Sigs
<1>3. audits \in [Audits!Files -> Audits!Sigs] /\ {contract, policy, known} \subseteq Audits!Sigs
  BY DEF AuditsInv, Audits!TypeOK
<1>4. disk.contract \in Nat /\ known \in Nat
  BY <1>2, <1>3 DEF AuditsInv, Audits!TypeOK
<1>5. ASSUME NEW g \in Audits!Files, NEW new \in {0, changes + 2},
             audits' = [audits EXCEPT ![g] = new], UNCHANGED <<contract, policy>>
      PROVE  /\ VersionsFit' /\ audits' \in [Audits!Files -> Audits!Sigs]
             /\ \A f \in Audits!Files : \A sig, c \in Audits!Sigs : \A v :
                   sig <= changes + 1 /\ c <= changes + 1 /\ Right(f, sig, c, v) => Right(f, sig, c, v)'
  <2>1. audits' \in [Audits!Files -> Audits!Sigs] /\ audits'[g] = new
        /\ \A f \in Audits!Files : f # g => audits'[f] = audits[f]
    BY <1>2, <1>3, <1>5
  <2>2. VersionsFit'
    BY <1>1, <1>2, <1>3, <1>4, <1>5, <2>1 DEF AuditsInv, VersionsFit
  <2>3. ASSUME NEW f \in Audits!Files, NEW sig \in Audits!Sigs, NEW c \in Audits!Sigs, NEW v,
               sig <= changes + 1, Right(f, sig, c, v)
        PROVE  Right(f, sig, c, v)'
    <3>1. CASE f = g
      <4>1. sig = 0 \/ sig # audits'[f]
        BY <1>1, <1>2, <2>1, <2>3, <3>1
      <4> QED BY <4>1 DEF Right
    <3>2. CASE f # g
      BY <1>5, <2>1, <2>3, <3>2 DEF Right, Covered, Audits!Truth
    <3> QED BY <3>1, <3>2
  <2> QED BY <2>1, <2>2, <2>3
<1>6. ASSUME contract' = changes + 2, UNCHANGED <<audits, policy>>
      PROVE  /\ VersionsFit'
             /\ \A f \in Audits!Files : \A sig, c \in Audits!Sigs : \A v :
                   sig <= changes + 1 /\ c <= changes + 1 /\ Right(f, sig, c, v) => Right(f, sig, c, v)'
  <2>1. VersionsFit'
    BY <1>1, <1>2, <1>3, <1>4, <1>6 DEF AuditsInv, VersionsFit
  <2>2. \A c \in Audits!Sigs : c <= changes + 1 => c # contract'
    BY <1>1, <1>2, <1>6
  <2> QED BY <2>1, <2>2 DEF Right
<1>7. ASSUME policy' = changes + 2, UNCHANGED <<audits, contract>>
      PROVE  /\ VersionsFit'
             /\ \A f \in Audits!Files : \A sig, c \in Audits!Sigs : \A v :
                   sig <= changes + 1 /\ c <= changes + 1 /\ Right(f, sig, c, v) => Right(f, sig, c, v)'
  <2>1. VersionsFit'
    BY <1>1, <1>2, <1>3, <1>4, <1>7 DEF AuditsInv, VersionsFit
  <2>2. Covered' = Plain /\ Plain \subseteq Covered
    BY <1>1, <1>7 DEF Covered, Audits!Files
  <2>3. \A f \in Plain : Audits!Truth(f)' = Audits!Truth(f)
    BY <1>7 DEF AuditLimits, Audits!Truth, Audits!Validated
  <2> QED BY <1>7, <2>1, <2>2, <2>3 DEF Right
<1>8. contract' \in Audits!Sigs /\ policy' \in Audits!Sigs /\ audits' \in [Audits!Files -> Audits!Sigs]
  BY <1>2, <1>3, <1>5 DEF Audits!Change
<1> QED BY <1>1, <1>5, <1>6, <1>7, <1>8 DEF Audits!Change

LEMMA ChangeKeeps ==
    ASSUME AuditLimits, AuditsInv, Audits!Change
    PROVE  AuditsInv'
<1>1. /\ UNCHANGED <<cache, known, disk, adopted, load, result, restarts>>
      /\ changes' = changes + 1 /\ changes \in Nat
  BY DEF AuditsInv, Audits!Change
<1>2. Audits!TypeOK /\ VersionsFit /\ CachesFit /\ LoadFits
  BY DEF AuditsInv
<1>3. Audits!TypeOK'
  BY <1>1, <1>2, ChangeMoves DEF Audits!TypeOK
<1>4. /\ \A x \in Audits!Sigs : x \in Nat
      /\ known \in Audits!Sigs /\ disk.contract \in Audits!Sigs /\ load.contract \in Audits!Sigs
      /\ \A f \in Audits!Files : /\ cache[f].sig \in Audits!Sigs /\ disk.cache[f].sig \in Audits!Sigs
                                 /\ load.sig[f] \in Audits!Sigs
  BY <1>2 DEF Audits!TypeOK, Audits!Sigs, Audits!Entry, Audits!Load
<1>5. CachesFit'
  <2>1. \A f \in Audits!Files : EntryFits(f, cache[f], known) => EntryFits(f, cache[f], known)'
    BY <1>1, <1>2, <1>4, ChangeMoves DEF EntryFits, VersionsFit
  <2>2. \A f \in Audits!Files :
          EntryFits(f, disk.cache[f], disk.contract) => EntryFits(f, disk.cache[f], disk.contract)'
    BY <1>1, <1>2, <1>4, ChangeMoves DEF EntryFits, VersionsFit
  <2> QED BY <1>1, <1>2, <2>1, <2>2 DEF CachesFit
<1>6. LoadFits'
  <2>1. load.at = "validate" => \A f \in Audits!Files \ load.left :
          Right(f, load.sig[f], load.contract, load.found[f])'
    <3> SUFFICES ASSUME load.at = "validate", NEW f \in Audits!Files \ load.left
                 PROVE  Right(f, load.sig[f], load.contract, load.found[f])'
      OBVIOUS
    <3>1. /\ load.sig[f] <= changes + 1 /\ load.contract <= changes + 1
          /\ Right(f, load.sig[f], load.contract, load.found[f])
      BY <1>1, <1>2 DEF LoadFits
    <3>2. PICK sig, c, v : sig = load.sig[f] /\ c = load.contract /\ v = load.found[f]
      OBVIOUS
    <3>3. Right(f, sig, c, v)'
      BY <1>4, <3>1, <3>2, ChangeMoves
    <3> QED BY <1>1, <3>2, <3>3
  <2>2. load.at # "idle" => load.contract \in 1..(changes' + 1)
    BY <1>1, <1>2, <1>4 DEF LoadFits
  <2>3. load.at \in {"cache", "validate"} => \A f \in Audits!Files : load.sig[f] <= changes' + 1
    <3> SUFFICES ASSUME load.at \in {"cache", "validate"}, NEW f \in Audits!Files
                 PROVE  load.sig[f] <= changes' + 1
      OBVIOUS
    <3>1. load.sig[f] <= changes + 1
      BY <1>2 DEF LoadFits
    <3> QED BY <1>1, <1>4, <3>1
  <2> QED BY <1>1, <1>2, <2>1, <2>2, <2>3, ChangeMoves DEF LoadFits
<1>7. Audits!CurrentWhenQuiet(Covered)'
  BY ChangeMoves DEF Audits!CurrentWhenQuiet
<1> QED BY <1>1, <1>3, <1>5, <1>6, <1>7, ChangeMoves DEF AuditsInv

LEMMA BeginKeeps ==
    ASSUME AuditLimits, AuditsInv, Audits!Begin
    PROVE  AuditsInv'
<1>1. UNCHANGED <<audits, contract, policy, cache, known, disk, adopted, result, changes, restarts>>
  BY DEF Audits!Begin
<1>2. /\ load'.at = "files" /\ load'.contract = contract /\ load' \in Audits!Load /\ dirty' = FALSE
  <2>1. contract \in Audits!Sigs
    BY DEF AuditsInv, Audits!TypeOK
  <2>2. load' = [Audits!NoLoad EXCEPT !.at = "files", !.contract = contract]
    BY DEF Audits!Begin
  <2>3. DOMAIN Audits!NoLoad = {"at", "contract", "sig", "left", "stored", "found", "changed"}
    BY DEF Audits!NoLoad
  <2>4. load'.at = "files" /\ load'.contract = contract
    BY <2>2, <2>3
  <2>5. load' \in Audits!Load
    BY <2>1, <2>2, EmptyTypes DEF Audits!Load
  <2> QED BY <2>4, <2>5 DEF Audits!Begin
<1>3. Audits!TypeOK'
  BY <1>1, <1>2 DEF AuditsInv, Audits!TypeOK
<1>4. VersionsFit' /\ CachesFit' /\ changes' \in Nat
  BY <1>1 DEF AuditsInv, VersionsFit, CachesFit, EntryFits, Right, Covered, Audits!Truth
<1>5. LoadFits'
  <2>1. \A f \in Audits!Files : load'.found[f] = Audits!NoEntry.verdict
    BY EmptyTypes DEF Audits!Begin
  <2> QED BY <1>1, <1>2, <2>1 DEF AuditsInv, VersionsFit, LoadFits
<1>6. Audits!CurrentWhenQuiet(Covered)'
  BY <1>2 DEF Audits!CurrentWhenQuiet
<1> QED BY <1>3, <1>4, <1>5, <1>6 DEF AuditsInv

LEMMA ReadFilesKeeps ==
    ASSUME AuditLimits, AuditsInv, Audits!ReadFiles
    PROVE  AuditsInv'
<1>1. UNCHANGED <<audits, contract, policy, disk, dirty, result, changes, restarts>>
  BY DEF Audits!ReadFiles
<1>2. Audits!TypeOK /\ VersionsFit /\ CachesFit /\ LoadFits
  BY DEF AuditsInv
<1> DEFINE live == {f \in Audits!Files : audits[f] # 0}
           kept == Audits!CacheUnderContract
<1>3. /\ cache' = [f \in Audits!Files |-> IF f \in live THEN kept[f] ELSE Audits!NoEntry]
      /\ adopted' = TRUE /\ known' = load.contract /\ load.at = "files"
  BY DEF Audits!ReadFiles
<1>4. PICK b \in BOOLEAN : load' = [load EXCEPT !.at = "cache", !.sig = audits, !.left = live, !.changed = b]
  BY DEF Audits!ReadFiles
<1>5. /\ load' \in Audits!Load /\ load'.at = "cache" /\ load'.sig = audits /\ load'.left = live
      /\ load'.contract = load.contract /\ load'.found = load.found
  <2>1. audits \in [Audits!Files -> Audits!Sigs] /\ load \in Audits!Load /\ live \in SUBSET Audits!Files
    BY <1>2 DEF Audits!TypeOK
  <2> HIDE DEF live
  <2> QED BY <2>1, <1>4 DEF Audits!Load
<1>6. /\ load.contract \in 1..(changes + 1) /\ load.contract \in Audits!Sigs
      /\ dirty \/ load.contract = contract
  BY <1>2, <1>3 DEF LoadFits, Audits!TypeOK, Audits!Load
<1>7. kept \in [Audits!Files -> Audits!Entry]
  BY <1>2, EmptyTypes DEF Audits!CacheUnderContract, Audits!Adopted, Audits!TypeOK
<1>8. \A f \in Audits!Files : EntryFits(f, kept[f], load.contract)
  <2>1. \A f \in Audits!Files : EntryFits(f, Audits!NoEntry, load.contract)
    BY EmptyTypes DEF EntryFits, Right, AuditsInv
  <2>2. CASE known # 0 /\ known # load.contract
    BY <2>1, <2>2, EmptyTypes DEF Audits!CacheUnderContract
  <2>3. CASE ~(known # 0 /\ known # load.contract) /\ ~adopted /\ disk.contract = load.contract
    BY <2>3, <1>2 DEF Audits!CacheUnderContract, Audits!Adopted, CachesFit
  <2>4. CASE ~(known # 0 /\ known # load.contract) /\ ~(~adopted /\ disk.contract = load.contract)
    <3>1. kept = cache
      BY <2>4 DEF Audits!CacheUnderContract, Audits!Adopted
    <3>2. CASE known = load.contract
      BY <3>1, <3>2, <1>2 DEF CachesFit
    <3>3. CASE known = 0
      BY <3>1, <3>3, <2>1, <1>2, EmptyTypes DEF CachesFit
    <3> QED BY <3>2, <3>3, <2>4
  <2> QED BY <2>2, <2>3, <2>4
<1> HIDE DEF kept
<1>9. /\ cache' \in [Audits!Files -> Audits!Entry]
      /\ \A f \in Audits!Files : cache'[f] = IF f \in live THEN kept[f] ELSE Audits!NoEntry
  <2>1. \A f \in Audits!Files : (IF f \in live THEN kept[f] ELSE Audits!NoEntry) \in Audits!Entry
    BY <1>7, EmptyTypes
  <2> QED BY <1>3, <2>1
<1>10. Audits!TypeOK'
  BY <1>1, <1>2, <1>3, <1>5, <1>6, <1>9 DEF Audits!TypeOK
<1>11. VersionsFit' /\ changes' \in Nat
  BY <1>1, <1>2, <1>3, <1>6 DEF AuditsInv, VersionsFit
<1>12. \A f \in Audits!Files : EntryFits(f, cache'[f], load.contract)
  <2>1. \A f \in Audits!Files : EntryFits(f, Audits!NoEntry, load.contract)
    BY EmptyTypes DEF EntryFits, Right, AuditsInv
  <2> QED BY <2>1, <1>8, <1>9
<1>13. CachesFit'
  <2>1. \A f \in Audits!Files : EntryFits(f, cache[f], known)'
    BY <1>1, <1>3, <1>12 DEF EntryFits, Right, Covered, Audits!Truth
  <2>2. \A f \in Audits!Files : EntryFits(f, disk.cache[f], disk.contract)'
    BY <1>1, <1>2 DEF CachesFit, EntryFits, Right, Covered, Audits!Truth
  <2>3. known' # 0
    BY <1>3, <1>6 DEF AuditsInv
  <2> QED BY <2>1, <2>2, <2>3 DEF CachesFit
<1>14. LoadFits'
  <2>1. \A f \in Audits!Files : audits[f] <= changes + 1
    BY <1>2 DEF VersionsFit
  <2>2. \A f \in Audits!Files : audits[f] = 0 => f \notin live /\ load.found[f] = Audits!NoEntry.verdict
    BY <1>2, <1>3 DEF LoadFits
  <2>3. \A f \in Audits!Files : audits[f] # 0 => f \in live
    OBVIOUS
  <2> HIDE DEF live
  <2>4. /\ load'.at = "cache" /\ load'.contract \in 1..(changes' + 1) /\ known' = load'.contract
        /\ dirty' \/ load'.contract = contract'
        /\ dirty' \/ load'.sig = audits'
    BY <1>1, <1>3, <1>5, <1>6
  <2>5. \A f \in Audits!Files : /\ load'.found[f] = Audits!NoEntry.verdict
                                /\ load'.sig[f] <= changes' + 1
                                /\ load'.sig[f] = 0 => f \notin load'.left
                                /\ load'.sig[f] # 0 => f \in load'.left
    BY <1>1, <1>2, <1>3, <1>5, <2>1, <2>2, <2>3 DEF LoadFits
  <2> QED BY <2>4, <2>5 DEF LoadFits
<1>15. Audits!CurrentWhenQuiet(Covered)'
  BY <1>5 DEF Audits!CurrentWhenQuiet
<1> QED BY <1>10, <1>11, <1>13, <1>14, <1>15 DEF AuditsInv

LEMMA LookUpKeeps ==
    ASSUME AuditLimits, AuditsInv, Audits!LookUp
    PROVE  AuditsInv'
<1>1. UNCHANGED <<audits, contract, policy, cache, known, disk, adopted, dirty, result, changes, restarts>>
  BY DEF Audits!LookUp
<1>2. Audits!TypeOK /\ VersionsFit /\ CachesFit /\ LoadFits /\ load.at = "cache"
  BY DEF AuditsInv, Audits!LookUp
<1> DEFINE hits == {f \in load.left : Audits!Hit(f)}
           found == [f \in Audits!Files |-> IF f \in hits THEN cache[f].verdict ELSE load.found[f]]
<1>3. PICK b \in BOOLEAN : load' = [load EXCEPT !.at = "validate", !.left = load.left \ hits,
                                                !.found = found, !.changed = b]
  BY <1>2 DEF Audits!LookUp, Audits!TypeOK, Audits!Load
<1>4. /\ \A f \in hits : f \in load.left /\ cache[f].sig = load.sig[f]
      /\ \A f \in Audits!Files : cache[f].verdict \in Audits!Verdict /\ load.found[f] \in Audits!Verdict
      /\ load \in Audits!Load
  BY <1>2 DEF Audits!Hit, Audits!TypeOK, Audits!Entry, Audits!Load
<1> HIDE DEF hits
<1>5. /\ found \in [Audits!Files -> Audits!Verdict]
      /\ \A f \in Audits!Files : found[f] = IF f \in hits THEN cache[f].verdict ELSE load.found[f]
  BY <1>4
<1> HIDE DEF found
<1>6. /\ load' \in Audits!Load /\ load'.at = "validate" /\ load'.left = load.left \ hits
      /\ load'.found = found /\ load'.sig = load.sig /\ load'.contract = load.contract
  BY <1>3, <1>4, <1>5 DEF Audits!Load
<1>7. Audits!TypeOK'
  BY <1>1, <1>2, <1>6 DEF Audits!TypeOK
<1>8. VersionsFit' /\ CachesFit' /\ changes' \in Nat
  BY <1>1 DEF AuditsInv, VersionsFit, CachesFit, EntryFits, Right, Covered, Audits!Truth
<1>9. \A f \in Audits!Files \ load'.left : Right(f, load.sig[f], load.contract, found[f])
  <2> SUFFICES ASSUME NEW f \in Audits!Files, f \notin load'.left
               PROVE  Right(f, load.sig[f], load.contract, found[f])
    OBVIOUS
  <2>1. CASE f \in hits
    <3>1. found[f] = cache[f].verdict /\ cache[f].sig = load.sig[f] /\ known = load.contract
      BY <1>2, <1>4, <1>5, <2>1 DEF LoadFits
    <3>2. Right(f, cache[f].sig, known, cache[f].verdict)
      BY <1>2 DEF CachesFit, EntryFits
    <3> QED BY <3>1, <3>2
  <2>2. CASE f \notin hits
    <3>1. load.sig[f] = 0
      BY <1>2, <1>6, <2>2 DEF LoadFits
    <3> QED BY <3>1 DEF Right
  <2> QED BY <2>1, <2>2
<1>10. LoadFits'
  <2>1. \A f \in Audits!Files \ load'.left : Right(f, load.sig[f], load.contract, load.found[f])'
    BY <1>1, <1>6, <1>9 DEF Right, Covered, Audits!Truth
  <2>2. \A f \in Audits!Files : load.sig[f] = 0 => f \notin load'.left /\ found[f] = Audits!NoEntry.verdict
    BY <1>2, <1>4, <1>5, <1>6 DEF LoadFits
  <2>3. /\ load'.contract \in 1..(changes' + 1) /\ known' = load'.contract
        /\ dirty' \/ load'.contract = contract'
        /\ dirty' \/ load'.sig = audits'
    BY <1>1, <1>2, <1>6 DEF LoadFits
  <2>4. \A f \in Audits!Files : load'.sig[f] <= changes' + 1
    BY <1>1, <1>2, <1>6 DEF LoadFits
  <2> QED BY <1>6, <2>1, <2>2, <2>3, <2>4 DEF LoadFits
<1>11. Audits!CurrentWhenQuiet(Covered)'
  BY <1>6 DEF Audits!CurrentWhenQuiet
<1> QED BY <1>7, <1>8, <1>10, <1>11 DEF AuditsInv

LEMMA ValidateKeeps ==
    ASSUME AuditLimits, AuditsInv, NEW g \in Audits!Files, Audits!Validate(g)
    PROVE  AuditsInv'
<1>1. UNCHANGED <<audits, contract, policy, cache, known, disk, adopted, dirty, result, changes, restarts>>
  BY DEF Audits!Validate
<1>2. Audits!TypeOK /\ VersionsFit /\ CachesFit /\ LoadFits /\ load.at = "validate" /\ g \in load.left
  BY DEF AuditsInv, Audits!Validate
<1> DEFINE says == Audits!Validated(g, audits[g], contract, policy)
           found == [load.found EXCEPT ![g] = says]
           stored == load.stored \ {g}
<1>3. load' = [load EXCEPT !.found = found, !.left = load.left \ {g}, !.stored = stored]
  BY <1>2 DEF Audits!Validate, Audits!TypeOK, Audits!Load
<1>4. /\ says \in Audits!Verdict /\ load \in Audits!Load /\ stored \in SUBSET Audits!Files
      /\ audits[g] # 0 => says = Audits!Truth(g)
  BY <1>2, TruthOf DEF Audits!TypeOK, Audits!Load
<1> HIDE DEF says, stored
<1>5. /\ found \in [Audits!Files -> Audits!Verdict]
      /\ \A f \in Audits!Files : found[f] = IF f = g THEN says ELSE load.found[f]
  BY <1>4 DEF Audits!Load
<1> HIDE DEF found
<1>6. /\ load' \in Audits!Load /\ load'.at = "validate" /\ load'.left = load.left \ {g}
      /\ load'.found = found /\ load'.sig = load.sig /\ load'.contract = load.contract
  BY <1>2, <1>3, <1>4, <1>5 DEF Audits!Load
<1>7. Audits!TypeOK'
  BY <1>1, <1>2, <1>6 DEF Audits!TypeOK
<1>8. VersionsFit' /\ CachesFit' /\ changes' \in Nat
  BY <1>1 DEF AuditsInv, VersionsFit, CachesFit, EntryFits, Right, Covered, Audits!Truth
<1>9. \A f \in Audits!Files \ load'.left : Right(f, load.sig[f], load.contract, found[f])
  <2> SUFFICES ASSUME NEW f \in Audits!Files, f \notin load'.left
               PROVE  Right(f, load.sig[f], load.contract, found[f])
    OBVIOUS
  <2>1. CASE f = g
    BY <1>4, <1>5, <2>1 DEF Right
  <2>2. CASE f # g
    BY <1>2, <1>5, <1>6, <2>2 DEF LoadFits
  <2> QED BY <2>1, <2>2
<1>10. LoadFits'
  <2>1. \A f \in Audits!Files \ load'.left : Right(f, load.sig[f], load.contract, load.found[f])'
    BY <1>1, <1>6, <1>9 DEF Right, Covered, Audits!Truth
  <2>2. \A f \in Audits!Files : load.sig[f] = 0 => f \notin load'.left /\ found[f] = Audits!NoEntry.verdict
    BY <1>2, <1>5, <1>6 DEF LoadFits
  <2>3. /\ load'.contract \in 1..(changes' + 1) /\ known' = load'.contract
        /\ dirty' \/ load'.contract = contract'
        /\ dirty' \/ load'.sig = audits'
    BY <1>1, <1>2, <1>6 DEF LoadFits
  <2>4. \A f \in Audits!Files : load'.sig[f] <= changes' + 1
    BY <1>1, <1>2, <1>6 DEF LoadFits
  <2> QED BY <1>6, <2>1, <2>2, <2>3, <2>4 DEF LoadFits
<1>11. Audits!CurrentWhenQuiet(Covered)'
  BY <1>6 DEF Audits!CurrentWhenQuiet
<1> QED BY <1>7, <1>8, <1>10, <1>11 DEF AuditsInv

LEMMA StoreKeeps ==
    ASSUME AuditLimits, AuditsInv, NEW g \in Audits!Files, Audits!Store(g)
    PROVE  AuditsInv'
<1>1. UNCHANGED <<audits, contract, policy, known, disk, adopted, dirty, result, changes, restarts>>
  BY DEF Audits!Store
<1>2. /\ Audits!TypeOK /\ VersionsFit /\ CachesFit /\ LoadFits
      /\ load.at = "validate" /\ g \notin load.left
  BY DEF AuditsInv, Audits!Store
<1>3. /\ load' \in Audits!Load /\ load'.at = "validate" /\ load'.left = load.left
      /\ load'.found = load.found /\ load'.sig = load.sig /\ load'.contract = load.contract
  <2>1. load \in Audits!Load /\ load' = [load EXCEPT !.stored = load.stored \cup {g}]
    BY <1>2 DEF Audits!Store, Audits!TypeOK, Audits!Load
  <2> QED BY <1>2, <2>1 DEF Audits!Load
<1> DEFINE psig == IF load.found[g].valid THEN Audits!PolicySig(g) ELSE 0
           entry == [sig |-> load.sig[g], verdict |-> load.found[g], policySig |-> psig]
<1>4. cache' = [cache EXCEPT ![g] = entry]
  BY DEF Audits!Store
<1>5. psig \in Audits!Sigs
  BY <1>2 DEF Audits!PolicySig, Audits!TypeOK, Audits!Sigs, AuditLimits
<1> HIDE DEF psig
<1>6. /\ entry \in Audits!Entry /\ entry.sig = load.sig[g] /\ entry.verdict = load.found[g]
  BY <1>2, <1>5 DEF Audits!Entry, Audits!TypeOK, Audits!Load
<1> HIDE DEF entry
<1>7. /\ cache' \in [Audits!Files -> Audits!Entry]
      /\ \A f \in Audits!Files : cache'[f] = IF f = g THEN entry ELSE cache[f]
  BY <1>2, <1>4, <1>6 DEF Audits!TypeOK
<1>8. Audits!TypeOK'
  BY <1>1, <1>2, <1>3, <1>7 DEF Audits!TypeOK
<1>9. VersionsFit' /\ changes' \in Nat
  BY <1>1 DEF AuditsInv, VersionsFit
<1>10. CachesFit'
  <2>1. EntryFits(g, entry, known)
    BY <1>2, <1>6 DEF LoadFits, EntryFits
  <2>2. \A f \in Audits!Files : EntryFits(f, cache'[f], known)
    BY <1>2, <1>7, <2>1 DEF CachesFit
  <2>3. \A f \in Audits!Files : EntryFits(f, cache[f], known)'
    BY <1>1, <2>2 DEF EntryFits, Right, Covered, Audits!Truth
  <2>4. \A f \in Audits!Files : EntryFits(f, disk.cache[f], disk.contract)'
    BY <1>1, <1>2 DEF CachesFit, EntryFits, Right, Covered, Audits!Truth
  <2>5. known' # 0
    BY <1>1, <1>2 DEF LoadFits
  <2> QED BY <2>3, <2>4, <2>5 DEF CachesFit
<1>11. LoadFits'
  <2>1. \A f \in Audits!Files \ load'.left : Right(f, load.sig[f], load.contract, load.found[f])'
    BY <1>1, <1>2, <1>3 DEF LoadFits, Right, Covered, Audits!Truth
  <2> QED BY <1>1, <1>2, <1>3, <2>1 DEF LoadFits
<1>12. Audits!CurrentWhenQuiet(Covered)'
  BY <1>3 DEF Audits!CurrentWhenQuiet
<1> QED BY <1>8, <1>9, <1>10, <1>11, <1>12 DEF AuditsInv

LEMMA FinishKeeps ==
    ASSUME AuditLimits, AuditsInv, Audits!Finish
    PROVE  AuditsInv'
<1>1. UNCHANGED <<audits, contract, policy, cache, known, adopted, dirty, changes, restarts>>
  BY DEF Audits!Finish
<1>2. /\ Audits!TypeOK /\ VersionsFit /\ CachesFit /\ LoadFits
      /\ load.at = "validate" /\ load.left = {}
  BY DEF AuditsInv, Audits!Finish
<1>3. /\ load' \in Audits!Load /\ load'.at = "idle"
      /\ result' = load.found /\ result' \in [Audits!Files -> Audits!Verdict]
  BY <1>2, EmptyTypes DEF Audits!Finish, Audits!TypeOK, Audits!Load
<1>4. \/ disk' = disk
      \/ disk' = [contract |-> load.contract, cache |-> cache] /\ load.contract = known
  BY <1>2 DEF Audits!Finish, LoadFits
<1>5. Audits!TypeOK'
  <2>1. disk' \in [contract : Audits!Sigs, cache : [Audits!Files -> Audits!Entry]]
    BY <1>2, <1>4 DEF Audits!TypeOK, Audits!Load
  <2> QED BY <1>1, <1>2, <1>3, <2>1 DEF Audits!TypeOK
<1>6. VersionsFit' /\ changes' \in Nat
  BY <1>1, <1>2, <1>4 DEF AuditsInv, VersionsFit
<1>7. CachesFit'
  <2>1. \A f \in Audits!Files : EntryFits(f, disk'.cache[f], disk'.contract)
    BY <1>2, <1>4 DEF CachesFit
  <2>2. \A f \in Audits!Files : EntryFits(f, disk.cache[f], disk.contract)'
    BY <1>1, <2>1 DEF EntryFits, Right, Covered, Audits!Truth
  <2>3. \A f \in Audits!Files : EntryFits(f, cache[f], known)'
    BY <1>1, <1>2 DEF CachesFit, EntryFits, Right, Covered, Audits!Truth
  <2> QED BY <1>1, <1>2, <2>2, <2>3 DEF CachesFit
<1>8. LoadFits'
  BY <1>3 DEF LoadFits
<1>9. Audits!CurrentWhenQuiet(Covered)'
  <2> SUFFICES ASSUME ~dirty, NEW f \in Covered
               PROVE  load.found[f] = Audits!Truth(f)
    BY <1>1, <1>3 DEF Audits!CurrentWhenQuiet, Covered, Audits!Truth
  <2>1. f \in Audits!Files
    BY DEF Covered, Audits!Files
  <2>2. load.sig = audits /\ load.contract = contract
    BY <1>2 DEF LoadFits
  <2>3. CASE audits[f] = 0
    BY <1>2, <2>1, <2>2, <2>3 DEF LoadFits, Audits!Truth
  <2>4. CASE audits[f] # 0
    BY <1>2, <2>1, <2>2, <2>4 DEF LoadFits, Right
  <2> QED BY <2>3, <2>4
<1> QED BY <1>5, <1>6, <1>7, <1>8, <1>9 DEF AuditsInv

LEMMA RestartKeeps ==
    ASSUME AuditLimits, AuditsInv, Audits!Restart
    PROVE  AuditsInv'
<1>1. /\ UNCHANGED <<audits, contract, policy, disk, result, changes>>
      /\ cache' = Audits!Empty /\ known' = 0 /\ adopted' = FALSE
      /\ load' = Audits!NoLoad /\ dirty' = TRUE
  BY DEF Audits!Restart
<1>2. Audits!TypeOK /\ VersionsFit /\ CachesFit
  BY DEF AuditsInv
<1>3. Audits!TypeOK'
  <2>1. 0 \in Audits!Sigs
    BY DEF AuditLimits, Audits!Sigs
  <2>2. Audits!Empty \in [Audits!Files -> Audits!Entry] /\ Audits!NoLoad \in Audits!Load
    BY EmptyTypes
  <2> QED BY <1>1, <1>2, <2>1, <2>2 DEF Audits!TypeOK
<1>4. VersionsFit' /\ changes' \in Nat
  BY <1>1 DEF AuditsInv, VersionsFit
<1>5. CachesFit'
  <2>1. \A f \in Audits!Files : EntryFits(f, cache[f], known)'
    BY <1>1, EmptyTypes DEF AuditsInv, EntryFits, Right
  <2>2. \A f \in Audits!Files : EntryFits(f, disk.cache[f], disk.contract)'
    BY <1>1, <1>2 DEF CachesFit, EntryFits, Right, Covered, Audits!Truth
  <2> QED BY <1>1, <2>1, <2>2 DEF CachesFit
<1>6. LoadFits' /\ Audits!CurrentWhenQuiet(Covered)'
  BY <1>1, EmptyTypes DEF LoadFits, Audits!CurrentWhenQuiet
<1> QED BY <1>3, <1>4, <1>5, <1>6 DEF AuditsInv

LEMMA AuditsInit ==
    ASSUME AuditLimits, Audits!Init
    PROVE  AuditsInv
<1>1. /\ audits = [f \in Audits!Files |-> 1] /\ contract = 1 /\ policy = 1
      /\ cache = Audits!Empty /\ known = 0 /\ adopted = FALSE
      /\ disk = [contract |-> 0, cache |-> Audits!Empty]
      /\ load = Audits!NoLoad /\ dirty = TRUE /\ result = Audits!NoLoad.found /\ changes = 0
  BY DEF Audits!Init
<1>2. 0 \in Audits!Sigs /\ 1 \in Audits!Sigs
  BY DEF Audits!Sigs, AuditLimits
<1>3. Audits!TypeOK
  BY <1>1, <1>2, EmptyTypes DEF Audits!TypeOK
<1>4. VersionsFit
  BY <1>1 DEF VersionsFit
<1>5. CachesFit
  BY <1>1, EmptyTypes DEF CachesFit, EntryFits, Right
<1>6. LoadFits /\ Audits!CurrentWhenQuiet(Covered)
  BY <1>1, EmptyTypes DEF LoadFits, Audits!CurrentWhenQuiet
<1> QED BY <1>1, <1>3, <1>4, <1>5, <1>6 DEF AuditsInv

LEMMA AuditsNext ==
    ASSUME AuditLimits, AuditsInv, [Audits!Next]_Audits!vars
    PROVE  AuditsInv'
<1>1. CASE UNCHANGED Audits!vars
  <2>1. UNCHANGED <<audits, contract, policy, cache, known, disk, adopted, load, dirty, result, changes>>
    BY <1>1 DEF Audits!vars
  <2>2. Audits!TypeOK' /\ VersionsFit' /\ changes' \in Nat
    BY <2>1 DEF AuditsInv, Audits!TypeOK, VersionsFit
  <2>3. CachesFit' /\ LoadFits'
    BY <2>1 DEF AuditsInv, CachesFit, LoadFits, EntryFits, Right, Covered, Audits!Truth
  <2>4. Audits!CurrentWhenQuiet(Covered)'
    BY <2>1 DEF AuditsInv, Audits!CurrentWhenQuiet, Covered, Audits!Truth
  <2> QED BY <2>2, <2>3, <2>4 DEF AuditsInv
<1>2. CASE Audits!Next
  BY <1>2, ChangeKeeps, BeginKeeps, ReadFilesKeeps, LookUpKeeps, FinishKeeps, RestartKeeps,
     ValidateKeeps, StoreKeeps DEF Audits!Next
<1> QED BY <1>1, <1>2

\* Audits are as current as the files, the validator and the schema they were
\* checked with, across loads those changed under and across restarts
\* (knowledgeReviews.ts, loadAllUncached with its two caches).
THEOREM AuditsAreCurrentHolds ==
    ASSUME AuditLimits
    PROVE  Audits!Spec => []Audits!AuditsAreCurrent
<1>1. Audits!Init => AuditsInv
  BY AuditsInit
<1>2. AuditsInv /\ [Audits!Next]_Audits!vars => AuditsInv'
  BY AuditsNext
<1>3. AuditsInv => Audits!AuditsAreCurrent
  BY DEF AuditsInv, Audits!AuditsAreCurrent, Covered, Audits!CurrentWhenQuiet
<1> QED BY <1>1, <1>2, <1>3, PTL DEF Audits!Spec

-----------------------------------------------------------------------------
(* Live view *)

CONSTANTS Runs, Missing, DebounceMs, MaxWaitMs, MaxWrites, MaxFlight
VARIABLES watch, scan, stream, refresh, flight, app, calm

Live == INSTANCE LiveView

\* A task id is none of the words that stand for no run; the timers are counted in ticks.
LiveLimits == {"none", "idle", "list"} \cap Runs = {} /\ DebounceMs \in Nat /\ MaxWaitMs \in Nat

Versions == {Live!Unread} \cup Nat

LiveTypes ==
    /\ disk \in Nat
    /\ watch \in [debounce : Int, cap : Int, age : Int]
    /\ scan \in [cache : Versions, now : Versions]
    /\ stream \in [phase : {"connecting", "open", "closed"}, updates : Nat, outages : Nat]
    /\ refresh \in [at : {"idle", "list"} \cup Runs, ver : Versions, aborted : BOOLEAN]
    /\ flight \subseteq [what : {"list", "detail"}, run : Runs \cup {"none"}, ver : Versions]
    /\ app \in [selected : Runs \cup {"none"}, list : Versions,
                detail : [run : Runs \cup {"none"}, ver : Versions], loading : BOOLEAN, error : BOOLEAN]

\* Both timers are set or none, and the cap counts down what the age counts up.
Timed ==
    \/ watch = Live!AtRest
    \/ /\ watch.debounce \in Nat /\ watch.cap \in Nat /\ watch.age \in Nat
       /\ watch.age + watch.cap = MaxWaitMs

Fresh(v) == v = Live!Unread \/ v = disk

\* Whatever was read is current; the listing shown is, or an update or a refresh is on its
\* way.  So it is with no change unsent when the last update found nothing under way.
AllFresh ==
    /\ Fresh(scan.cache) /\ Fresh(scan.now)
    /\ refresh.at = "list" => Fresh(refresh.ver)
    /\ \A f \in flight : f.what = "list" => Fresh(f.ver)
    /\ refresh.at \in Runs => Fresh(app.list)
    /\ stream.outages = 0 => Fresh(app.list) \/ stream.updates > 0 \/ refresh.at = "list"

LiveInv ==
    /\ LiveTypes /\ Timed /\ calm \in BOOLEAN
    /\ refresh.at = "idle" => refresh = Live!Idle
    /\ stream.phase = "closed" => stream.outages > 0
    /\ calm => ~refresh.aborted
    /\ calm /\ ~Live!Pending => AllFresh

LEMMA LiveStart ==
    ASSUME LiveLimits, Live!Init
    PROVE  LiveInv
<1>1. LiveTypes
  BY DEF Live!Init, Live!AtRest, Live!Unread, Live!Off, Live!Idle, Live!Ask, Live!NoDetail, Live!None,
         LiveTypes, Versions
<1>2. Timed /\ refresh = Live!Idle /\ ~refresh.aborted /\ stream.phase = "connecting" /\ calm \in BOOLEAN
  BY DEF Live!Init, Timed, Live!Idle
<1>3. AllFresh
  BY DEF Live!Init, AllFresh, Fresh, LiveLimits, Live!Idle, Live!Ask, Live!Unread
<1> QED BY <1>1, <1>2, <1>3 DEF LiveInv

\* The server: what changes the versions, and what sends them on.
LEMMA ChangeIsKept ==
    ASSUME LiveLimits, LiveInv, Live!Write
    PROVE  LiveInv'
<1>1. /\ UNCHANGED <<scan, stream, refresh, flight, app, calm>>
      /\ disk' = disk + 1 /\ watch' = Live!Queued(watch)
      /\ watch.debounce # 0 /\ watch.cap # 0
  BY DEF Live!Write, Live!Due
<1>2. LiveTypes /\ Timed
  BY DEF LiveInv
<1>3. /\ watch' \in [debounce : Int, cap : Int, age : Int]
      /\ watch'.debounce = DebounceMs /\ watch'.age = watch.age
      /\ watch'.cap = IF watch.cap = -1 THEN MaxWaitMs ELSE watch.cap
  <2>1. PICK cap \in Int : cap = IF watch.cap = -1 THEN MaxWaitMs ELSE watch.cap
    BY <1>2 DEF LiveTypes, LiveLimits
  <2>2. watch' = [watch EXCEPT !.debounce = DebounceMs, !.cap = cap]
    BY <1>1, <2>1 DEF Live!Queued, Live!Off
  <2>3. watch \in [debounce : Int, cap : Int, age : Int] /\ DebounceMs \in Int
    BY <1>2 DEF LiveTypes, LiveLimits
  <2>4. watch' = [debounce |-> DebounceMs, cap |-> cap, age |-> watch.age]
    BY <2>2, <2>3
  <2> QED BY <2>1, <2>3, <2>4
<1>4. Timed'
  BY <1>2, <1>3 DEF Timed, Live!AtRest, Live!Off, LiveLimits
<1>5. Live!Pending'
  BY <1>3 DEF Live!Pending, Live!Off, LiveLimits
<1>6. LiveTypes'
  BY <1>1, <1>2, <1>3 DEF LiveTypes
<1> QED BY <1>1, <1>4, <1>5, <1>6 DEF LiveInv, Live!Idle

LEMMA TickKeeps ==
    ASSUME LiveLimits, LiveInv, Live!Tick
    PROVE  LiveInv'
<1>1. /\ UNCHANGED <<disk, scan, stream, refresh, flight, app, calm>>
      /\ watch' = [debounce |-> watch.debounce - 1, cap |-> watch.cap - 1, age |-> watch.age + 1]
      /\ watch.debounce # -1 /\ watch.debounce # 0 /\ watch.cap # 0
  BY DEF Live!Tick, Live!Due, Live!Pending, Live!Off
<1>2. LiveTypes /\ Timed
  BY DEF LiveInv
<1>3. /\ watch'.debounce = watch.debounce - 1 /\ watch'.cap = watch.cap - 1 /\ watch'.age = watch.age + 1
      /\ watch.debounce \in Nat /\ watch.cap \in Nat /\ watch.age \in Nat
      /\ watch.age + watch.cap = MaxWaitMs
  BY <1>1, <1>2 DEF Timed, Live!AtRest, Live!Off
<1>4. Timed' /\ Live!Pending' /\ watch' \in [debounce : Int, cap : Int, age : Int]
  BY <1>1, <1>3 DEF Timed, Live!Pending, Live!Off
<1>5. LiveTypes'
  BY <1>1, <1>2, <1>4 DEF LiveTypes
<1> QED BY <1>1, <1>4, <1>5 DEF LiveInv, Live!Idle

LEMMA FlushKeeps ==
    ASSUME LiveLimits, LiveInv, Live!Flush
    PROVE  LiveInv'
<1>1. /\ UNCHANGED <<disk, refresh, flight, app>>
      /\ watch' = Live!AtRest /\ scan' = [scan EXCEPT !.cache = Live!Unread]
      /\ stream' = IF stream.phase = "open" THEN [stream EXCEPT !.updates = stream.updates + 1] ELSE stream
      /\ calm' = Live!Undisturbed
  BY DEF Live!Flush, Live!Invalidated
<1>2. LiveTypes
  BY DEF LiveInv
<1>3. /\ scan' \in [cache : Versions, now : Versions]
      /\ scan'.cache = Live!Unread /\ scan'.now = scan.now
  BY <1>1, <1>2 DEF LiveTypes, Versions
<1>4. /\ stream' \in [phase : {"connecting", "open", "closed"}, updates : Nat, outages : Nat]
      /\ stream'.phase = stream.phase /\ stream'.outages = stream.outages
      /\ stream.phase = "open" => stream'.updates > 0
  BY <1>1, <1>2 DEF LiveTypes
<1>5. watch' \in [debounce : Int, cap : Int, age : Int] /\ Timed'
  BY <1>1 DEF Live!AtRest, Live!Off, Timed
<1>6. LiveTypes'
  BY <1>1, <1>2, <1>3, <1>4, <1>5 DEF LiveTypes
<1>7. calm' \in BOOLEAN
  BY <1>1 DEF Live!Undisturbed
<1>8. ASSUME calm' PROVE ~refresh'.aborted /\ AllFresh'
  <2>1. refresh = Live!Idle /\ scan.now = Live!Unread /\ flight = {} /\ stream.phase # "connecting"
    BY <1>1, <1>8 DEF Live!Undisturbed
  <2>2. stream.outages = 0 => stream.phase = "open"
    BY <1>2, <2>1 DEF LiveInv, LiveTypes
  <2> QED BY <1>1, <1>3, <1>4, <2>1, <2>2 DEF AllFresh, Fresh, Live!Idle, LiveLimits
<1> QED BY <1>1, <1>4, <1>5, <1>6, <1>7, <1>8 DEF LiveInv, Live!Idle

LEMMA ScanKeeps ==
    ASSUME LiveLimits, LiveInv, Live!BeginScan \/ Live!EndScan \/ Live!CacheLapses
    PROVE  LiveInv'
<1>1. UNCHANGED <<disk, watch, stream, refresh, flight, app, calm>>
  BY DEF Live!BeginScan, Live!EndScan, Live!CacheLapses
<1>2. LiveTypes
  BY DEF LiveInv
<1>3. /\ scan' \in [cache : Versions, now : Versions]
      /\ scan'.cache \in {scan.cache, scan.now, Live!Unread}
      /\ scan'.now \in {scan.now, Live!Unread, disk}
  BY <1>2 DEF Live!BeginScan, Live!EndScan, Live!CacheLapses, LiveTypes, Versions
<1>4. LiveTypes'
  BY <1>1, <1>2, <1>3 DEF LiveTypes
<1>5. Timed' /\ (Live!Pending' <=> Live!Pending)
  BY <1>1 DEF LiveInv, Timed, Live!Pending, Live!AtRest
<1>6. calm /\ ~Live!Pending => AllFresh'
  BY <1>1, <1>3 DEF LiveInv, AllFresh, Fresh
<1> QED BY <1>1, <1>4, <1>5, <1>6 DEF LiveInv, Live!Idle

LEMMA ServeKeeps ==
    ASSUME LiveLimits, LiveInv, Live!Serve
    PROVE  LiveInv'
<1>1. UNCHANGED <<disk, watch, scan, stream, app, calm>> /\ LiveTypes
  BY DEF Live!Serve, LiveInv
<1>2. \A what : /\ Live!Answer(what) \in Versions
                /\ calm /\ ~Live!Pending /\ what = "list" => Fresh(Live!Answer(what))
  BY <1>1 DEF Live!Answer, LiveInv, LiveTypes, AllFresh, Versions
<1>3. Timed' /\ (Live!Pending' <=> Live!Pending)
  BY <1>1 DEF LiveInv, Timed, Live!Pending, Live!AtRest
<1>4. ASSUME refresh.at # "idle", refresh' = [refresh EXCEPT !.ver = Live!Answer(refresh.at)], flight' = flight
      PROVE  LiveInv'
  <2>1. PICK v \in Versions : v = Live!Answer(refresh.at)
    BY <1>2
  <2>2. /\ refresh' \in [at : {"idle", "list"} \cup Runs, ver : Versions, aborted : BOOLEAN]
        /\ refresh'.at = refresh.at /\ refresh'.ver = v /\ refresh'.aborted = refresh.aborted
    BY <1>1, <1>4, <2>1 DEF LiveTypes
  <2>3. LiveTypes'
    BY <1>1, <1>4, <2>2 DEF LiveTypes
  <2>4. calm /\ ~Live!Pending => AllFresh'
    BY <1>1, <1>2, <1>4, <2>1, <2>2 DEF LiveInv, AllFresh, Fresh
  <2> QED BY <1>1, <1>3, <1>4, <2>2, <2>3, <2>4 DEF LiveInv, Live!Idle
<1>5. ASSUME NEW f \in flight, refresh' = refresh,
             flight' = (flight \ {f}) \union {[f EXCEPT !.ver = Live!Answer(f.what)]}
      PROVE  LiveInv'
  <2>1. PICK v \in Versions : v = Live!Answer(f.what)
    BY <1>2
  <2> DEFINE g == [f EXCEPT !.ver = v]
  <2>2. /\ g \in [what : {"list", "detail"}, run : Runs \cup {"none"}, ver : Versions]
        /\ g.what = f.what /\ g.ver = v
    BY <1>1, <2>1 DEF LiveTypes
  <2>3. flight' = (flight \ {f}) \union {g}
    BY <1>5, <2>1
  <2> HIDE DEF g
  <2>4. LiveTypes'
    BY <1>1, <1>5, <2>2, <2>3 DEF LiveTypes
  <2>5. calm /\ ~Live!Pending /\ g.what = "list" => Fresh(g.ver)
    BY <1>2, <2>1, <2>2
  <2>6. calm /\ ~Live!Pending => AllFresh'
    BY <1>1, <1>5, <2>3, <2>5 DEF LiveInv, AllFresh, Fresh
  <2> QED BY <1>1, <1>3, <1>5, <2>4, <2>6 DEF LiveInv, Live!Idle
<1> QED BY <1>4, <1>5 DEF Live!Serve

LEMMA StreamKeeps ==
    ASSUME LiveLimits, LiveInv, Live!Opens \/ Live!Drops
    PROVE  LiveInv'
<1>1. UNCHANGED <<disk, watch, scan, refresh, flight, app, calm>> /\ LiveTypes
  BY DEF Live!Opens, Live!Drops, LiveInv
<1>2. /\ stream' \in [phase : {"connecting", "open", "closed"}, updates : Nat, outages : Nat]
      /\ stream'.phase = "closed" => stream'.outages > 0
      /\ stream'.outages = 0 => stream.outages = 0 /\ stream'.updates = stream.updates
  BY <1>1 DEF Live!Opens, Live!Drops, LiveTypes
<1>3. LiveTypes'
  BY <1>1, <1>2 DEF LiveTypes
<1>4. Timed' /\ (Live!Pending' <=> Live!Pending)
  BY <1>1 DEF LiveInv, Timed, Live!Pending, Live!AtRest
<1>5. calm /\ ~Live!Pending => AllFresh'
  BY <1>1, <1>2 DEF LiveInv, AllFresh, Fresh
<1> QED BY <1>1, <1>2, <1>3, <1>4, <1>5 DEF LiveInv, Live!Idle

\* The client: what asks for versions, and what shows them.
LEMMA DeliverKeeps ==
    ASSUME LiveLimits, LiveInv, Live!Deliver
    PROVE  LiveInv'
<1>1. /\ UNCHANGED <<disk, watch, scan, flight, app, calm>> /\ LiveTypes
      /\ stream' = [stream EXCEPT !.updates = stream.updates - 1] /\ stream.updates > 0
      /\ refresh' = IF refresh = Live!Idle THEN [Live!Idle EXCEPT !.at = "list"] ELSE refresh
  BY DEF Live!Deliver, LiveInv
<1>2. /\ stream' \in [phase : {"connecting", "open", "closed"}, updates : Nat, outages : Nat]
      /\ stream'.phase = stream.phase /\ stream'.outages = stream.outages
  BY <1>1 DEF LiveTypes
<1>3. \/ refresh = Live!Idle /\ refresh' = [at |-> "list", ver |-> Live!Unread, aborted |-> FALSE]
      \/ refresh # Live!Idle /\ refresh' = refresh
  BY <1>1 DEF Live!Idle
<1>4. LiveTypes'
  BY <1>1, <1>2, <1>3 DEF LiveTypes, Versions
<1>5. Timed' /\ (Live!Pending' <=> Live!Pending)
  BY <1>1 DEF LiveInv, Timed, Live!Pending, Live!AtRest
<1>6. calm /\ ~Live!Pending => AllFresh'
  <2>1. CASE refresh = Live!Idle
    BY <1>1, <1>2, <1>3, <2>1 DEF LiveInv, AllFresh, Fresh, LiveLimits
  <2>2. CASE refresh # Live!Idle
    BY <1>1, <1>2, <1>3, <2>2 DEF LiveInv, AllFresh, Fresh, LiveTypes
  <2> QED BY <2>1, <2>2
<1> QED BY <1>1, <1>2, <1>3, <1>4, <1>5, <1>6 DEF LiveInv, Live!Idle

LEMMA ShownTypes ==
    ASSUME LiveTypes, NEW v \in Versions, NEW r \in Runs \cup {"none"}
    PROVE  LET Apps == [selected : Runs \cup {"none"}, list : Versions,
                        detail : [run : Runs \cup {"none"}, ver : Versions], loading : BOOLEAN, error : BOOLEAN]
           IN  /\ Live!Listed(app, v) \in Apps /\ Live!Listed(app, v).list = v
               /\ Live!Listed(app, v).selected = app.selected
               /\ Live!Detailed(app, r, v) \in Apps /\ Live!Detailed(app, r, v).list = app.list
               /\ \A a \in Apps : Live!Asking(a) \in Apps /\ Live!Asking(a).list = a.list
<1>1. Live!NoDetail \in [run : Runs \cup {"none"}, ver : Versions]
  BY DEF Live!NoDetail, Live!None, Versions
<1>2. [run |-> r, ver |-> v] \in [run : Runs \cup {"none"}, ver : Versions]
  OBVIOUS
<1>3. app \in [selected : Runs \cup {"none"}, list : Versions,
               detail : [run : Runs \cup {"none"}, ver : Versions], loading : BOOLEAN, error : BOOLEAN]
  BY DEF LiveTypes
<1> QED BY <1>1, <1>2, <1>3 DEF Live!Listed, Live!Detailed, Live!Asking

LEMMA RefreshListedKeeps ==
    ASSUME LiveLimits, LiveInv, Live!RefreshListed
    PROVE  LiveInv'
<1>1. UNCHANGED <<disk, watch, scan, stream, flight, calm>> /\ LiveTypes /\ refresh.at = "list"
  BY DEF Live!RefreshListed, LiveInv
<1> DEFINE v == refresh.ver
           a == IF refresh.aborted THEN app ELSE Live!Listed(app, v)
           Apps == [selected : Runs \cup {"none"}, list : Versions,
                    detail : [run : Runs \cup {"none"}, ver : Versions], loading : BOOLEAN, error : BOOLEAN]
<1>2. \/ app' = a /\ refresh' = Live!Idle
      \/ /\ a.selected # "none"
         /\ app' = Live!Asking(a) /\ refresh' = [refresh EXCEPT !.at = a.selected, !.ver = Live!Unread]
  BY <1>1 DEF Live!RefreshListed, Live!None
<1>3. v \in Versions
  BY <1>1 DEF LiveTypes
<1>4. a \in Apps /\ Live!Asking(a) \in Apps /\ Live!Asking(a).list = a.list
      /\ (~refresh.aborted => a.list = v)
  <2>1. app \in Apps
    BY <1>1 DEF LiveTypes
  <2> QED BY <1>1, <1>3, <2>1, ShownTypes
<1>5. app' \in Apps /\ (~refresh.aborted => app'.list = v)
  BY <1>2, <1>4
<1> HIDE DEF v, a
<1>6. /\ refresh' \in [at : {"idle", "list"} \cup Runs, ver : Versions, aborted : BOOLEAN]
      /\ refresh'.at # "list" /\ (refresh'.aborted => refresh.aborted)
      /\ refresh' = Live!Idle \/ refresh'.at # "idle"
  <2>1. CASE refresh' = Live!Idle
    BY <2>1 DEF Live!Idle, Versions
  <2>2. CASE a.selected # "none" /\ refresh' = [refresh EXCEPT !.at = a.selected, !.ver = Live!Unread]
    <3>1. a.selected \in Runs
      BY <1>4, <2>2
    <3> QED BY <1>1, <2>2, <3>1 DEF LiveTypes, Versions, LiveLimits
  <2> QED BY <1>2, <2>1, <2>2
<1>7. LiveTypes'
  BY <1>1, <1>5, <1>6 DEF LiveTypes
<1>8. Timed' /\ (Live!Pending' <=> Live!Pending)
  BY <1>1 DEF LiveInv, Timed, Live!Pending, Live!AtRest
<1>9. calm /\ ~Live!Pending => AllFresh'
  BY <1>1, <1>5, <1>6 DEF LiveInv, AllFresh, Fresh, v
<1> QED BY <1>1, <1>6, <1>7, <1>8, <1>9 DEF LiveInv, Live!Idle

LEMMA RefreshDetailedKeeps ==
    ASSUME LiveLimits, LiveInv, Live!RefreshDetailed
    PROVE  LiveInv'
<1>1. UNCHANGED <<disk, watch, scan, stream, flight, calm>> /\ LiveTypes
      /\ refresh.at \in Runs /\ refresh' = Live!Idle
      /\ app' = IF refresh.aborted THEN [app EXCEPT !.loading = FALSE]
                ELSE Live!Detailed(app, refresh.at, refresh.ver)
  BY DEF Live!RefreshDetailed, LiveInv
<1>2. /\ app' \in [selected : Runs \cup {"none"}, list : Versions,
                   detail : [run : Runs \cup {"none"}, ver : Versions], loading : BOOLEAN, error : BOOLEAN]
      /\ app'.list = app.list
  <2>1. refresh.ver \in Versions
    BY <1>1 DEF LiveTypes
  <2>2. CASE refresh.aborted
    BY <1>1, <2>2 DEF LiveTypes
  <2>3. CASE ~refresh.aborted
    BY <1>1, <2>1, <2>3, ShownTypes
  <2> QED BY <2>2, <2>3
<1>3. LiveTypes'
  BY <1>1, <1>2 DEF LiveTypes, Live!Idle, Versions
<1>4. Timed' /\ (Live!Pending' <=> Live!Pending)
  BY <1>1 DEF LiveInv, Timed, Live!Pending, Live!AtRest
<1>5. calm /\ ~Live!Pending => AllFresh'
  BY <1>1, <1>2 DEF LiveInv, AllFresh, Fresh, Live!Idle, LiveLimits
<1> QED BY <1>1, <1>3, <1>4, <1>5 DEF LiveInv, Live!Idle

LEMMA ReceiveKeeps ==
    ASSUME LiveLimits, LiveInv, Live!Receive
    PROVE  LiveInv'
<1>1. UNCHANGED <<disk, watch, scan, stream, refresh, calm>> /\ LiveTypes
  BY DEF Live!Receive, LiveInv
<1>2. PICK f \in flight : /\ flight' = flight \ {f}
                          /\ app' = IF f.what = "list" THEN Live!Listed(app, f.ver)
                                    ELSE Live!Detailed(app, f.run, f.ver)
  BY DEF Live!Receive
<1>3. /\ app' \in [selected : Runs \cup {"none"}, list : Versions,
                   detail : [run : Runs \cup {"none"}, ver : Versions], loading : BOOLEAN, error : BOOLEAN]
      /\ app'.list = IF f.what = "list" THEN f.ver ELSE app.list
  <2>1. f.ver \in Versions /\ f.run \in Runs \cup {"none"}
    BY <1>1 DEF LiveTypes
  <2> QED BY <1>1, <1>2, <2>1, ShownTypes
<1>4. LiveTypes'
  BY <1>1, <1>2, <1>3 DEF LiveTypes
<1>5. Timed' /\ (Live!Pending' <=> Live!Pending)
  BY <1>1 DEF LiveInv, Timed, Live!Pending, Live!AtRest
<1>6. calm /\ ~Live!Pending => AllFresh'
  BY <1>1, <1>2, <1>3 DEF LiveInv, AllFresh, Fresh
<1> QED BY <1>1, <1>4, <1>5, <1>6 DEF LiveInv, Live!Idle

LEMMA SelectKeeps ==
    ASSUME LiveLimits, LiveInv, Live!Select
    PROVE  LiveInv'
<1>1. UNCHANGED <<disk, watch, scan, stream>> /\ LiveTypes
  BY DEF Live!Select, LiveInv
<1>2. PICK r \in Runs : /\ app' = Live!Asking([app EXCEPT !.selected = r])
                        /\ flight' = flight \union {Live!Ask("detail", r)}
  BY DEF Live!Select
<1>3. /\ app' \in [selected : Runs \cup {"none"}, list : Versions,
                   detail : [run : Runs \cup {"none"}, ver : Versions], loading : BOOLEAN, error : BOOLEAN]
      /\ app'.list = app.list
  BY <1>1, <1>2 DEF LiveTypes, Live!Asking
<1>4. /\ flight' \subseteq [what : {"list", "detail"}, run : Runs \cup {"none"}, ver : Versions]
      /\ \A f \in flight' : f.what = "list" => f \in flight
  BY <1>1, <1>2 DEF LiveTypes, Live!Ask, Versions
<1>5. refresh' = IF refresh = Live!Idle THEN Live!Idle ELSE [refresh EXCEPT !.aborted = TRUE]
  BY DEF Live!Select
<1>6. /\ refresh' \in [at : {"idle", "list"} \cup Runs, ver : Versions, aborted : BOOLEAN]
      /\ refresh'.at = refresh.at /\ (refresh'.at = "idle" => refresh' = Live!Idle)
      /\ refresh = Live!Idle => refresh' = refresh
  BY <1>1, <1>5 DEF LiveTypes, LiveInv
<1>7. calm' \in BOOLEAN /\ (calm' => calm /\ refresh' = refresh)
  <2>1. calm' = (calm /\ refresh = Live!Idle)
    BY DEF Live!Select
  <2>2. CASE calm /\ refresh = Live!Idle
    BY <1>5, <2>1, <2>2
  <2>3. CASE ~(calm /\ refresh = Live!Idle)
    BY <2>1, <2>3
  <2> QED BY <2>2, <2>3
<1>8. LiveTypes'
  BY <1>1, <1>3, <1>4, <1>6 DEF LiveTypes
<1>9. Timed' /\ (Live!Pending' <=> Live!Pending)
  BY <1>1 DEF LiveInv, Timed, Live!Pending, Live!AtRest
<1>10. calm' /\ ~Live!Pending => AllFresh'
  BY <1>1, <1>3, <1>4, <1>7 DEF LiveInv, AllFresh, Fresh
<1> QED BY <1>1, <1>6, <1>7, <1>8, <1>9, <1>10 DEF LiveInv

LEMMA ReloadKeeps ==
    ASSUME LiveLimits, LiveInv, Live!Reload
    PROVE  LiveInv'
<1>1. UNCHANGED <<disk, watch, scan, stream, refresh, calm>> /\ LiveTypes
  BY DEF Live!Reload, LiveInv
<1>2. /\ app' \in [selected : Runs \cup {"none"}, list : Versions,
                   detail : [run : Runs \cup {"none"}, ver : Versions], loading : BOOLEAN, error : BOOLEAN]
      /\ app'.list = app.list
  BY <1>1 DEF Live!Reload, LiveTypes, Live!Asking
<1>3. /\ flight' \subseteq [what : {"list", "detail"}, run : Runs \cup {"none"}, ver : Versions]
      /\ \A f \in flight' : f \in flight \/ f.ver = Live!Unread
  <2>1. \A what \in {"list", "detail"}, r \in Runs \cup {"none"} :
          /\ Live!Ask(what, r) \in [what : {"list", "detail"}, run : Runs \cup {"none"}, ver : Versions]
          /\ Live!Ask(what, r).ver = Live!Unread
    BY DEF Live!Ask, Versions
  <2>2. app.selected \in Runs \cup {"none"}
    BY <1>1 DEF LiveTypes
  <2> QED BY <1>1, <2>1, <2>2 DEF LiveTypes, Live!Reload, Live!None
<1>4. LiveTypes'
  BY <1>1, <1>2, <1>3 DEF LiveTypes
<1>5. Timed' /\ (Live!Pending' <=> Live!Pending)
  BY <1>1 DEF LiveInv, Timed, Live!Pending, Live!AtRest
<1>6. calm /\ ~Live!Pending => AllFresh'
  BY <1>1, <1>2, <1>3 DEF LiveInv, AllFresh, Fresh
<1> QED BY <1>1, <1>4, <1>5, <1>6 DEF LiveInv, Live!Idle

LEMMA LiveNext ==
    ASSUME LiveLimits, LiveInv, [Live!Next]_Live!vars
    PROVE  LiveInv'
<1>1. CASE UNCHANGED Live!vars
  BY <1>1 DEF Live!vars, LiveInv, LiveTypes, Timed, AllFresh, Fresh, Live!Pending, Live!AtRest, Live!Idle
<1>2. CASE Live!Next
  BY <1>2, ChangeIsKept, TickKeeps, FlushKeeps, ScanKeeps, ServeKeeps, StreamKeeps, DeliverKeeps,
     RefreshListedKeeps, RefreshDetailedKeeps, ReceiveKeeps, SelectKeeps, ReloadKeeps DEF Live!Next
<1> QED BY <1>1, <1>2

\* Constant writes put no update off for longer than the cap.  Whatever updates were dropped
\* and refreshes aborted before, on a stream that never dropped the listing is the current
\* one once everything has settled, if the last update found nothing else under way and its
\* refresh was not aborted (watcher.ts queueUpdate, App.tsx onRunsChanged).
THEOREM UpdatesReachTheScreenHolds ==
    ASSUME LiveLimits PROVE Live!Spec => []Live!UpdatesReachTheScreen
<1>1. Live!Init => LiveInv
  BY LiveStart
<1>2. LiveInv /\ [Live!Next]_Live!vars => LiveInv'
  BY LiveNext
<1>3. ASSUME LiveInv PROVE Live!UpdatesReachTheScreen
  <2>1. watch.age <= MaxWaitMs
    BY <1>3 DEF LiveInv, Timed, Live!AtRest, LiveLimits
  <2>2. ASSUME calm, ~Live!Pending, stream.updates = 0, stream.outages = 0, refresh = Live!Idle, app.list > 0
        PROVE  app.list = disk
    <3>1. Fresh(app.list)
      BY <1>3, <2>2 DEF LiveInv, AllFresh, Live!Idle
    <3>2. app.list # Live!Unread
      BY <2>2 DEF Live!Unread
    <3> QED BY <3>1, <3>2 DEF Fresh
  <2> QED BY <2>1, <2>2 DEF Live!UpdatesReachTheScreen
<1> QED BY <1>1, <1>2, <1>3, PTL DEF Live!Spec

-----------------------------------------------------------------------------
(* Views that load *)

CONSTANTS Selectable, Guard, MaxLoads
VARIABLES world, untold, chosen, loads, shown, error, kept, isOpen

Loading == INSTANCE ViewLoads

\* What is chosen in a view is always something, and there are loads to spare.
ViewRecord == [choice : Selectable \cup {"none"}, at : Nat]
LoadRecord == [choice : Selectable, at : Nat, underWay : BOOLEAN]

\* Only the newest request counts, and it reads no earlier than what is on the screen.
ViewInv ==
    /\ world \in Nat \ {0} /\ chosen \in Selectable /\ loads \in Seq(LoadRecord)
    /\ shown \in ViewRecord /\ kept \in ViewRecord /\ isOpen \in BOOLEAN
    /\ shown.at <= world /\ kept.at <= world
    /\ \A i \in DOMAIN loads : loads[i].underWay =>
          /\ i = Len(loads) /\ isOpen
          /\ loads[i].at = 0 \/ (shown.at <= loads[i].at /\ loads[i].at <= world)

LEMMA SentFits ==
    ASSUME Guard = "abort", loads \in Seq(LoadRecord), NEW choice \in Selectable
    PROVE  LET given == Loading!GivenUp(loads)
               sent == Loading!Sent(choice)
           IN  /\ given \in Seq(LoadRecord) /\ Len(given) = Len(loads)
               /\ \A i \in DOMAIN given : ~given[i].underWay
               /\ sent \in Seq(LoadRecord)
               /\ \A i \in DOMAIN sent : sent[i].underWay => i = Len(sent) /\ sent[i].at = 0
<1> DEFINE given == Loading!GivenUp(loads)
           new == [choice |-> choice, at |-> 0, underWay |-> TRUE]
<1>1. given = [i \in DOMAIN loads |-> [loads[i] EXCEPT !.underWay = FALSE]]
  BY DEF Loading!GivenUp
<1>2. \A i \in DOMAIN loads : LET g == [loads[i] EXCEPT !.underWay = FALSE]
                              IN  g \in LoadRecord /\ ~g.underWay
  <2>1. \A i \in DOMAIN loads : loads[i] \in LoadRecord
    OBVIOUS
  <2> QED BY <2>1 DEF LoadRecord
<1>3. /\ given \in Seq(LoadRecord) /\ Len(given) = Len(loads)
      /\ \A i \in DOMAIN given : ~given[i].underWay
  <2>1. DOMAIN loads = 1..Len(loads) /\ Len(loads) \in Nat
    OBVIOUS
  <2>2. /\ given \in [1..Len(loads) -> LoadRecord]
        /\ \A i \in 1..Len(loads) : ~given[i].underWay
    BY <1>1, <1>2, <2>1
  <2> HIDE DEF given
  <2> QED BY <2>1, <2>2
<1>4. Loading!Sent(choice) = Append(given, new) /\ new \in LoadRecord
  BY DEF Loading!Sent, LoadRecord
<1> HIDE DEF given, new
<1>5. LET sent == Append(given, new)
      IN  /\ sent \in Seq(LoadRecord)
          /\ \A i \in DOMAIN sent : sent[i] = IF i = Len(sent) THEN new ELSE given[i]
          /\ \A i \in DOMAIN sent : i # Len(sent) => i \in DOMAIN given
  BY <1>3, <1>4
<1> QED BY <1>3, <1>4, <1>5 DEF given, new

LEMMA ViewMoves ==
    ASSUME Guard = "abort", ViewInv, [Loading!Next]_Loading!vars
    PROVE  ViewInv' /\ Loading!GoesForward
<1>1. /\ world \in Nat \ {0} /\ chosen \in Selectable /\ loads \in Seq(LoadRecord)
      /\ shown \in ViewRecord /\ kept \in ViewRecord /\ isOpen \in BOOLEAN
      /\ shown.at \in Nat /\ kept.at \in Nat
      /\ \A i \in DOMAIN loads : loads[i] \in LoadRecord /\ loads[i].at \in Nat
  <2>1. \A i \in DOMAIN loads : loads[i] \in LoadRecord
    BY DEF ViewInv
  <2> QED BY <2>1 DEF ViewInv, ViewRecord, LoadRecord
<1>2. CASE UNCHANGED Loading!vars
  BY <1>1, <1>2 DEF ViewInv, Loading!vars, Loading!GoesForward
<1>3. CASE Loading!Changes
  BY <1>1, <1>3 DEF ViewInv, Loading!Changes, Loading!GoesForward
<1>4. CASE Loading!Refreshes
  BY <1>1, <1>4, SentFits DEF ViewInv, Loading!Refreshes, Loading!GoesForward
<1>5. ASSUME NEW choice \in Selectable, Loading!Chooses(choice)
      PROVE  ViewInv' /\ Loading!GoesForward
  BY <1>1, <1>5, SentFits DEF ViewInv, Loading!Chooses, Loading!GoesForward
<1>6. CASE Loading!Closes
  <2>1. Loading!Nothing \in ViewRecord /\ Loading!Nothing.at = 0
    BY DEF Loading!Nothing, ViewRecord
  <2>2. /\ UNCHANGED <<world, chosen, kept>> /\ isOpen' = FALSE
        /\ loads' = Loading!GivenUp(loads) /\ shown' = Loading!Nothing
    BY <1>6 DEF Loading!Closes
  <2>3. loads' \in Seq(LoadRecord) /\ \A i \in DOMAIN loads' : ~loads'[i].underWay
    BY <1>1, <2>2, SentFits
  <2>4. shown' \in ViewRecord /\ shown'.at <= world
    BY <1>1, <2>1, <2>2
  <2>5. kept' \in ViewRecord /\ kept'.at <= world' /\ shown'.at <= world'
    BY <2>2, <2>4 DEF ViewInv
  <2>6. ViewInv'
    BY <1>1, <2>2, <2>3, <2>4, <2>5 DEF ViewInv
  <2> QED BY <2>2, <2>6 DEF Loading!GoesForward
<1>7. CASE Loading!Opens
  BY <1>1, <1>7, SentFits DEF ViewInv, Loading!Opens, Loading!GoesForward
<1>8. ASSUME NEW i \in DOMAIN loads, Loading!Answers(i)
      PROVE  ViewInv' /\ Loading!GoesForward
  <2>1. /\ UNCHANGED <<world, chosen, shown, kept, isOpen>> /\ loads[i].underWay
        /\ loads' = [loads EXCEPT ![i] = [loads[i] EXCEPT !.at = world]]
    BY <1>8 DEF Loading!Answers
  <2>2. LET l == [loads[i] EXCEPT !.at = world]
        IN  l \in LoadRecord /\ l.at = world
    BY <1>1 DEF LoadRecord
  <2>3. /\ loads' \in Seq(LoadRecord) /\ Len(loads') = Len(loads)
        /\ \A j \in DOMAIN loads' : j # i => loads'[j] = loads[j]
        /\ loads'[i].at = world /\ DOMAIN loads' = DOMAIN loads
    <3>1. PICK new \in LoadRecord : /\ loads' = [loads EXCEPT ![i] = new]
                                    /\ new.at = world
      BY <2>1, <2>2
    <3>2. DOMAIN loads = 1..Len(loads) /\ Len(loads) \in Nat /\ loads \in [1..Len(loads) -> LoadRecord]
      BY <1>1
    <3> QED BY <3>1, <3>2
  <2> QED BY <1>1, <2>1, <2>3 DEF ViewInv, Loading!GoesForward
<1>9. ASSUME NEW i \in DOMAIN loads, Loading!Lands(i) \/ Loading!Fails(i)
      PROVE  ViewInv' /\ Loading!GoesForward
  <2>1. /\ UNCHANGED <<world, chosen, isOpen>> /\ loads[i].underWay
        /\ loads' = [loads EXCEPT ![i] = [loads[i] EXCEPT !.underWay = FALSE]]
        /\ \/ UNCHANGED <<shown, kept>>
           \/ /\ shown' = [choice |-> loads[i].choice, at |-> loads[i].at] /\ kept' = shown'
              /\ loads[i].at # 0
    BY <1>9 DEF Loading!Lands, Loading!Fails
  <2>2. LET l == [loads[i] EXCEPT !.underWay = FALSE]
        IN  l \in LoadRecord /\ ~l.underWay
    BY <1>1 DEF LoadRecord
  <2>3. /\ loads' \in Seq(LoadRecord) /\ Len(loads') = Len(loads)
        /\ \A j \in DOMAIN loads' : j # i => loads'[j] = loads[j]
        /\ ~loads'[i].underWay /\ DOMAIN loads' = DOMAIN loads
    <3>1. PICK new \in LoadRecord : /\ loads' = [loads EXCEPT ![i] = new]
                                    /\ ~new.underWay
      BY <2>1, <2>2
    <3>2. DOMAIN loads = 1..Len(loads) /\ Len(loads) \in Nat /\ loads \in [1..Len(loads) -> LoadRecord]
      BY <1>1
    <3> QED BY <3>1, <3>2
  <2>4. i = Len(loads) /\ (loads[i].at = 0 \/ (shown.at <= loads[i].at /\ loads[i].at <= world))
    BY <2>1 DEF ViewInv
  <2>5. \A j \in DOMAIN loads' : ~loads'[j].underWay
    BY <2>1, <2>3 DEF ViewInv
  <2>6. /\ shown' \in ViewRecord /\ kept' \in ViewRecord
        /\ shown'.at <= world /\ kept'.at <= world /\ shown'.at >= shown.at
    BY <1>1, <2>1, <2>4 DEF ViewInv, ViewRecord, LoadRecord
  <2> QED BY <1>1, <2>1, <2>3, <2>5, <2>6 DEF ViewInv, Loading!GoesForward
<1> QED BY <1>2, <1>3, <1>4, <1>5, <1>6, <1>7, <1>8, <1>9 DEF Loading!Next, Loading!Loads

\* An answer that was overtaken never comes back over a newer one, in the views that give the
\* older requests up (FlowView.tsx 41, ReviewView.tsx 157: controller.abort).
THEOREM NeverBackwardsHolds ==
    ASSUME Guard = "abort"
    PROVE  Loading!Spec => Loading!NeverBackwards
<1>1. Loading!Init => ViewInv
  <2> SUFFICES ASSUME Loading!Init PROVE ViewInv
    OBVIOUS
  <2>1. /\ world = 1 /\ chosen \in Selectable /\ shown = Loading!Nothing /\ kept = Loading!Nothing
        /\ loads = <<[choice |-> chosen, at |-> 0, underWay |-> TRUE]>> /\ isOpen = TRUE
    BY DEF Loading!Init
  <2>2. Loading!Nothing \in ViewRecord /\ Loading!Nothing.at = 0
    BY DEF Loading!Nothing, ViewRecord
  <2>3. [choice |-> chosen, at |-> 0, underWay |-> TRUE] \in LoadRecord
    BY <2>1 DEF LoadRecord
  <2>4. /\ loads \in Seq(LoadRecord) /\ Len(loads) = 1
        /\ \A i \in DOMAIN loads : i = 1 /\ loads[i].at = 0
    BY <2>1, <2>3
  <2> QED BY <2>1, <2>2, <2>4 DEF ViewInv
<1>2. ViewInv /\ [Loading!Next]_Loading!vars => ViewInv'
  BY ViewMoves
<1>3. ViewInv /\ [Loading!Next]_Loading!vars => [Loading!GoesForward]_Loading!vars
  BY ViewMoves
<1> QED BY <1>1, <1>2, <1>3, PTL DEF Loading!Spec, Loading!NeverBackwards

-----------------------------------------------------------------------------
(* The live map *)

CONSTANTS Tasks, Zones, NoZone, MaxMoves, MaxVisits, Bursts
VARIABLES told, prevZone, flows, logs, visits, moves

Map == INSTANCE CommandMap

\* An open map compares with what it shows, or with nothing; a closed one loads nothing.
MapInv ==
    /\ visits \in Nat
    /\ Map!Open => prevZone = Map!Unknown \/ prevZone = shown
    /\ ~Map!Open => prevZone = Map!Unknown /\ ~load.on
    /\ load.on /\ load.done => load.read \in [Tasks -> Map!AllZones]
    /\ world \in [Tasks -> Map!AllZones] /\ shown \in [Tasks -> Map!AllZones]
    /\ cache \in [Tasks -> Map!AllZones]

LEMMA LandingDraws ==
    ASSUME MapInv, Map!Lands, Map!Open, prevZone # Map!Unknown, NEW t \in Tasks
    PROVE  LET drawn == {f \in flows' \ flows : f.task = t}
           IN  /\ drawn \subseteq {Map!Flow(t, shown[t], shown'[t])}
               /\ (shown[t] # shown'[t] /\ NoZone \notin {shown[t], shown'[t]}) =>
                     Map!Flow(t, shown[t], shown'[t]) \in flows'
<1>1. /\ prevZone = shown /\ shown' = load.read
      /\ flows' = flows \cup Map!NewFlows(load.read)
  BY DEF MapInv, Map!Lands
<1>2. \A f \in Map!NewFlows(load.read) : f.task = t => f = Map!Flow(t, shown[t], shown'[t])
  <2> SUFFICES ASSUME NEW f \in Map!NewFlows(load.read), f.task = t
               PROVE  f = Map!Flow(t, shown[t], shown'[t])
    OBVIOUS
  <2>1. PICK u \in Tasks : f = Map!Flow(u, prevZone[u], load.read[u])
    BY DEF Map!NewFlows
  <2>2. f.task = u
    BY <2>1 DEF Map!Flow
  <2> QED BY <1>1, <2>1, <2>2
<1>3. (shown[t] # shown'[t] /\ NoZone \notin {shown[t], shown'[t]}) =>
         Map!Flow(t, shown[t], shown'[t]) \in Map!NewFlows(load.read)
  BY <1>1 DEF Map!NewFlows
<1> QED BY <1>1, <1>2, <1>3

LEMMA MapSteps ==
    ASSUME MapInv, [Map!Next]_Map!vars
    PROVE  MapInv' /\ Map!DrawsMoves
<1>1. Map!Unknown \in [Tasks -> Map!AllZones]
  BY DEF Map!Unknown, Map!AllZones
<1>2. CASE UNCHANGED Map!vars
  BY <1>2 DEF Map!vars, MapInv, Map!DrawsMoves, Map!Open
<1>3. ASSUME NEW t \in Tasks, NEW z \in Map!AllZones, Map!Moves(t, z)
      PROVE  MapInv' /\ Map!DrawsMoves
  BY <1>3 DEF Map!Moves, MapInv, Map!DrawsMoves, Map!Open
<1>4. CASE Map!Hears
  BY <1>4 DEF Map!Hears, MapInv, Map!DrawsMoves, Map!Open, Map!Loading
<1>5. CASE Map!Reads
  <2>1. /\ UNCHANGED <<world, shown, prevZone, cache, visits>>
        /\ load' = [[load EXCEPT !.read = world] EXCEPT !.done = TRUE]
    BY <1>5 DEF Map!Reads
  <2>2. load'.on /\ load'.done => load'.read \in [Tasks -> Map!AllZones]
    BY <1>5, <2>1 DEF Map!Reads, MapInv
  <2> QED BY <2>1, <2>2 DEF MapInv, Map!DrawsMoves, Map!Open
<1>6. CASE Map!Lands
  <2>1. MapInv'
    BY <1>6 DEF Map!Lands, Map!NextZone, MapInv, Map!NotLoading, Map!Open
  <2> QED BY <1>6, <2>1, LandingDraws DEF Map!DrawsMoves
<1>7. CASE Map!Fails
  BY <1>7 DEF Map!Fails, MapInv, Map!DrawsMoves, Map!Open, Map!NotLoading
<1>8. CASE Map!Leaves
  BY <1>1, <1>8 DEF Map!Leaves, MapInv, Map!DrawsMoves, Map!NotLoading
<1>9. CASE Map!Returns
  <2>1. ~Map!Open /\ visits' = visits + 1 /\ load' = Map!Loading({})
        /\ shown' = cache /\ UNCHANGED <<world, prevZone, cache>>
    BY <1>9 DEF Map!Returns
  <2>2. prevZone = Map!Unknown /\ visits' \in Nat
    BY <2>1 DEF MapInv
  <2>3. Map!Open'
    BY <2>1 DEF Map!Open, MapInv
  <2>4. MapInv'
    BY <2>1, <2>2, <2>3 DEF MapInv, Map!Loading, Map!Unknown, Map!AllZones
  <2> QED BY <2>1, <2>4 DEF Map!DrawsMoves
<1>10. ASSUME NEW f \in flows, Map!LineEnds(f)
       PROVE  MapInv' /\ Map!DrawsMoves
  BY <1>10 DEF Map!LineEnds, MapInv, Map!DrawsMoves, Map!Open
<1> QED BY <1>2, <1>3, <1>4, <1>5, <1>6, <1>7, <1>8, <1>9, <1>10 DEF Map!Next

\* A line is drawn exactly for a move the screen saw, from the zone shown before to the one
\* shown now (CommandView.tsx: prevZoneRef, addFlow).
THEOREM LinesAreMovesHolds == Map!Spec => Map!LinesAreMoves
<1>1. Map!Init => MapInv
  <2> SUFFICES ASSUME Map!Init PROVE MapInv
    OBVIOUS
  <2>1. /\ world \in [Tasks -> Zones] /\ load = Map!Loading({}) /\ visits = 1
        /\ shown = Map!Unknown /\ prevZone = Map!Unknown /\ cache = Map!Unknown
    BY DEF Map!Init
  <2>2. Map!Open
    BY <2>1 DEF Map!Open
  <2> QED BY <2>1, <2>2 DEF MapInv, Map!Loading, Map!Unknown, Map!AllZones
<1>2. MapInv /\ [Map!Next]_Map!vars => MapInv'
  BY MapSteps
<1>3. MapInv /\ [Map!Next]_Map!vars => [Map!DrawsMoves]_Map!vars
  BY MapSteps
<1> QED BY <1>1, <1>2, <1>3, PTL DEF Map!Spec, Map!LinesAreMoves

-----------------------------------------------------------------------------
(* Catching up after a gap *)

CONSTANTS MaxWorld
VARIABLES missed, open, sawOpen, closedAfterOpen, awaiting, data, armed, animate, placed

Catch == INSTANCE CatchUp

\* A latch that is off has nothing missed to place: the stream is open, its reload has
\* arrived, and both the data and the robots have every change of a gap.
CatchInv ==
    /\ world \in Nat /\ data \in Nat /\ placed \in Nat /\ load \in Nat \cup {Catch!None, Catch!Unread}
    /\ {open, sawOpen, closedAfterOpen, awaiting, armed, animate} \subseteq BOOLEAN
    /\ missed \subseteq Nat /\ (~sawOpen => missed = {} /\ ~open)
    /\ \A v \in missed : v <= world
    /\ ~open /\ sawOpen => closedAfterOpen /\ armed
    /\ awaiting => armed
    /\ open /\ load \in Nat => \A v \in missed : v <= load
    /\ open /\ ~awaiting => \A v \in missed : v <= data
    /\ ~armed => \A v \in missed : v <= placed

LEMMA CatchNext ==
    ASSUME CatchInv, [Catch!Next]_Catch!vars
    PROVE  CatchInv'
<1>1. Catch!None \notin Nat /\ Catch!Unread \notin Nat /\ Catch!None # Catch!Unread
  BY DEF Catch!None, Catch!Unread
<1>2. CASE UNCHANGED Catch!vars
  BY <1>2 DEF Catch!vars, Catch!phase, CatchInv
<1>3. CASE Catch!StreamOpens
  <2>1. CASE sawOpen
    <3>1. /\ UNCHANGED <<world, missed, data, animate, placed>>
          /\ open' = TRUE /\ sawOpen' = TRUE /\ closedAfterOpen' = FALSE
          /\ armed' = TRUE /\ awaiting' = TRUE /\ load' = Catch!Unread
      BY <1>3, <2>1 DEF Catch!StreamOpens, CatchInv
    <3> QED BY <1>1, <3>1 DEF CatchInv
  <2>2. CASE ~sawOpen
    <3>1. /\ UNCHANGED <<world, missed, data, animate, placed, load>>
          /\ open' = TRUE /\ sawOpen' = TRUE /\ closedAfterOpen' = FALSE
          /\ armed' = armed /\ awaiting' = awaiting /\ missed = {}
      BY <1>3, <2>2 DEF Catch!StreamOpens, CatchInv
    <3> QED BY <3>1 DEF CatchInv
  <2> QED BY <2>1, <2>2
<1>4. CASE Catch!StreamCloses
  <2>1. /\ UNCHANGED <<world, missed, sawOpen, awaiting, load, data, animate, placed>>
        /\ open /\ open' = FALSE /\ sawOpen
        /\ closedAfterOpen' = TRUE /\ armed' = TRUE
    BY <1>4 DEF Catch!StreamCloses, CatchInv
  <2> QED BY <2>1 DEF CatchInv
<1>5. CASE Catch!Change
  <2>1. /\ UNCHANGED <<open, sawOpen, closedAfterOpen, awaiting, load, data, armed, animate, placed>>
        /\ world' = world + 1
        /\ missed' = missed \/ (~open /\ sawOpen /\ missed' = missed \cup {world + 1})
    BY <1>5 DEF Catch!Change, Catch!phase
  <2>2. CASE missed' = missed
    BY <2>1, <2>2 DEF CatchInv
  <2>3. CASE ~open /\ sawOpen /\ missed' = missed \cup {world + 1}
    BY <2>1, <2>3 DEF CatchInv
  <2> QED BY <2>1, <2>2, <2>3
<1>6. CASE Catch!Load
  BY <1>1, <1>6 DEF Catch!Load, Catch!phase, CatchInv
<1>7. CASE Catch!Reads
  BY <1>1, <1>7 DEF Catch!Reads, Catch!phase, CatchInv
<1>8. CASE Catch!Arrives
  <2>1. /\ UNCHANGED <<world, missed, open, sawOpen, closedAfterOpen, armed, animate, placed>>
        /\ load >= 0 /\ data' = load /\ load' = Catch!None /\ awaiting' = FALSE
    BY <1>8 DEF Catch!Arrives, Catch!phase
  <2>2. load \in Nat
    BY <2>1 DEF CatchInv, Catch!None, Catch!Unread
  <2> QED BY <1>1, <2>1, <2>2 DEF CatchInv
<1>9. CASE Catch!Fails
  BY <1>1, <1>9 DEF Catch!Fails, Catch!phase, CatchInv
<1>10. CASE Catch!Frame
  <2>1. /\ UNCHANGED <<world, missed, open, sawOpen, closedAfterOpen, awaiting, load, data, animate>>
        /\ placed' = data /\ armed' = ((armed \/ ~animate) /\ ~(animate /\ open /\ ~awaiting))
    BY <1>10 DEF Catch!Frame, Catch!phase, Catch!Clears
  <2>2. armed' \in BOOLEAN
    BY <2>1
  <2>3. ~armed' => (open /\ ~awaiting) \/ missed = {}
    BY <2>1 DEF CatchInv
  <2>4. armed => (armed' <=> ~(animate /\ open /\ ~awaiting))
    BY <2>1
  <2> QED BY <2>1, <2>2, <2>3, <2>4 DEF CatchInv
<1>11. ASSUME NEW now \in BOOLEAN, Catch!Visible(now)
       PROVE  CatchInv'
  <2>1. /\ UNCHANGED <<world, missed, open, sawOpen, closedAfterOpen, awaiting, load, data, placed>>
        /\ animate' = now /\ armed' \in BOOLEAN /\ (armed => armed')
    BY <1>11 DEF Catch!Visible, Catch!phase
  <2> QED BY <2>1 DEF CatchInv
<1> QED BY <1>2, <1>3, <1>4, <1>5, <1>6, <1>7, <1>8, <1>9, <1>10, <1>11 DEF Catch!Next

\* No robot walks for a change made in a gap of the stream: the next frame places it
\* (officeCatchUp.ts, with Office3DView.tsx's reload).
THEOREM GapsArePlacedHolds == Catch!Spec => []Catch!GapsArePlaced
<1>1. Catch!Init => CatchInv
  <2> SUFFICES ASSUME Catch!Init PROVE CatchInv
    OBVIOUS
  <2>1. /\ world = 0 /\ missed = {} /\ open \in BOOLEAN /\ sawOpen = open /\ closedAfterOpen = FALSE
        /\ awaiting = FALSE /\ load = -1 /\ data = 0 /\ armed = FALSE /\ animate = TRUE /\ placed = 0
    BY DEF Catch!Init, Catch!None
  <2>2. load \in Nat \cup {Catch!None, Catch!Unread} /\ load \notin Nat
    BY <2>1 DEF Catch!None
  <2> QED BY <2>1, <2>2 DEF CatchInv
<1>2. CatchInv /\ [Catch!Next]_Catch!vars => CatchInv'
  BY CatchNext
<1>3. CatchInv => Catch!GapsArePlaced
  BY DEF CatchInv, Catch!GapsArePlaced, Catch!Snaps
<1> QED BY <1>1, <1>2, <1>3, PTL DEF Catch!Spec

-----------------------------------------------------------------------------
(* Production signals *)

CONSTANTS CacheTime, SlowDisk, MaxTime, MaxRequests
VARIABLES now, building, saving, requests

Signals == INSTANCE ProdSignals

ReadRecord == [at : Int, error : BOOLEAN]
RequestRecord == [refresh : BOOLEAN, state : {"loading", "waiting", "answered", "lost"}, asked : Nat,
                  got : ReadRecord, ended : Int, refreshing : BOOLEAN]

\* The read in memory is what is being saved, and while somebody loads the saved one it is
\* that or nothing.
ReadsFit ==
    /\ now \in Nat /\ restarts \in Nat /\ building \in Int
    /\ {cache, disk, saving} \subseteq ReadRecord
    /\ -1 <= cache.at /\ cache.at <= now /\ -1 <= disk.at /\ disk.at <= now
    /\ saving # Signals!None => saving = cache /\ saving.at = now

RequestFits(r) ==
    /\ r.asked <= now
    /\ r.state = "loading" => ~r.refresh /\ saving = Signals!None /\ cache \in {Signals!None, disk}
    /\ r.state = "answered" =>
          /\ r.asked <= r.ended /\ r.ended <= now
          /\ ~r.refreshing => r.got.at >= r.asked \/ r.ended - r.got.at < CacheTime
          /\ r.refresh => r.got.at >= r.asked

\* In one life of the server answers never go back, as the read in memory does not.
Ordered ==
    restarts = 0 => \A i \in DOMAIN requests : requests[i].state = "answered" =>
        /\ requests[i].got.at <= cache.at
        /\ \A j \in DOMAIN requests :
              requests[j].state = "answered" /\ requests[j].ended < requests[i].asked
              => requests[i].got.at >= requests[j].got.at

SigInv ==
    /\ ReadsFit /\ Ordered /\ requests \in Seq(RequestRecord)
    /\ \A i \in DOMAIN requests : RequestFits(requests[i])

LEMMA NoRead == Signals!None \in ReadRecord /\ Signals!None.at = -1
  BY DEF Signals!None, ReadRecord

LEMMA RequestParts ==
    ASSUME NEW r \in RequestRecord
    PROVE  /\ r.asked \in Nat /\ r.ended \in Int /\ r.got \in ReadRecord /\ r.got.at \in Int
           /\ r.refresh \in BOOLEAN /\ r.refreshing \in BOOLEAN
  BY DEF RequestRecord, ReadRecord

\* What is answered is answered with the read in memory, now.
LEMMA OrderMoves ==
    ASSUME SigInv, now' = now, restarts' = restarts, requests' \in Seq(RequestRecord),
           cache' \in ReadRecord, cache.at <= cache'.at,
           \A i \in DOMAIN requests' : requests'[i].asked <= now,
           \A i \in DOMAIN requests' : requests'[i].state = "answered" =>
              \/ i \in DOMAIN requests /\ requests'[i] = requests[i]
              \/ requests'[i].got.at = cache'.at /\ requests'[i].ended = now
    PROVE  Ordered'
<1>1. /\ \A i \in DOMAIN requests : requests[i] \in RequestRecord
      /\ \A i \in DOMAIN requests' : requests'[i] \in RequestRecord
      /\ cache.at \in Int /\ cache'.at \in Int /\ now \in Nat
  BY DEF SigInv, ReadsFit, ReadRecord
<1> SUFFICES ASSUME restarts = 0, NEW i \in DOMAIN requests', requests'[i].state = "answered"
             PROVE  /\ requests'[i].got.at <= cache'.at
                    /\ \A j \in DOMAIN requests' :
                          requests'[j].state = "answered" /\ requests'[j].ended < requests'[i].asked
                          => requests'[i].got.at >= requests'[j].got.at
  BY DEF Ordered
<1>2. \A j \in DOMAIN requests' : requests'[j].state = "answered" => requests'[j].got.at <= cache'.at
  <2> SUFFICES ASSUME NEW j \in DOMAIN requests', requests'[j].state = "answered"
               PROVE  requests'[j].got.at <= cache'.at
    OBVIOUS
  <2>1. CASE j \in DOMAIN requests /\ requests'[j] = requests[j]
    <3>1. requests[j].got.at <= cache.at /\ requests[j].got.at \in Int
      BY <1>1, <2>1, RequestParts DEF SigInv, Ordered
    <3> QED BY <1>1, <2>1, <3>1
  <2>2. CASE requests'[j].got.at = cache'.at
    BY <1>1, <2>2
  <2> QED BY <2>1, <2>2
<1>3. ASSUME NEW j \in DOMAIN requests', requests'[j].state = "answered",
             requests'[j].ended < requests'[i].asked
      PROVE  requests'[i].got.at >= requests'[j].got.at
  <2>1. /\ requests'[j].got.at \in Int /\ requests'[i].asked \in Nat /\ requests'[i].asked <= now
        /\ requests'[j].ended \in Int
    BY <1>1, RequestParts
  <2>2. CASE requests'[i].got.at = cache'.at
    BY <1>1, <1>2, <1>3, <2>1, <2>2
  <2>3. CASE requests'[j].ended = now
    BY <1>1, <1>3, <2>1, <2>3
  <2>4. CASE /\ i \in DOMAIN requests /\ requests'[i] = requests[i]
             /\ j \in DOMAIN requests /\ requests'[j] = requests[j]
    BY <1>3, <2>4 DEF SigInv, Ordered
  <2> QED BY <1>3, <2>2, <2>3, <2>4
<1> QED BY <1>2, <1>3

LEMMA AnsweredFits ==
    ASSUME ReadsFit, NEW r \in RequestRecord, r.asked <= now, NEW read \in ReadRecord,
           read.at <= now, CacheTime \in Int
    PROVE  LET s == Signals!Answered(r, read)
           IN  /\ s \in RequestRecord /\ s.asked = r.asked /\ s.state \in {"answered", "waiting"}
               /\ s.state = "answered" => s.got = read /\ s.ended = now /\ ~s.refresh
               /\ s.state = "answered" /\ ~s.refreshing => s.ended - s.got.at < CacheTime
<1>1. now \in Nat /\ read.at \in Int
  BY DEF ReadsFit, ReadRecord
<1> DEFINE s == Signals!Answered(r, read)
<1>2. CASE r.refresh \/ read = Signals!None
  <2>1. s = [r EXCEPT !.state = "waiting"]
    BY <1>2 DEF Signals!Answered
  <2>2. s \in RequestRecord /\ s.asked = r.asked /\ s.state = "waiting"
    BY <2>1 DEF RequestRecord
  <2> QED BY <2>2
<1>3. CASE ~(r.refresh \/ read = Signals!None)
  <2>1. PICK stale \in BOOLEAN : stale = ~Signals!Fresh(read)
    BY DEF Signals!Fresh
  <2>2. s = [r EXCEPT !.state = "answered", !.got = read, !.ended = now, !.refreshing = stale]
    BY <1>3, <2>1 DEF Signals!Answered
  <2>3. s = [refresh |-> r.refresh, state |-> "answered", asked |-> r.asked, got |-> read, ended |-> now,
             refreshing |-> stale]
    BY <2>2 DEF RequestRecord
  <2>4. /\ s \in RequestRecord /\ s.asked = r.asked /\ s.state = "answered" /\ s.got = read /\ s.ended = now
        /\ s.refresh = r.refresh /\ s.refreshing = stale
    BY <1>1, <2>1, <2>3 DEF RequestRecord
  <2>5. ~stale => now - read.at < CacheTime
    BY <2>1 DEF Signals!Fresh
  <2> QED BY <1>3, <2>4, <2>5
<1> QED BY <1>2, <1>3

LEMMA RequestKeeps ==
    ASSUME CacheTime \in Int, SigInv, NEW again \in BOOLEAN, Signals!Request(again)
    PROVE  SigInv'
<1> DEFINE r == [refresh |-> again, state |-> "loading", asked |-> now, got |-> Signals!None, ended |-> -1,
                 refreshing |-> FALSE]
<1>1. UNCHANGED <<now, cache, disk, saving, restarts>> /\ building' \in {building, now}
  BY DEF Signals!Request
<1>2. r \in RequestRecord /\ r.asked = now /\ r.state = "loading" /\ r.refresh = again
  BY DEF RequestRecord, ReadRecord, Signals!None, SigInv, ReadsFit
<1>3. \/ ~again /\ cache = Signals!None /\ requests' = Append(requests, r)
      \/ requests' = Append(requests, Signals!Answered(r, cache))
  BY DEF Signals!Request
<1> HIDE DEF r
<1>4. PICK new \in RequestRecord :
         /\ requests' = Append(requests, new) /\ new.asked = now
         /\ \/ new.state = "loading" /\ ~new.refresh /\ cache = Signals!None
            \/ new.state = "waiting"
            \/ /\ new.state = "answered" /\ new.got = cache /\ new.ended = now
               /\ ~new.refresh /\ (~new.refreshing => new.ended - new.got.at < CacheTime)
  <2>1. ReadsFit /\ cache \in ReadRecord /\ cache.at <= now /\ r.asked <= now
    BY <1>2 DEF SigInv, ReadsFit
  <2> QED BY <1>2, <1>3, <2>1, AnsweredFits
<1>5. /\ requests \in Seq(RequestRecord) /\ requests' \in Seq(RequestRecord)
      /\ \A i \in DOMAIN requests' : \/ i \in DOMAIN requests /\ requests'[i] = requests[i]
                                     \/ requests'[i] = new
  BY <1>4 DEF SigInv
<1>6. ReadsFit'
  BY <1>1 DEF SigInv, ReadsFit
<1>7. cache.at \in Int /\ now \in Nat /\ cache \in ReadRecord /\ new.asked \in Nat /\ cache.at <= now
      /\ (cache = Signals!None => saving = Signals!None)
  BY <1>4, RequestParts DEF SigInv, ReadsFit, ReadRecord
<1>8. RequestFits(new)
  BY <1>4, <1>7 DEF RequestFits
<1>9. \A i \in DOMAIN requests' : RequestFits(requests'[i])
  BY <1>5, <1>8 DEF SigInv
<1>10. \A i \in DOMAIN requests' : RequestFits(requests[i])'
  BY <1>1, <1>9 DEF RequestFits
<1>11. Ordered'
  <2>1. \A i \in DOMAIN requests' : requests'[i].asked <= now
    BY <1>9 DEF RequestFits
  <2>2. \A i \in DOMAIN requests' : requests'[i].state = "answered" =>
              \/ i \in DOMAIN requests /\ requests'[i] = requests[i]
              \/ requests'[i].got.at = cache'.at /\ requests'[i].ended = now
    BY <1>1, <1>4, <1>5
  <2> QED BY <1>1, <1>5, <1>7, <2>1, <2>2, OrderMoves
<1> QED BY <1>5, <1>6, <1>10, <1>11 DEF SigInv

LEMMA LoadsKeeps ==
    ASSUME CacheTime \in Int, SigInv, NEW k \in DOMAIN requests, Signals!Loads(k)
    PROVE  SigInv'
<1> DEFINE read == IF disk # Signals!None THEN disk ELSE cache
<1>1. /\ UNCHANGED <<now, disk, saving, restarts>> /\ building' \in {building, now}
      /\ cache' = read /\ requests' = [requests EXCEPT ![k] = Signals!Answered(requests[k], read)]
      /\ requests[k].state = "loading"
  BY DEF Signals!Loads
<1>2. /\ requests \in Seq(RequestRecord) /\ requests[k] \in RequestRecord
      /\ saving = Signals!None /\ cache \in {Signals!None, disk} /\ requests[k].asked <= now
      /\ ~requests[k].refresh
  BY <1>1 DEF SigInv, RequestFits
<1>3. /\ read \in ReadRecord /\ read.at <= now /\ cache.at <= read.at /\ -1 <= read.at
      /\ read \in {Signals!None, disk}
  BY <1>2 DEF SigInv, ReadsFit, Signals!None, ReadRecord
<1> HIDE DEF read
<1>4. PICK new \in RequestRecord :
         /\ requests' = [requests EXCEPT ![k] = new] /\ new.asked = requests[k].asked
         /\ \/ new.state = "waiting"
            \/ /\ new.state = "answered" /\ new.got = read /\ new.ended = now /\ ~new.refresh
               /\ ~new.refreshing => new.ended - new.got.at < CacheTime
  BY <1>1, <1>2, <1>3, AnsweredFits DEF SigInv
<1>5. /\ requests' \in Seq(RequestRecord) /\ DOMAIN requests' = DOMAIN requests
      /\ \A i \in DOMAIN requests : requests'[i] = IF i = k THEN new ELSE requests[i]
  BY <1>2, <1>4
<1>6. ReadsFit'
  BY <1>1, <1>2, <1>3 DEF SigInv, ReadsFit
<1>7. now \in Nat /\ read.at \in Int /\ cache.at \in Int /\ new.asked \in Nat /\ new.asked <= now
  BY <1>2, <1>3, <1>4, RequestParts DEF SigInv, ReadsFit, ReadRecord
<1>8. \A i \in DOMAIN requests' : RequestFits(requests[i])'
  <2>1. RequestFits(requests[k])'
    BY <1>1, <1>4, <1>5, <1>7 DEF RequestFits
  <2>2. \A i \in DOMAIN requests : i # k => RequestFits(requests[i])'
    BY <1>1, <1>2, <1>3, <1>5 DEF SigInv, RequestFits
  <2> QED BY <1>5, <2>1, <2>2
<1>9. Ordered'
  <2>1. \A i \in DOMAIN requests' : requests'[i].asked <= now
    BY <1>1, <1>8 DEF RequestFits
  <2>2. \A i \in DOMAIN requests' : requests'[i].state = "answered" =>
              \/ i \in DOMAIN requests /\ requests'[i] = requests[i]
              \/ requests'[i].got.at = cache'.at /\ requests'[i].ended = now
    BY <1>1, <1>4, <1>5
  <2> QED BY <1>1, <1>3, <1>5, <2>1, <2>2, OrderMoves
<1> QED BY <1>5, <1>6, <1>8, <1>9 DEF SigInv

LEMMA BuildEndsKeeps ==
    ASSUME ~SlowDisk, SigInv, NEW failed \in BOOLEAN, Signals!BuildEnds(failed)
    PROVE  SigInv'
<1>1. /\ UNCHANGED <<now, disk, building, requests, restarts>>
      /\ cache' = [at |-> now, error |-> failed] /\ saving' = cache'
      /\ \A i \in DOMAIN requests : requests[i].state # "loading"
  BY DEF Signals!BuildEnds
<1>2. /\ cache' \in ReadRecord /\ cache'.at = now /\ now \in Nat /\ cache.at \in Int /\ cache.at <= now
      /\ requests \in Seq(RequestRecord)
  BY <1>1 DEF SigInv, ReadsFit, ReadRecord
<1>3. ReadsFit'
  BY <1>1, <1>2 DEF SigInv, ReadsFit
<1>4. \A i \in DOMAIN requests : RequestFits(requests[i])'
  BY <1>1 DEF SigInv, RequestFits
<1>5. Ordered'
  BY <1>1, <1>2, OrderMoves DEF SigInv, RequestFits
<1> QED BY <1>1, <1>2, <1>3, <1>4, <1>5 DEF SigInv

LEMMA SavedKeeps ==
    ASSUME SigInv, Signals!Saved
    PROVE  SigInv'
<1> DEFINE Answer(r) == [r EXCEPT !.state = "answered", !.got = saving, !.ended = now]
<1>1. /\ UNCHANGED <<now, cache, restarts>> /\ building' = -1 /\ saving' = Signals!None
      /\ disk' \in {disk, saving} /\ saving # Signals!None
      /\ requests' = [i \in DOMAIN requests |-> IF requests[i].state = "waiting" THEN Answer(requests[i])
                                                ELSE requests[i]]
  BY DEF Signals!Saved
<1>2. /\ saving = cache /\ saving.at = now /\ saving \in ReadRecord /\ now \in Nat /\ cache.at \in Int
      /\ requests \in Seq(RequestRecord) /\ Signals!None \in ReadRecord
  <2>1. saving = cache /\ saving.at = now /\ saving \in ReadRecord /\ now \in Nat /\ requests \in Seq(RequestRecord)
    BY <1>1 DEF SigInv, ReadsFit
  <2>2. cache.at \in Int
    BY <2>1 DEF ReadRecord
  <2> QED BY <2>1, <2>2, NoRead
<1>3. \A i \in DOMAIN requests : /\ requests[i] \in RequestRecord /\ requests[i].asked <= now
                                 /\ requests[i].state # "loading"
  <2>1. \A i \in DOMAIN requests : requests[i] \in RequestRecord
    BY <1>2
  <2> QED BY <1>1, <2>1 DEF SigInv, RequestFits
<1>4. \A r \in RequestRecord : /\ Answer(r) \in RequestRecord /\ Answer(r).asked = r.asked
                               /\ Answer(r).state = "answered" /\ Answer(r).got = saving
                               /\ Answer(r).ended = now
  BY <1>2 DEF RequestRecord
<1> HIDE DEF Answer
<1>5. /\ requests' \in Seq(RequestRecord) /\ DOMAIN requests' = DOMAIN requests
      /\ \A i \in DOMAIN requests :
            requests'[i] = IF requests[i].state = "waiting" THEN Answer(requests[i]) ELSE requests[i]
  <2>1. DOMAIN requests = 1..Len(requests) /\ Len(requests) \in Nat
    BY <1>2
  <2>2. requests' \in [1..Len(requests) -> RequestRecord]
    BY <1>1, <1>3, <1>4, <2>1
  <2> QED BY <1>1, <2>1, <2>2
<1>6. ReadsFit'
  BY <1>1, <1>2 DEF SigInv, ReadsFit
<1>7. \A i \in DOMAIN requests' : RequestFits(requests[i])'
  <2> SUFFICES ASSUME NEW i \in DOMAIN requests PROVE RequestFits(requests[i])'
    BY <1>5
  <2>1. CASE requests[i].state = "waiting"
    <3>1. /\ requests'[i].asked = requests[i].asked /\ requests'[i].state = "answered"
          /\ requests'[i].got = saving /\ requests'[i].ended = now /\ requests[i].asked \in Nat
      BY <1>3, <1>4, <1>5, <2>1, RequestParts
    <3> QED BY <1>1, <1>2, <1>3, <3>1 DEF RequestFits
  <2>2. CASE requests[i].state # "waiting"
    BY <1>1, <1>3, <1>5, <2>2 DEF SigInv, RequestFits
  <2> QED BY <2>1, <2>2
<1>8. Ordered'
  <2>1. \A i \in DOMAIN requests' : requests'[i].asked <= now
    BY <1>1, <1>7 DEF RequestFits
  <2>2. \A i \in DOMAIN requests' : requests'[i].state = "answered" =>
              \/ i \in DOMAIN requests /\ requests'[i] = requests[i]
              \/ requests'[i].got.at = cache'.at /\ requests'[i].ended = now
    BY <1>1, <1>2, <1>3, <1>4, <1>5
  <2> QED BY <1>1, <1>2, <1>5, <2>1, <2>2, OrderMoves
<1> QED BY <1>5, <1>6, <1>7, <1>8 DEF SigInv

LEMMA RestartLoses ==
    ASSUME SigInv, Signals!Restart
    PROVE  SigInv'
<1> DEFINE Lost(r) == [r EXCEPT !.state = "lost"]
<1>1. /\ UNCHANGED <<now, disk>> /\ restarts' = restarts + 1
      /\ cache' = Signals!None /\ building' = -1 /\ saving' = Signals!None
      /\ requests' = [i \in DOMAIN requests |-> IF requests[i].state \in {"loading", "waiting"}
                                                THEN Lost(requests[i]) ELSE requests[i]]
  BY DEF Signals!Restart, Signals!Open
<1>2. requests \in Seq(RequestRecord) /\ now \in Nat /\ restarts \in Nat
  BY DEF SigInv, ReadsFit
<1>3. \A r \in RequestRecord : Lost(r) \in RequestRecord /\ Lost(r).asked = r.asked /\ Lost(r).state = "lost"
  BY DEF RequestRecord
<1> HIDE DEF Lost
<1>4. \A i \in DOMAIN requests : requests[i] \in RequestRecord
  BY <1>2
<1>5. /\ requests' \in Seq(RequestRecord) /\ DOMAIN requests' = DOMAIN requests
      /\ \A i \in DOMAIN requests : /\ requests'[i].asked = requests[i].asked
                                    /\ requests'[i] = requests[i] \/ requests'[i].state = "lost"
                                    /\ requests'[i].state # "loading"
  <2>1. DOMAIN requests = 1..Len(requests) /\ Len(requests) \in Nat
    BY <1>2
  <2>2. requests' \in [1..Len(requests) -> RequestRecord]
    BY <1>1, <1>3, <1>4, <2>1
  <2> QED BY <1>1, <1>3, <1>4, <2>1, <2>2
<1>6. ReadsFit'
  BY <1>1, <1>2 DEF SigInv, ReadsFit, ReadRecord, Signals!None
<1>7. \A i \in DOMAIN requests' : RequestFits(requests[i])'
  BY <1>1, <1>5 DEF SigInv, RequestFits
<1>8. Ordered'
  BY <1>1, <1>2 DEF Ordered
<1> QED BY <1>5, <1>6, <1>7, <1>8 DEF SigInv

LEMMA ClockMoves ==
    ASSUME SigInv, Signals!Tick
    PROVE  SigInv'
<1>1. UNCHANGED <<cache, disk, building, saving, requests, restarts>> /\ now' = now + 1 /\ saving = Signals!None
  BY DEF Signals!Tick
<1>2. requests \in Seq(RequestRecord) /\ now \in Nat
  BY DEF SigInv, ReadsFit
<1>3. ReadsFit'
  BY <1>1 DEF SigInv, ReadsFit, ReadRecord
<1>4. \A i \in DOMAIN requests : RequestFits(requests[i])'
  <2> SUFFICES ASSUME NEW i \in DOMAIN requests PROVE RequestFits(requests[i])'
    OBVIOUS
  <2>1. requests[i].asked \in Nat /\ requests[i].ended \in Int /\ RequestFits(requests[i])
    BY <1>2, RequestParts DEF SigInv
  <2> QED BY <1>1, <1>2, <2>1 DEF RequestFits
<1>5. Ordered'
  BY <1>1 DEF SigInv, Ordered
<1> QED BY <1>1, <1>2, <1>3, <1>4, <1>5 DEF SigInv

\* An answer not marked as being refreshed is recent, a refresh is answered by a later read,
\* and in one life of the server no answer goes back behind an earlier one, when no read ends
\* while the saved one is loaded (prodSignals.ts, ProdSignalsService.get).
THEOREM AnswersAreCurrentHolds ==
    ASSUME CacheTime \in Int, ~SlowDisk
    PROVE  Signals!Spec => []Signals!AnswersAreCurrent
<1>1. ASSUME Signals!Init PROVE SigInv
  <2>1. /\ now = 0 /\ cache = Signals!None /\ saving = Signals!None /\ building = -1 /\ restarts = 0
        /\ disk \in {Signals!None, [at |-> 0, error |-> FALSE]} /\ requests = <<>>
    BY <1>1 DEF Signals!Init
  <2>2. ReadsFit
    <3>1. [at |-> 0, error |-> FALSE] \in ReadRecord
      BY DEF ReadRecord
    <3>2. disk \in ReadRecord /\ -1 <= disk.at /\ disk.at <= 0
      <4>1. CASE disk = Signals!None
        BY <4>1, NoRead
      <4>2. CASE disk = [at |-> 0, error |-> FALSE]
        BY <3>1, <4>2
      <4> QED BY <2>1, <4>1, <4>2
    <3> QED BY <2>1, <3>2, NoRead DEF ReadsFit
  <2>3. requests \in Seq(RequestRecord) /\ DOMAIN requests = {}
    BY <2>1
  <2> QED BY <2>2, <2>3 DEF SigInv, Ordered
<1>2. ASSUME SigInv, [Signals!Next]_Signals!vars PROVE SigInv'
  <2>1. CASE UNCHANGED Signals!vars
    BY <1>2, <2>1 DEF Signals!vars, SigInv, ReadsFit, Ordered, RequestFits
  <2>2. CASE Signals!Next
    BY <1>2, <2>2, RequestKeeps, LoadsKeeps, BuildEndsKeeps, SavedKeeps, RestartLoses, ClockMoves
    DEF Signals!Next
  <2> QED BY <1>2, <2>1, <2>2
<1>3. SigInv => Signals!AnswersAreCurrent
  BY DEF SigInv, RequestFits, Ordered, Signals!AnswersAreCurrent
<1> QED BY <1>1, <1>2, <1>3, PTL DEF Signals!Spec

-----------------------------------------------------------------------------
(* Who takes the steps of a task *)

CONSTANTS Writers, CLIs, Cap, MaxLaunches, ReviewsFollow
VARIABLES launches, pruned

Pairing == INSTANCE ChainPairing

ChainRoles == Writers \cup {"reviewer"}
LaunchRecord == [role : Pairing!Roles, cli : CLIs, state : {"running", "verifying", "good", "bad", "stopped"}]
StepRecord == [role : ChainRoles, cli : CLIs, item : {"waiting", "started", "failed", "cancelled"},
               launch : Nat, outcome : {"none", "good", "bad", "stopped"}]

\* Nobody has a review follow a review: what keeps reviewers and writers apart needs it.
PairLimits == "reviewer" \notin Writers /\ ~ReviewsFollow

\* The last writer among the first k launches was not on this CLI.
Apart(ls, k, cli) ==
    \A w \in 1..k : ls[w].role \in Writers /\ (\A v \in (w + 1)..k : ls[v].role \notin Writers) => ls[w].cli # cli

\* A step the chain went on from; one that was launched; the last of a chain that runs.
GoneOn(ls, s) == s.launch \in DOMAIN ls /\ s.item = "started" /\ s.outcome = "good" /\ ls[s.launch].state = "good"
Launched(ls, s) ==
    s.launch # 0 => s.launch \in DOMAIN ls /\ (PairLimits /\ s.role = "reviewer" => Apart(ls, s.launch - 1, s.cli))
Out(ls, pairing, s) ==
    /\ s.cli = Pairing!cliFor(s.role, pairing)
    /\ \/ s.item = "waiting" /\ s.launch = 0 /\ (PairLimits /\ s.role = "reviewer" => Apart(ls, Len(ls), s.cli))
       \/ /\ s.item = "started" /\ s.launch = Len(ls) /\ Len(ls) > 0
          /\ ls[Len(ls)].role = s.role /\ ls[Len(ls)].cli = s.cli

\* All steps but the last were good, and while the chain runs nothing is launched but its last.
PairInv ==
    /\ launches \in Seq(LaunchRecord)
    /\ chain.pairing \in Pairing!Pairings \cup {Pairing!NoChain.pairing}
    /\ chain.steps \in Seq(StepRecord) /\ chain.ended \in BOOLEAN
    /\ chain = [pairing |-> chain.pairing, steps |-> chain.steps, ended |-> chain.ended]
    /\ \A n \in 1..(Len(chain.steps) - 1) : GoneOn(launches, chain.steps[n])
    /\ \A n \in DOMAIN chain.steps : Launched(launches, chain.steps[n])
    /\ ~chain.ended => /\ chain.pairing \in Pairing!Pairings /\ Len(chain.steps) > 0
                       /\ Out(launches, chain.pairing, chain.steps[Len(chain.steps)])

\* Launches keep their role and CLI, and good ones stay good; others are added.
LaunchesStay ==
    /\ launches' \in Seq(LaunchRecord) /\ Len(launches) <= Len(launches')
    /\ \A l \in DOMAIN launches : /\ launches'[l].role = launches[l].role /\ launches'[l].cli = launches[l].cli
                                  /\ launches[l].state = "good" => launches'[l].state = "good"

LEMMA MaxIsIn ==
    ASSUME NEW n \in Nat, NEW S \in SUBSET (1..n), S # {}
    PROVE  Pairing!Max(S) \in S /\ \A x \in S : Pairing!Max(S) >= x
<1>1. S \subseteq 0..n
  OBVIOUS
<1>2. \E z \in S : \A y \in S : z >= y
  BY <1>1, SomeMax
<1> QED BY <1>2 DEF Pairing!Max

\* What was put down of the launches stays right.
LEMMA StayApart ==
    ASSUME PairInv, LaunchesStay
    PROVE  /\ \A k \in 0..Len(launches), cli \in CLIs : Apart(launches, k, cli) => Apart(launches', k, cli)
           /\ \A s \in StepRecord : GoneOn(launches, s) => GoneOn(launches', s)
           /\ \A s \in StepRecord : Launched(launches, s) => Launched(launches', s)
<1>1. /\ launches \in Seq(LaunchRecord) /\ launches' \in Seq(LaunchRecord)
      /\ Len(launches) \in Nat /\ Len(launches') \in Nat /\ Len(launches) <= Len(launches')
      /\ DOMAIN launches = 1..Len(launches) /\ DOMAIN launches' = 1..Len(launches')
  BY DEF PairInv, LaunchesStay
<1>2. DOMAIN launches \subseteq DOMAIN launches'
  BY <1>1
<1>3. ASSUME NEW k \in 0..Len(launches), NEW cli \in CLIs, Apart(launches, k, cli) PROVE Apart(launches', k, cli)
  <2>1. \A w \in 1..k : launches'[w].role = launches[w].role /\ launches'[w].cli = launches[w].cli
    BY <1>1 DEF LaunchesStay
  <2>2. \A w \in 1..k : \A v \in (w + 1)..k : v \in 1..k
    BY <1>1
  <2> QED BY <1>3, <2>1, <2>2 DEF Apart
<1>4. ASSUME NEW s \in StepRecord, GoneOn(launches, s) PROVE GoneOn(launches', s)
  BY <1>2, <1>4 DEF GoneOn, LaunchesStay
<1>5. ASSUME NEW s \in StepRecord, Launched(launches, s) PROVE Launched(launches', s)
  <2>1. s.launch \in Nat /\ s.cli \in CLIs
    BY DEF StepRecord
  <2>2. CASE s.launch # 0
    <3>1. s.launch \in 1..Len(launches) /\ s.launch - 1 \in 0..Len(launches)
      BY <1>1, <1>5, <2>1, <2>2 DEF Launched
    <3> QED BY <1>2, <1>3, <1>5, <2>1, <2>2, <3>1 DEF Launched
  <2>3. CASE s.launch = 0
    BY <2>3 DEF Launched
  <2> QED BY <2>2, <2>3
<1> QED BY <1>3, <1>4, <1>5

LEMMA Appending ==
    ASSUME launches \in Seq(LaunchRecord), NEW l \in LaunchRecord, launches' = Append(launches, l)
    PROVE  LaunchesStay /\ Len(launches') = Len(launches) + 1 /\ launches'[Len(launches')] = l
  BY DEF LaunchesStay

\* A launch that moves on keeps its role and CLI, and a good one is not moved.
LEMMA LaunchMoves ==
    ASSUME launches \in Seq(LaunchRecord), NEW l \in DOMAIN launches, launches[l].state # "good",
           NEW state \in {"verifying", "good", "bad", "stopped"},
           launches' = [launches EXCEPT ![l].state = state]
    PROVE  LaunchesStay /\ Len(launches') = Len(launches)
<1>1. launches[l] \in LaunchRecord
  OBVIOUS
<1> DEFINE r == [role |-> launches[l].role, cli |-> launches[l].cli, state |-> state]
<1>2. launches' = [launches EXCEPT ![l] = r]
  <2>1. [launches[l] EXCEPT !.state = state] = r
    BY <1>1 DEF LaunchRecord
  <2> HIDE DEF r
  <2> QED BY <2>1
<1>3. r \in LaunchRecord /\ r.role = launches[l].role /\ r.cli = launches[l].cli
  BY <1>1 DEF LaunchRecord
<1> HIDE DEF r
<1> QED BY <1>2, <1>3 DEF LaunchesStay

\* The newest launch was a writer, or nothing was launched.
LEMMA NewestApart ==
    ASSUME PairInv, NEW cli \in CLIs,
           launches # <<>> => launches[Len(launches)].role \in Writers /\ launches[Len(launches)].cli # cli
    PROVE  Apart(launches, Len(launches), cli)
<1>1. Len(launches) \in Nat /\ (Len(launches) = 0 => launches = <<>>)
  BY DEF PairInv
<1>2. ASSUME NEW w \in 1..Len(launches), \A v \in (w + 1)..Len(launches) : launches[v].role \notin Writers
      PROVE  launches[w].cli # cli
  <2>1. CASE w = Len(launches)
    BY <2>1, <1>1, <1>2
  <2>2. CASE w < Len(launches)
    <3>1. Len(launches) \in (w + 1)..Len(launches) /\ launches # <<>>
      BY <1>1, <2>2
    <3> QED BY <1>2, <3>1
  <2> QED BY <1>1, <2>1, <2>2
<1> QED BY <1>2 DEF Apart

\* Launches are added only between chains, and move on at any time.
LEMMA OnlyLaunches ==
    ASSUME PairInv, LaunchesStay, chain' = chain, ~chain.ended => Len(launches') = Len(launches)
    PROVE  PairInv'
<1>1. /\ launches' \in Seq(LaunchRecord) /\ Len(launches) \in Nat /\ chain.steps \in Seq(StepRecord)
      /\ \A n \in DOMAIN chain.steps : chain.steps[n] \in StepRecord
      /\ \A n \in 1..(Len(chain.steps) - 1) : n \in DOMAIN chain.steps
  BY DEF PairInv, LaunchesStay
<1>2. \A n \in 1..(Len(chain.steps) - 1) : GoneOn(launches', chain.steps[n])
  BY <1>1, StayApart DEF PairInv
<1>3. \A n \in DOMAIN chain.steps : Launched(launches', chain.steps[n])
  BY <1>1, StayApart DEF PairInv
<1>4. ASSUME ~chain.ended PROVE Out(launches', chain.pairing, chain.steps[Len(chain.steps)])
  <2> DEFINE s == chain.steps[Len(chain.steps)]
  <2>1. Out(launches, chain.pairing, s) /\ s \in StepRecord /\ Len(launches') = Len(launches)
    BY <1>1, <1>4 DEF PairInv
  <2> HIDE DEF s
  <2>2. s.cli \in CLIs
    BY <2>1 DEF StepRecord
  <2>3. Apart(launches, Len(launches), s.cli) => Apart(launches', Len(launches), s.cli)
    BY <1>1, <2>2, StayApart
  <2>4. Len(launches) > 0 => /\ launches'[Len(launches)].role = launches[Len(launches)].role
                             /\ launches'[Len(launches)].cli = launches[Len(launches)].cli
    BY <1>1 DEF LaunchesStay, PairInv
  <2>5. Out(launches', chain.pairing, s)
    BY <2>1, <2>3, <2>4 DEF Out
  <2> QED BY <2>5 DEF s
<1> QED BY <1>1, <1>2, <1>3, <1>4 DEF PairInv

\* The last step changes, with its role, CLI and launch as before or the launch it gets.
LEMMA LastChanges ==
    ASSUME PairInv, LaunchesStay, NEW last \in StepRecord, Len(chain.steps) > 0,
           Launched(launches', last), NEW ended \in BOOLEAN,
           chain' = [pairing |-> chain.pairing, ended |-> ended,
                     steps |-> [chain.steps EXCEPT ![Len(chain.steps)] = last]],
           ~ended => ~chain.ended /\ Out(launches', chain.pairing, last)
    PROVE  PairInv'
<1> DEFINE n == Len(chain.steps)
<1>1. /\ launches' \in Seq(LaunchRecord) /\ chain.steps \in Seq(StepRecord) /\ n \in Nat /\ n \in DOMAIN chain.steps
      /\ \A k \in DOMAIN chain.steps : chain.steps[k] \in StepRecord
      /\ \A k \in 1..(n - 1) : k \in DOMAIN chain.steps
  BY DEF PairInv, LaunchesStay
<1>2. /\ chain'.steps \in Seq(StepRecord) /\ Len(chain'.steps) = n /\ DOMAIN chain'.steps = DOMAIN chain.steps
      /\ chain'.steps[n] = last /\ \A k \in DOMAIN chain.steps : k # n => chain'.steps[k] = chain.steps[k]
  BY <1>1
<1>3. /\ chain'.pairing = chain.pairing /\ chain'.ended = ended
      /\ chain' = [pairing |-> chain'.pairing, steps |-> chain'.steps, ended |-> chain'.ended]
  OBVIOUS
<1>4. \A k \in 1..(n - 1) : GoneOn(launches', chain'.steps[k])
  BY <1>1, <1>2, StayApart DEF PairInv
<1>5. \A k \in DOMAIN chain'.steps : Launched(launches', chain'.steps[k])
  BY <1>1, <1>2, StayApart DEF PairInv
<1> HIDE DEF n
<1>6. ~chain'.ended => Len(chain'.steps) > 0 /\ Out(launches', chain'.pairing, chain'.steps[Len(chain'.steps)])
  BY <1>2, <1>3 DEF n
<1> QED BY <1>1, <1>2, <1>3, <1>4, <1>5, <1>6 DEF PairInv, n

LEMMA AloneRuns ==
    ASSUME PairInv, NEW role \in Pairing!Roles, NEW cli \in CLIs, Pairing!RunsAlone(role, cli)
    PROVE  PairInv'
<1> DEFINE l == [role |-> role, cli |-> cli, state |-> "running"]
<1>1. chain.ended /\ launches' = Append(launches, l) /\ chain' = chain
  BY DEF Pairing!RunsAlone
<1>2. l \in LaunchRecord
  BY DEF LaunchRecord
<1> HIDE DEF l
<1>3. LaunchesStay
  BY <1>1, <1>2, Appending DEF PairInv
<1> QED BY <1>1, <1>3, OnlyLaunches

\* A reviewer of a chain is on another CLI than the writer whose work it looks at.
LEMMA WriterIsKnown ==
    ASSUME PairInv, NEW role \in Pairing!Roles, NEW pairing \in Pairing!Pairings, NEW writer,
           NEW hold \in BOOLEAN, NEW authorized \in BOOLEAN, NEW usable \in BOOLEAN,
           Pairing!Preflight(role, pairing, writer, hold, authorized, usable) = "none"
    PROVE  /\ role \in ChainRoles /\ Pairing!cliFor(role, pairing) \in CLIs
           /\ role = "reviewer" => writer # Pairing!cliFor(role, pairing)
<1>1. role # "free-roam"
  BY DEF Pairing!Preflight
<1>2. role = "reviewer" => writer # Pairing!cliFor(role, pairing)
  BY DEF Pairing!Preflight
<1>3. Pairing!cliFor(role, pairing) \in CLIs
  BY DEF Pairing!cliFor, Pairing!Pairings
<1> QED BY <1>1, <1>2, <1>3 DEF Pairing!Roles, ChainRoles

LEMMA FirstStep ==
    ASSUME PairInv, NEW role \in Pairing!Roles, NEW pairing \in Pairing!Pairings,
           Pairing!StartsChain(role, pairing)
    PROVE  PairInv'
<1> DEFINE cli == Pairing!cliFor(role, pairing)
           s == Pairing!Step(role, cli)
<1>1. /\ launches' = launches /\ Pairing!MayBeFirst(role)
      /\ chain' = [pairing |-> pairing, steps |-> <<s>>, ended |-> FALSE]
      /\ role \in ChainRoles /\ cli \in CLIs /\ (role = "reviewer" => Pairing!WriterCli(<<>>) # cli)
  BY WriterIsKnown DEF Pairing!StartsChain
<1>2. s \in StepRecord /\ s.role = role /\ s.cli = cli /\ s.item = "waiting" /\ s.launch = 0
  BY <1>1 DEF Pairing!Step, StepRecord
<1>3. PairLimits /\ role = "reviewer" => Apart(launches, Len(launches), cli)
  <2> SUFFICES ASSUME PairLimits, role = "reviewer" PROVE Apart(launches, Len(launches), cli)
    OBVIOUS
  <2>1. Pairing!WriterCli(<<>>) = Pairing!PreviousWriter
    <3>1. {n \in DOMAIN <<>> : <<>>[n].role # "reviewer"} = {}
      OBVIOUS
    <3>2. ASSUME NEW none, {n \in DOMAIN none : none[n].role # "reviewer"} = {}
          PROVE  Pairing!WriterCli(none) = Pairing!PreviousWriter
      BY <3>2 DEF Pairing!WriterCli
    <3> QED BY <3>1, <3>2
  <2>2. launches # <<>> => launches[Len(launches)].role \in Writers /\ launches[Len(launches)].cli # cli
    BY <1>1, <2>1 DEF Pairing!MayBeFirst, Pairing!PreviousWriter, Pairing!Last, PairLimits
  <2> HIDE DEF cli
  <2> QED BY <1>1, <2>2, NewestApart
<1> HIDE DEF s
<1>4. /\ chain'.steps = <<s>> /\ Len(chain'.steps) = 1 /\ DOMAIN chain'.steps = {1} /\ chain'.steps[1] = s
      /\ chain'.pairing = pairing /\ chain'.ended = FALSE /\ chain'.steps \in Seq(StepRecord)
  BY <1>1, <1>2
<1>5. Out(launches', chain'.pairing, s) /\ Launched(launches', s)
  BY <1>1, <1>2, <1>3, <1>4 DEF Out, Launched
<1> QED BY <1>1, <1>2, <1>4, <1>5 DEF PairInv

LEMMA StepWith ==
    ASSUME NEW s \in StepRecord, NEW x
    PROVE  /\ [s EXCEPT !.item = x]
              = [role |-> s.role, cli |-> s.cli, item |-> x, launch |-> s.launch, outcome |-> s.outcome]
           /\ [s EXCEPT !.outcome = x]
              = [role |-> s.role, cli |-> s.cli, item |-> s.item, launch |-> s.launch, outcome |-> x]
  BY DEF StepRecord

LEMMA NextStarts ==
    ASSUME PairInv, Pairing!StepStarts
    PROVE  PairInv'
<1> DEFINE n == Len(chain.steps)
           s == chain.steps[n]
           l == [role |-> s.role, cli |-> s.cli, state |-> "running"]
           last == [role |-> s.role, cli |-> s.cli, item |-> "started", launch |-> Len(launches) + 1,
                    outcome |-> s.outcome]
<1>1. /\ ~chain.ended /\ s.item = "waiting" /\ launches' = Append(launches, l)
      /\ chain' = [chain EXCEPT !.steps[n].item = "started", !.steps[n].launch = Len(launches) + 1]
  BY DEF Pairing!StepStarts, Pairing!Last
<1>2. /\ Len(launches) \in Nat /\ s \in StepRecord /\ n \in DOMAIN chain.steps /\ n > 0
      /\ Out(launches, chain.pairing, s) /\ launches \in Seq(LaunchRecord)
  BY <1>1 DEF PairInv
<1>3. l \in LaunchRecord /\ l.role = s.role /\ l.cli = s.cli
  BY <1>2 DEF LaunchRecord, StepRecord, ChainRoles, Pairing!Roles
<1>4. last \in StepRecord /\ last.role = s.role /\ last.cli = s.cli /\ last.launch = Len(launches) + 1
      /\ last.item = "started"
  BY <1>2 DEF StepRecord
<1>5. chain' = [pairing |-> chain.pairing, ended |-> chain.ended, steps |-> [chain.steps EXCEPT ![n] = last]]
  <2>3. [[s EXCEPT !.item = "started"] EXCEPT !.launch = Len(launches) + 1] = last
    <3> DEFINE r == [role |-> s.role, cli |-> s.cli, item |-> "started", launch |-> s.launch, outcome |-> s.outcome]
    <3>1. [s EXCEPT !.item = "started"] = r
      BY <1>2, StepWith
    <3>2. [r EXCEPT !.launch = Len(launches) + 1] = last
      OBVIOUS
    <3> HIDE DEF r, last
    <3> QED BY <3>1, <3>2
  <2>2. chain = [pairing |-> chain.pairing, steps |-> chain.steps, ended |-> chain.ended]
        /\ chain.steps \in Seq(StepRecord)
    BY DEF PairInv
  <2> HIDE DEF last
  <2> USE DEF s
  <2> QED BY <1>1, <1>2, <2>2, <2>3
<1> HIDE DEF last, l, s
<1>6. LaunchesStay /\ Len(launches') = Len(launches) + 1 /\ launches'[Len(launches')] = l
  BY <1>1, <1>2, <1>3, Appending
<1>7. PairLimits /\ last.role = "reviewer" => Apart(launches', Len(launches), last.cli)
  <2>1. PairLimits /\ s.role = "reviewer" => Apart(launches, Len(launches), s.cli)
    BY <1>1, <1>2 DEF Out
  <2>2. s.cli \in CLIs
    BY <1>2 DEF StepRecord
  <2> QED BY <1>2, <1>4, <1>6, <2>1, <2>2, StayApart
<1>8. Launched(launches', last)
  <2>1. last.launch \in DOMAIN launches' /\ last.launch - 1 = Len(launches)
    BY <1>2, <1>4, <1>6 DEF LaunchesStay
  <2> QED BY <1>7, <2>1 DEF Launched
<1>9. Out(launches', chain.pairing, last)
  BY <1>2, <1>3, <1>4, <1>6 DEF Out
<1> QED BY <1>1, <1>2, <1>4, <1>5, <1>6, <1>8, <1>9, LastChanges DEF PairInv

LEMMA NextCannotStart ==
    ASSUME PairInv, Pairing!StepCannotStart
    PROVE  PairInv'
<1> DEFINE n == Len(chain.steps)
           s == chain.steps[n]
           last == [role |-> s.role, cli |-> s.cli, item |-> "failed", launch |-> s.launch, outcome |-> s.outcome]
<1>1. /\ ~chain.ended /\ s.item = "waiting" /\ launches' = launches
      /\ chain' = [chain EXCEPT !.steps[n].item = "failed", !.ended = TRUE]
  BY DEF Pairing!StepCannotStart, Pairing!Last
<1>2. /\ Len(launches) \in Nat /\ s \in StepRecord /\ n \in DOMAIN chain.steps /\ n > 0 /\ n \in Nat
      /\ Launched(launches, s) /\ launches \in Seq(LaunchRecord)
  BY <1>1 DEF PairInv
<1>3. last \in StepRecord /\ last.role = s.role /\ last.cli = s.cli /\ last.launch = s.launch
  BY <1>2 DEF StepRecord
<1>4. [s EXCEPT !.item = "failed"] = last
  BY <1>2, StepWith
<1> HIDE DEF last
<1>5. chain' = [pairing |-> chain.pairing, ended |-> TRUE, steps |-> [chain.steps EXCEPT ![n] = last]]
  <2>1. chain = [pairing |-> chain.pairing, steps |-> chain.steps, ended |-> chain.ended]
        /\ chain.steps \in Seq(StepRecord)
    BY DEF PairInv
  <2> QED BY <1>1, <1>2, <1>4, <2>1
<1> HIDE DEF s
<1>6. LaunchesStay /\ Launched(launches', last)
  BY <1>1, <1>2, <1>3 DEF LaunchesStay, Launched
<1> QED BY <1>2, <1>3, <1>5, <1>6, LastChanges

LEMMA LaunchGoesOn ==
    ASSUME PairInv, Pairing!LaunchEnds \/ Pairing!Verifies
    PROVE  PairInv'
<1>1. PICK l \in DOMAIN launches, state \in {"verifying", "good", "bad", "stopped"} :
         launches[l].state # "good" /\ launches' = [launches EXCEPT ![l].state = state]
  BY DEF Pairing!LaunchEnds, Pairing!Verifies
<1>2. LaunchesStay /\ Len(launches') = Len(launches)
  BY <1>1, LaunchMoves DEF PairInv
<1> QED BY <1>2, OnlyLaunches DEF Pairing!LaunchEnds, Pairing!Verifies

LEMMA ChainStops ==
    ASSUME PairInv, Pairing!Stops
    PROVE  PairInv'
<1> DEFINE n == Len(chain.steps)
           s == chain.steps[n]
<1>1. PICK item \in {s.item, "cancelled"} :
         /\ ~chain.ended
         /\ chain' = [chain EXCEPT !.ended = TRUE, !.steps[n].item = item]
         /\ launches' = [l \in DOMAIN launches |->
                           IF l = s.launch /\ launches[l].state = "running"
                           THEN [launches[l] EXCEPT !.state = "stopped"] ELSE launches[l]]
  BY DEF Pairing!Stops
<1> DEFINE last == [role |-> s.role, cli |-> s.cli, item |-> item, launch |-> s.launch, outcome |-> s.outcome]
<1>2. /\ Len(launches) \in Nat /\ s \in StepRecord /\ n \in DOMAIN chain.steps /\ n > 0 /\ n \in Nat
      /\ Launched(launches, s) /\ launches \in Seq(LaunchRecord)
      /\ DOMAIN launches = 1..Len(launches) /\ \A l \in DOMAIN launches : launches[l] \in LaunchRecord
  BY <1>1 DEF PairInv
<1>3. last \in StepRecord /\ last.role = s.role /\ last.cli = s.cli /\ last.launch = s.launch
  BY <1>1, <1>2 DEF StepRecord
<1>4. [s EXCEPT !.item = item] = last
  BY <1>2, StepWith
<1> HIDE DEF last
<1>5. chain' = [pairing |-> chain.pairing, ended |-> TRUE, steps |-> [chain.steps EXCEPT ![n] = last]]
  <2>1. chain = [pairing |-> chain.pairing, steps |-> chain.steps, ended |-> chain.ended]
        /\ chain.steps \in Seq(StepRecord)
    BY DEF PairInv
  <2> QED BY <1>1, <1>2, <1>4, <2>1
<1>6. LaunchesStay
  <2>1. ASSUME NEW r \in LaunchRecord
        PROVE  LET t == [r EXCEPT !.state = "stopped"] IN t \in LaunchRecord /\ t.role = r.role /\ t.cli = r.cli
    BY DEF LaunchRecord
  <2>2. \A l \in DOMAIN launches : /\ launches'[l] \in LaunchRecord
                                   /\ launches'[l].role = launches[l].role /\ launches'[l].cli = launches[l].cli
                                   /\ launches[l].state = "good" => launches'[l].state = "good"
    BY <1>1, <1>2, <2>1
  <2>3. launches' \in [1..Len(launches) -> LaunchRecord]
    BY <1>1, <1>2, <2>2
  <2> QED BY <1>2, <2>2, <2>3 DEF LaunchesStay
<1> HIDE DEF s
<1>7. Launched(launches', last)
  <2>1. Launched(launches', s)
    BY <1>2, <1>6, StayApart
  <2> QED BY <1>3, <2>1 DEF Launched
<1> QED BY <1>2, <1>3, <1>5, <1>6, <1>7, LastChanges

\* The chain goes on from its last step.
LEMMA NextIsApart ==
    ASSUME PairLimits, PairInv, ~chain.ended, NEW s, s = chain.steps[Len(chain.steps)], s.launch # 0,
           Pairing!WriterCli(chain.steps) # Pairing!cliFor("reviewer", chain.pairing)
    PROVE  Apart(launches, Len(launches), Pairing!cliFor("reviewer", chain.pairing))
<1> DEFINE n == Len(chain.steps)
           cli == Pairing!cliFor("reviewer", chain.pairing)
<1>1. /\ n \in Nat /\ n > 0 /\ n \in DOMAIN chain.steps /\ DOMAIN chain.steps = 1..n /\ Len(launches) \in Nat
      /\ s \in StepRecord /\ Out(launches, chain.pairing, s) /\ Launched(launches, s)
      /\ chain.pairing \in Pairing!Pairings
  BY DEF PairInv
<1>2. /\ Len(launches) > 0 /\ s.launch = Len(launches) /\ s.cli = Pairing!cliFor(s.role, chain.pairing)
      /\ launches[Len(launches)].role = s.role /\ launches[Len(launches)].cli = s.cli
  BY <1>1 DEF Out
<1>3. cli \in CLIs
  BY <1>1 DEF Pairing!cliFor, Pairing!Pairings
<1>4. CASE s.role = "reviewer"
  <2>1. Apart(launches, Len(launches) - 1, cli) /\ launches[Len(launches)].role \notin Writers
    BY <1>1, <1>2, <1>4 DEF Launched, PairLimits
  <2> HIDE DEF cli
  <2>2. ASSUME NEW w \in 1..Len(launches), launches[w].role \in Writers,
               \A v \in (w + 1)..Len(launches) : launches[v].role \notin Writers
        PROVE  launches[w].cli # cli
    <3>1. w \in 1..(Len(launches) - 1)
      BY <1>1, <1>2, <2>1, <2>2
    <3>2. \A v \in (w + 1)..(Len(launches) - 1) : v \in (w + 1)..Len(launches)
      BY <1>1, <3>1
    <3> QED BY <2>1, <2>2, <3>1, <3>2 DEF Apart
  <2>3. Apart(launches, Len(launches), cli)
    BY <2>2 DEF Apart
  <2> QED BY <2>3 DEF cli
<1>5. CASE s.role # "reviewer"
  <2> DEFINE written == {k \in DOMAIN chain.steps : chain.steps[k].role # "reviewer"}
  <2>1. n \in written /\ written \in SUBSET (1..n) /\ written # {}
    BY <1>1, <1>5
  <2>2. Pairing!WriterCli(chain.steps) = chain.steps[Pairing!Max(written)].cli
    BY <2>1 DEF Pairing!WriterCli
  <2>3. Pairing!Max(written) = n
    <3> HIDE DEF written
    <3>1. Pairing!Max(written) \in written /\ Pairing!Max(written) >= n
      BY <1>1, <2>1, MaxIsIn
    <3>2. Pairing!Max(written) \in 1..n
      BY <2>1, <3>1
    <3> QED BY <1>1, <3>1, <3>2
  <2>4. s.cli # cli
    BY <2>2, <2>3
  <2>5. s.role \in Writers
    BY <1>1, <1>5 DEF StepRecord, ChainRoles
  <2> HIDE DEF cli
  <2>6. Apart(launches, Len(launches), cli)
    BY <1>2, <1>3, <2>4, <2>5, NewestApart
  <2> QED BY <2>6 DEF cli
<1> QED BY <1>4, <1>5

LEMMA StepJudged ==
    ASSUME PairInv, NEW next \in Pairing!Roles \cup {"done"}, Pairing!Judges(next)
    PROVE  PairInv'
<1> DEFINE n == Len(chain.steps)
           s == chain.steps[n]
           said == Pairing!Result(s.launch)
           last == [role |-> s.role, cli |-> s.cli, item |-> s.item, launch |-> s.launch, outcome |-> said]
           judged == [chain EXCEPT !.steps[n].outcome = said]
           more == [chain.steps EXCEPT ![n] = last]
           cli == Pairing!cliFor(next, chain.pairing)
           new == Pairing!Step(next, cli)
<1>1. /\ ~chain.ended /\ said \in {"good", "bad", "stopped"} /\ launches' = launches
      /\ \/ chain' = [judged EXCEPT !.ended = TRUE]
         \/ /\ said = "good" /\ next # "done" /\ chain' = [judged EXCEPT !.steps = Append(@, new)]
            /\ \E hold, authorized, usable \in BOOLEAN :
                  Pairing!Preflight(next, chain.pairing, Pairing!WriterCli(chain.steps), hold, authorized, usable) = "none"
  BY DEF Pairing!Judges
<1>2. /\ Len(launches) \in Nat /\ s \in StepRecord /\ n \in DOMAIN chain.steps /\ n > 0 /\ n \in Nat
      /\ Launched(launches, s) /\ Out(launches, chain.pairing, s) /\ launches \in Seq(LaunchRecord)
      /\ chain.steps \in Seq(StepRecord) /\ chain.pairing \in Pairing!Pairings
  BY <1>1 DEF PairInv
<1>3. last \in StepRecord /\ last.role = s.role /\ last.cli = s.cli /\ last.launch = s.launch
      /\ last.item = s.item /\ last.outcome = said
  BY <1>1, <1>2 DEF StepRecord
<1>4. [s EXCEPT !.outcome = said] = last
  BY <1>2, StepWith
<1>5. s.launch # 0 /\ (said = "good" => launches[s.launch].state = "good")
  BY <1>1 DEF Pairing!Result
<1> HIDE DEF last, said, new
<1>6. judged = [pairing |-> chain.pairing, ended |-> chain.ended, steps |-> more]
  <2>1. chain = [pairing |-> chain.pairing, steps |-> chain.steps, ended |-> chain.ended]
    BY DEF PairInv
  <2>2. [chain.steps EXCEPT ![n].outcome = said] = more
    BY <1>2, <1>4
  <2> HIDE DEF more, n
  <2> QED BY <2>1, <2>2
<1> HIDE DEF judged
<1>7. LaunchesStay /\ Launched(launches', last)
  BY <1>1, <1>2, <1>3 DEF LaunchesStay, Launched
<1>8. CASE chain' = [judged EXCEPT !.ended = TRUE]
  <2>1. chain' = [pairing |-> chain.pairing, ended |-> TRUE, steps |-> more]
    BY <1>6, <1>8
  <2> QED BY <1>2, <1>3, <1>7, <2>1, LastChanges
<1>9. CASE /\ said = "good" /\ next # "done" /\ chain' = [judged EXCEPT !.steps = Append(@, new)]
           /\ \E hold, authorized, usable \in BOOLEAN :
                 Pairing!Preflight(next, chain.pairing, Pairing!WriterCli(chain.steps), hold, authorized, usable) = "none"
  <2>1. chain' = [pairing |-> chain.pairing, ended |-> chain.ended, steps |-> Append(more, new)]
    <3> HIDE DEF more
    <3> QED BY <1>6, <1>9
  <2>2. /\ next \in ChainRoles /\ cli \in CLIs /\ (next = "reviewer" => Pairing!WriterCli(chain.steps) # cli)
    BY <1>2, <1>9, WriterIsKnown
  <2>3. new \in StepRecord /\ new.role = next /\ new.cli = cli /\ new.item = "waiting" /\ new.launch = 0
    BY <2>2 DEF new, Pairing!Step, StepRecord
  <2>4. Out(launches, chain.pairing, new)
    BY <1>1, <1>5, <2>2, <2>3, NextIsApart DEF Out
  <2>5. GoneOn(launches, last)
    BY <1>2, <1>3, <1>5, <1>9 DEF Out, Launched, GoneOn
  <2>6. more \in Seq(StepRecord) /\ Len(more) = n /\ more[n] = last /\ DOMAIN more = 1..n
        /\ \A k \in 1..n : k # n => more[k] = chain.steps[k]
    BY <1>2, <1>3
  <2> HIDE DEF more
  <2>7. /\ chain'.steps \in Seq(StepRecord) /\ Len(chain'.steps) = n + 1 /\ DOMAIN chain'.steps = 1..(n + 1)
        /\ chain'.steps[n + 1] = new /\ \A k \in 1..n : chain'.steps[k] = more[k]
        /\ chain'.pairing = chain.pairing /\ chain'.ended = chain.ended
        /\ chain' = [pairing |-> chain'.pairing, steps |-> chain'.steps, ended |-> chain'.ended]
    BY <1>2, <2>1, <2>3, <2>6
  <2>8. \A k \in 1..((n + 1) - 1) : GoneOn(launches, chain'.steps[k])
    <3>1. \A k \in 1..(n - 1) : GoneOn(launches, chain.steps[k])
      BY DEF PairInv
    <3> HIDE DEF n
    <3>2. \A k \in 1..n : k = n \/ k \in 1..(n - 1)
      BY <1>2
    <3>3. (n + 1) - 1 = n
      BY <1>2
    <3> QED BY <2>5, <2>6, <2>7, <3>1, <3>2, <3>3
  <2>9. \A k \in 1..(n + 1) : Launched(launches, chain'.steps[k])
    <3>1. \A k \in 1..n : Launched(launches, chain.steps[k])
      BY <1>2 DEF PairInv
    <3>2. Launched(launches, new) /\ Launched(launches, last)
      BY <1>1, <1>7, <2>3 DEF Launched
    <3> HIDE DEF n
    <3>3. \A k \in 1..(n + 1) : k = n + 1 \/ k \in 1..n
      BY <1>2
    <3> QED BY <2>6, <2>7, <3>1, <3>2, <3>3
  <2> QED BY <1>1, <1>2, <2>4, <2>7, <2>8, <2>9 DEF PairInv
<1> QED BY <1>1, <1>8, <1>9

LEMMA PairNext ==
    ASSUME PairInv, [Pairing!Next]_Pairing!vars
    PROVE  PairInv'
<1>1. CASE UNCHANGED Pairing!vars
  BY <1>1 DEF Pairing!vars, PairInv
<1>2. CASE \E l \in DOMAIN launches : Pairing!Prunes(l)
  BY <1>2 DEF Pairing!Prunes, PairInv
<1>3. CASE \E role \in Pairing!Roles, cli \in CLIs : Pairing!RunsAlone(role, cli)
  BY <1>3, AloneRuns
<1>4. CASE \E role \in Pairing!Roles, pairing \in Pairing!Pairings : Pairing!StartsChain(role, pairing)
  BY <1>4, FirstStep
<1>5. CASE \E next \in Pairing!Roles \cup {"done"} : Pairing!Judges(next)
  BY <1>5, StepJudged
<1>6. CASE Pairing!StepStarts \/ Pairing!StepCannotStart \/ Pairing!LaunchEnds \/ Pairing!Verifies \/ Pairing!Stops
  BY <1>6, NextStarts, NextCannotStart, LaunchGoesOn, ChainStops
<1> QED BY <1>1, <1>2, <1>3, <1>4, <1>5, <1>6 DEF Pairing!Next

LEMMA PairStart == Pairing!Init => PairInv
<1> SUFFICES ASSUME Pairing!Init PROVE PairInv
  OBVIOUS
<1>1. launches = <<>> /\ chain = [pairing |-> Pairing!NoChain.pairing, steps |-> <<>>, ended |-> TRUE]
  BY DEF Pairing!Init, Pairing!NoChain
<1> QED BY <1>1 DEF PairInv

\* A reviewer of a chain never runs on the CLI whose work it looks at, when nobody has a review
\* follow a review (taskChain.ts writerCli, preflight).
THEOREM ReviewedByAnotherHolds ==
    ASSUME PairLimits
    PROVE  Pairing!Spec => []Pairing!ReviewedByAnother
<1>1. ASSUME PairLimits, PairInv PROVE Pairing!ReviewedByAnother
  <2> SUFFICES ASSUME NEW n \in DOMAIN chain.steps, chain.steps[n].role = "reviewer", chain.steps[n].launch # 0,
                      NEW before, before = {l \in 1..(chain.steps[n].launch - 1) : launches[l].role \in Writers},
                      before # {}
               PROVE  launches[Pairing!Max(before)].cli # chain.steps[n].cli
    BY DEF Pairing!ReviewedByAnother
  <2> DEFINE k == chain.steps[n].launch - 1
             w == Pairing!Max(before)
  <2>1. chain.steps[n] \in StepRecord
    BY <1>1 DEF PairInv
  <2>2. chain.steps[n].launch \in Nat /\ k \in Nat /\ before \in SUBSET (1..k)
    BY <2>1 DEF StepRecord
  <2>3. Apart(launches, k, chain.steps[n].cli)
    BY <1>1 DEF PairInv, Launched
  <2>4. w \in before /\ \A x \in before : w >= x
    BY <2>2, MaxIsIn
  <2> HIDE DEF w
  <2>5. \A v \in (w + 1)..k : launches[v].role \notin Writers
    BY <2>2, <2>4
  <2>6. w \in 1..k /\ launches[w].role \in Writers
    BY <2>4
  <2>7. launches[w].cli # chain.steps[n].cli
    <3> HIDE DEF k
    <3> QED BY <2>3, <2>5, <2>6 DEF Apart
  <2> QED BY <2>7 DEF w
<1> QED BY <1>1, PairStart, PairNext, PTL DEF Pairing!Spec

\* What a chain went on from is verified in its timeline and stays so when the records of the
\* launch are gone (taskChain.ts stepView).
THEOREM TimelineStays == Pairing!Spec => []Pairing!TimelineHolds
<1>1. ASSUME PairInv PROVE Pairing!TimelineHolds
  <2> SUFFICES ASSUME NEW n \in 1..(Len(chain.steps) - 1) PROVE Pairing!StepStatus(chain.steps[n]) = "verified"
    BY DEF Pairing!TimelineHolds
  <2> DEFINE s == chain.steps[n]
  <2>1. GoneOn(launches, s)
    BY <1>1 DEF PairInv
  <2>2. Pairing!Result(s.launch) \in {"gone", "good"}
    BY <2>1 DEF GoneOn, Pairing!Result
  <2> HIDE DEF s
  <2>3. Pairing!StepStatus(s) = "verified"
    BY <2>1, <2>2 DEF GoneOn, Pairing!StepStatus
  <2> QED BY <2>3 DEF s
<1> QED BY <1>1, PairStart, PairNext, PTL DEF Pairing!Spec

-----------------------------------------------------------------------------
(* The lanes to the code index *)

CONSTANTS Lane, OwnIds, MaxCalls, MaxPipe
VARIABLES toServer, toClient, running, late, watching, inFlight, noted, injected, heard, life

Lanes == INSTANCE IndexLanes

\* The lane's counter never ends, and gives no id of the host's and no 0.
LaneLimits == ~IsFiniteSet(OwnIds) /\ MaxCalls \in Nat /\ OwnIds \cap Lanes!HostIds = {} /\ 0 \notin OwnIds

LaneIds == OwnIds \cup Lanes!HostIds
CallRecord == [id : LaneIds, call : {"update", "query", "stop", "answer"}]

\* Whatever is under way has an id of its own.
LaneTypes ==
    /\ toServer \in Seq(CallRecord) /\ toClient \in Seq(CallRecord)
    /\ running \subseteq LaneIds /\ IsFiniteSet(running)
    /\ injected \subseteq OwnIds /\ IsFiniteSet(injected)
    /\ inFlight \in OwnIds \cup {0} /\ open \subseteq Lanes!HostIds
IdsApart ==
    /\ \A n, m \in DOMAIN toServer : toServer[n].id = toServer[m].id => n = m
    /\ \A n, m \in DOMAIN toClient : toClient[n].id = toClient[m].id => n = m
    /\ \A n \in DOMAIN toServer, m \in DOMAIN toClient : toServer[n].id # toClient[m].id
    /\ \A n \in DOMAIN toServer : toServer[n].id \notin running
    /\ \A n \in DOMAIN toClient : toClient[n].id \notin running

Unused(id) ==
    /\ id # inFlight /\ id \notin injected /\ id \notin running
    /\ \A n \in DOMAIN toServer : toServer[n].id # id
    /\ \A n \in DOMAIN toClient : toClient[n].id # id

\* The daemon's one update is in one place, and a watcher that is on is stopped before the next.
StopIsFirst ==
    \/ \E n \in DOMAIN toClient : toClient[n].id = inFlight
    \/ \E n \in DOMAIN toServer : /\ toServer[n].call = "stop"
                                  /\ \A m \in DOMAIN toServer : toServer[m].call = "update" => n < m
DaemonInv ==
    /\ LaneTypes /\ IdsApart /\ late = {} /\ running \subseteq {inFlight}
    /\ \A n \in DOMAIN toServer : /\ toServer[n].call \in {"update", "stop"}
                                  /\ toServer[n].call = "update" <=> toServer[n].id = inFlight
    /\ watching => running = {} /\ StopIsFirst

\* What comes back to the proxy is what the host waits for or what the proxy asked itself.
ProxyInv ==
    /\ LaneTypes /\ IdsApart
    /\ heard \in Seq(Lanes!HostIds) /\ Lanes!IsInjective(heard)
    /\ \A n \in DOMAIN heard : heard[n] \notin open
    /\ running \subseteq open
    /\ \A n \in DOMAIN toServer : toServer[n].id \in open \cup injected
                                  /\ (toServer[n].call = "update" => toServer[n].id \in open)
    /\ \A n \in DOMAIN toClient : toClient[n].id \in open \cup injected

LEMMA IdsAreFinite ==
    ASSUME NEW s \in Seq(CallRecord)
    PROVE  IsFiniteSet({s[n].id : n \in DOMAIN s})
<1> DEFINE ids == {s[n].id : n \in DOMAIN s}
           f == [n \in 1..Len(s) |-> s[n].id]
<1>1. Len(s) \in Nat /\ DOMAIN s = 1..Len(s)
  OBVIOUS
<1>2. f \in Seq(ids) /\ Len(f) = Len(s)
  BY <1>1
<1>3. \A x \in ids : \E n \in 1..Len(f) : f[n] = x
  BY <1>1, <1>2
<1> HIDE DEF ids, f
<1>4. IsFiniteSet(ids)
  BY <1>2, <1>3 DEF IsFiniteSet
<1> QED BY <1>4 DEF ids

LEMMA FreshIsUnused ==
    ASSUME LaneLimits, LaneTypes
    PROVE  Lanes!Fresh \in OwnIds /\ Unused(Lanes!Fresh)
<1> DEFINE sent == {toServer[n].id : n \in DOMAIN toServer}
           back == {toClient[n].id : n \in DOMAIN toClient}
           used == sent \cup back \cup running \cup injected \cup {inFlight}
<1>1. IsFiniteSet(used)
  <2>1. IsFiniteSet(sent) /\ IsFiniteSet(back) /\ IsFiniteSet(running) /\ IsFiniteSet(injected) /\ IsFiniteSet({inFlight})
    BY IdsAreFinite, FS_Singleton DEF LaneTypes
  <2> HIDE DEF sent, back
  <2>2. IsFiniteSet(sent \cup back)
    BY <2>1, FS_Union
  <2>3. IsFiniteSet(sent \cup back \cup running)
    BY <2>1, <2>2, FS_Union
  <2>4. IsFiniteSet(sent \cup back \cup running \cup injected)
    BY <2>1, <2>3, FS_Union
  <2> QED BY <2>1, <2>4, FS_Union
<1>2. PICK id \in OwnIds : id \notin used
  <2>1. OwnIds \subseteq used => IsFiniteSet(OwnIds)
    BY <1>1, FS_Subset
  <2> QED BY <2>1 DEF LaneLimits
<1>3. \A x \in OwnIds : Unused(x) <=> /\ x # inFlight /\ x \notin injected \cup running
                                      /\ \A m \in Lanes!Range(toServer) \cup Lanes!Range(toClient) : m.id # x
  BY DEF Unused, Lanes!Range
<1>4. Unused(id)
  BY <1>2 DEF Unused
<1> HIDE DEF used
<1> QED BY <1>3, <1>4 DEF Lanes!Fresh

LEMMA TailParts ==
    ASSUME NEW S, NEW s \in Seq(S), s # <<>>
    PROVE  /\ Tail(s) \in Seq(S) /\ Head(s) = s[1] /\ 1 \in DOMAIN s /\ s[1] \in S
           /\ \A n \in DOMAIN Tail(s) : n \in Nat /\ n > 0 /\ n + 1 \in DOMAIN s /\ Tail(s)[n] = s[n + 1]
           /\ \A n \in DOMAIN s : n # 1 => n - 1 \in DOMAIN Tail(s) /\ Tail(s)[n - 1] = s[n]
  OBVIOUS

\* The lane sends a call with an id of its own, and may have read a message for it.
LEMMA LaneSends ==
    ASSUME LaneTypes, IdsApart, NEW new \in CallRecord, Unused(new.id), toServer' = Append(toServer, new),
           \/ toClient' = toClient
           \/ toClient # <<>> /\ toClient' = Tail(toClient),
           running' = running
    PROVE  /\ toServer' \in Seq(CallRecord) /\ toClient' \in Seq(CallRecord) /\ IdsApart'
           /\ \A n \in DOMAIN toServer' : \/ n \in DOMAIN toServer /\ toServer'[n] = toServer[n]
                                          \/ n = Len(toServer) + 1 /\ toServer'[n] = new
           /\ \A n \in DOMAIN toServer : n \in DOMAIN toServer' /\ toServer'[n] = toServer[n] /\ n < Len(toServer) + 1
           /\ Len(toServer) + 1 \in DOMAIN toServer' /\ toServer'[Len(toServer) + 1] = new
           /\ \A n \in DOMAIN toClient' : \E m \in DOMAIN toClient : toClient'[n] = toClient[m]
<1>1. toServer \in Seq(CallRecord) /\ toClient \in Seq(CallRecord) /\ Len(toServer) \in Nat
      /\ DOMAIN toServer = 1..Len(toServer)
  BY DEF LaneTypes
<1>2. /\ toServer' \in Seq(CallRecord) /\ DOMAIN toServer' = 1..(Len(toServer) + 1)
      /\ toServer'[Len(toServer) + 1] = new /\ \A n \in DOMAIN toServer : toServer'[n] = toServer[n]
  BY <1>1
<1>3. /\ toClient' \in Seq(CallRecord)
      /\ \E k \in {0, 1} : \A n \in DOMAIN toClient' : /\ n \in Nat /\ n + k \in DOMAIN toClient
                                                       /\ toClient'[n] = toClient[n + k]
  <2>1. CASE toClient' = toClient
    BY <1>1, <2>1
  <2>2. CASE toClient # <<>> /\ toClient' = Tail(toClient)
    BY <1>1, <2>2, TailParts
  <2> QED BY <2>1, <2>2
<1>4. PICK k \in {0, 1} : \A n \in DOMAIN toClient' : /\ n \in Nat /\ n + k \in DOMAIN toClient
                                                      /\ toClient'[n] = toClient[n + k]
  BY <1>3
<1>5. /\ \A n, m \in DOMAIN toClient' : toClient'[n].id = toClient'[m].id => n = m
      /\ \A n \in DOMAIN toClient' : toClient'[n].id \notin running /\ toClient'[n].id # new.id
      /\ \A n \in DOMAIN toServer, m \in DOMAIN toClient' : toServer[n].id # toClient'[m].id
  <2>1. \A n, m \in DOMAIN toClient' : toClient'[n].id = toClient'[m].id => n + k = m + k /\ n \in Nat /\ m \in Nat
    BY <1>4 DEF IdsApart
  <2>2. \A n \in DOMAIN toClient' : toClient'[n].id \notin running /\ toClient'[n].id # new.id
    BY <1>4 DEF IdsApart, Unused
  <2>3. \A n \in DOMAIN toServer, m \in DOMAIN toClient' : toServer[n].id # toClient'[m].id
    BY <1>4 DEF IdsApart
  <2> QED BY <2>1, <2>2, <2>3
<1>6. \A n \in DOMAIN toServer' : \/ n \in DOMAIN toServer /\ toServer'[n] = toServer[n]
                                  \/ n = Len(toServer) + 1 /\ toServer'[n] = new
  BY <1>1, <1>2
<1>7. IdsApart'
  <2>1. \A n, m \in DOMAIN toServer' : toServer'[n].id = toServer'[m].id => n = m
    BY <1>6 DEF IdsApart, Unused
  <2>2. \A n \in DOMAIN toServer', m \in DOMAIN toClient' : toServer'[n].id # toClient'[m].id
    BY <1>5, <1>6
  <2>3. \A n \in DOMAIN toServer' : toServer'[n].id \notin running
    BY <1>6 DEF IdsApart, Unused
  <2> QED BY <1>5, <2>1, <2>2, <2>3 DEF IdsApart
<1>8. \A n \in DOMAIN toServer : n \in DOMAIN toServer' /\ toServer'[n] = toServer[n] /\ n < Len(toServer) + 1
  BY <1>1, <1>2
<1>9. Len(toServer) + 1 \in DOMAIN toServer'
  BY <1>1, <1>2
<1>10. \A n \in DOMAIN toClient' : \E m \in DOMAIN toClient : toClient'[n] = toClient[m]
  BY <1>4
<1> QED BY <1>2, <1>3, <1>6, <1>7, <1>8, <1>9, <1>10

\* The lane reads a message and sends nothing.
LEMMA LaneReads ==
    ASSUME LaneTypes, IdsApart, toServer' = toServer, toClient # <<>>, toClient' = Tail(toClient), running' = running
    PROVE  /\ toClient' \in Seq(CallRecord) /\ IdsApart'
           /\ \A n \in DOMAIN toClient' : \E m \in DOMAIN toClient : toClient'[n] = toClient[m]
<1>1. /\ toClient' \in Seq(CallRecord)
      /\ \A n \in DOMAIN toClient' : n \in Nat /\ n + 1 \in DOMAIN toClient /\ toClient'[n] = toClient[n + 1]
  BY TailParts DEF LaneTypes
<1>2. \A n, m \in DOMAIN toClient' : toClient'[n].id = toClient'[m].id => n = m
  <2>1. \A n, m \in DOMAIN toClient' : toClient'[n].id = toClient'[m].id => n + 1 = m + 1 /\ n \in Nat /\ m \in Nat
    BY <1>1 DEF IdsApart
  <2> QED BY <2>1
<1>3. IdsApart'
  BY <1>1, <1>2 DEF IdsApart
<1> QED BY <1>1, <1>3

\* The server takes its next call: it is at it, or answers it.
LEMMA ServerTakes ==
    ASSUME LaneTypes, IdsApart, Lanes!Handles
    PROVE  /\ LaneTypes' /\ IdsApart' /\ toServer # <<>> /\ 1 \in DOMAIN toServer /\ Head(toServer) = toServer[1]
           /\ \A n \in DOMAIN toServer' : n + 1 \in DOMAIN toServer /\ toServer'[n] = toServer[n + 1] /\ n \in Nat
           /\ \A n \in DOMAIN toServer : n # 1 => n - 1 \in DOMAIN toServer' /\ toServer'[n - 1] = toServer[n]
           /\ \A n \in DOMAIN toClient : n \in DOMAIN toClient' /\ toClient'[n] = toClient[n]
           /\ \A n \in DOMAIN toClient' : \/ n \in DOMAIN toClient /\ toClient'[n] = toClient[n]
                                          \/ toClient'[n].id = toServer[1].id
           /\ toServer[1].call = "update" => toClient' = toClient /\ running' = running \cup {toServer[1].id}
           /\ toServer[1].call # "update" => running' = running
<1>1. /\ toServer # <<>> /\ toServer' = Tail(toServer) /\ UNCHANGED <<inFlight, injected, open>>
      /\ \/ /\ Head(toServer).call = "update" /\ running' = running \cup {Head(toServer).id}
            /\ toClient' = toClient
         \/ /\ Head(toServer).call # "update" /\ running' = running
            /\ toClient' = Append(toClient, Lanes!Call(Head(toServer).id, "answer"))
  BY DEF Lanes!Handles, Lanes!lane, Lanes!Says
<1>2. /\ toServer \in Seq(CallRecord) /\ toClient \in Seq(CallRecord) /\ Len(toClient) \in Nat
      /\ DOMAIN toClient = 1..Len(toClient) /\ running \subseteq LaneIds /\ IsFiniteSet(running)
  BY DEF LaneTypes
<1>3. /\ toServer' \in Seq(CallRecord) /\ Head(toServer) = toServer[1] /\ 1 \in DOMAIN toServer
      /\ toServer[1] \in CallRecord
      /\ \A n \in DOMAIN toServer' : n \in Nat /\ n > 0 /\ n + 1 \in DOMAIN toServer /\ toServer'[n] = toServer[n + 1]
      /\ \A n \in DOMAIN toServer : n # 1 => n - 1 \in DOMAIN toServer' /\ toServer'[n - 1] = toServer[n]
  BY <1>1, <1>2, TailParts
<1>4. toServer[1].id \in LaneIds
  BY <1>3 DEF CallRecord
<1> DEFINE id == toServer[1].id
<1>5. /\ \A n \in DOMAIN toServer' : toServer'[n].id # id /\ toServer'[n].id \notin running
      /\ \A n, m \in DOMAIN toServer' : toServer'[n].id = toServer'[m].id => n = m
      /\ \A n \in DOMAIN toServer', m \in DOMAIN toClient : toServer'[n].id # toClient[m].id
      /\ \A m \in DOMAIN toClient : toClient[m].id # id
      /\ id \notin running
  BY <1>3 DEF IdsApart
<1>6. CASE /\ toServer[1].call = "update" /\ running' = running \cup {id} /\ toClient' = toClient
  <2>1. IsFiniteSet(running') /\ running' \subseteq LaneIds
    BY <1>2, <1>4, <1>6, FS_AddElement
  <2>2. IdsApart'
    BY <1>5, <1>6 DEF IdsApart
  <2>3. LaneTypes'
    BY <1>1, <1>3, <1>6, <2>1 DEF LaneTypes
  <2> QED BY <1>1, <1>3, <1>6, <2>2, <2>3
<1>7. CASE /\ toServer[1].call # "update" /\ running' = running
           /\ toClient' = Append(toClient, Lanes!Call(id, "answer"))
  <2>1. Lanes!Call(id, "answer") \in CallRecord /\ Lanes!Call(id, "answer").id = id
    BY <1>4 DEF CallRecord, Lanes!Call
  <2>2. /\ toClient' \in Seq(CallRecord)
        /\ \A n \in DOMAIN toClient : n \in DOMAIN toClient' /\ toClient'[n] = toClient[n]
        /\ \A n \in DOMAIN toClient' : \/ n \in DOMAIN toClient /\ toClient'[n] = toClient[n]
                                       \/ n = Len(toClient) + 1 /\ toClient'[n].id = id
    <3> DEFINE c == Lanes!Call(id, "answer")
    <3> HIDE DEF c
    <3>1. toClient' = Append(toClient, c) /\ c \in CallRecord /\ c.id = id
      BY <1>7, <2>1 DEF c
    <3> HIDE DEF id
    <3> QED BY <1>2, <3>1
  <2>3. IdsApart'
    <3> HIDE DEF id
    <3>1. \A n, m \in DOMAIN toClient' : toClient'[n].id = toClient'[m].id => n = m
      BY <1>5, <2>2 DEF IdsApart
    <3>2. \A n \in DOMAIN toClient' : toClient'[n].id \notin running
      BY <1>5, <2>2 DEF IdsApart
    <3>3. \A n \in DOMAIN toServer', m \in DOMAIN toClient' : toServer'[n].id # toClient'[m].id
      BY <1>5, <2>2
    <3> QED BY <1>5, <1>7, <3>1, <3>2, <3>3 DEF IdsApart
  <2>4. LaneTypes'
    BY <1>1, <1>3, <1>7, <2>2 DEF LaneTypes
  <2> QED BY <1>1, <1>3, <1>7, <2>2, <2>3, <2>4
<1> QED BY <1>1, <1>3, <1>6, <1>7

\* An update ends: its answer is on its way.
LEMMA ServerAnswers ==
    ASSUME LaneTypes, IdsApart, NEW id \in running, NEW ok \in BOOLEAN, Lanes!Updates(id, ok)
    PROVE  /\ LaneTypes' /\ IdsApart' /\ running' = running \ {id} /\ toServer' = toServer
           /\ \A n \in DOMAIN toClient : n \in DOMAIN toClient' /\ toClient'[n] = toClient[n]
           /\ \A n \in DOMAIN toClient' : \/ n \in DOMAIN toClient /\ toClient'[n] = toClient[n]
                                          \/ toClient'[n].id = id
           /\ \E n \in DOMAIN toClient' : toClient'[n].id = id
<1> DEFINE c == Lanes!Call(id, "answer")
<1>1. /\ UNCHANGED <<toServer, inFlight, injected, open>> /\ running' = running \ {id}
      /\ toClient' = Append(toClient, c)
  BY DEF Lanes!Updates, Lanes!lane, Lanes!Says
<1>2. /\ toServer \in Seq(CallRecord) /\ toClient \in Seq(CallRecord) /\ Len(toClient) \in Nat
      /\ DOMAIN toClient = 1..Len(toClient) /\ running \subseteq LaneIds /\ IsFiniteSet(running)
  BY DEF LaneTypes
<1>3. c \in CallRecord /\ c.id = id
  BY <1>2 DEF CallRecord, Lanes!Call
<1> HIDE DEF c
<1>4. /\ toClient' \in Seq(CallRecord)
      /\ \A n \in DOMAIN toClient : n \in DOMAIN toClient' /\ toClient'[n] = toClient[n]
      /\ \A n \in DOMAIN toClient' : \/ n \in DOMAIN toClient /\ toClient'[n] = toClient[n]
                                     \/ n = Len(toClient) + 1 /\ toClient'[n].id = id
      /\ Len(toClient) + 1 \in DOMAIN toClient' /\ toClient'[Len(toClient) + 1].id = id
  BY <1>1, <1>2, <1>3
<1>5. IsFiniteSet(running') /\ running' \subseteq LaneIds
  BY <1>1, <1>2, FS_RemoveElement
<1>6. /\ \A n \in DOMAIN toServer : toServer[n].id # id
      /\ \A n \in DOMAIN toClient : toClient[n].id # id
  BY DEF IdsApart
<1>7. IdsApart'
  <2>1. \A n, m \in DOMAIN toClient' : toClient'[n].id = toClient'[m].id => n = m
    BY <1>4, <1>6 DEF IdsApart
  <2>2. \A n \in DOMAIN toClient' : toClient'[n].id \notin running'
    BY <1>1, <1>4, <1>6 DEF IdsApart
  <2>3. \A n \in DOMAIN toServer, m \in DOMAIN toClient' : toServer[n].id # toClient'[m].id
    BY <1>4, <1>6 DEF IdsApart
  <2> QED BY <1>1, <2>1, <2>2, <2>3 DEF IdsApart
<1>8. LaneTypes'
  BY <1>1, <1>4, <1>5 DEF LaneTypes
<1> QED BY <1>1, <1>4, <1>7, <1>8

LEMMA LaneEnds ==
    ASSUME LaneTypes, Lanes!Exits
    PROVE  LaneTypes' /\ IdsApart' /\ toServer' = <<>> /\ toClient' = <<>> /\ running' = {} /\ late' = {} /\ ~watching'
<1>1. /\ toServer' = <<>> /\ toClient' = <<>> /\ running' = {} /\ late' = {} /\ watching' = FALSE
      /\ UNCHANGED <<inFlight, injected, open>>
  BY DEF Lanes!Exits, Lanes!lane
<1> QED BY <1>1, FS_EmptySet DEF LaneTypes, IdsApart

-----------------------------------------------------------------------------
(* The daemon, by itself *)

LEMMA DaemonMoves ==
    ASSUME LaneLimits, Lane = "daemon", DaemonInv, [Lanes!Next]_Lanes!vars
    PROVE  DaemonInv'
<1> USE DEF DaemonInv
<1>1. CASE UNCHANGED Lanes!vars \/ Lanes!Stop
  BY <1>1 DEF Lanes!vars, Lanes!Stop, Lanes!server, Lanes!lane, LaneTypes, IdsApart, StopIsFirst
<1>2. CASE Lanes!Exits
  BY <1>2, LaneEnds
<1>0. /\ 0 \notin LaneIds
      /\ \A n \in DOMAIN toServer : toServer[n] \in CallRecord /\ n \in Nat /\ n > 0 /\ n <= Len(toServer) /\ toServer[n].id \in LaneIds
      /\ \A n \in DOMAIN toClient : toClient[n].id \in LaneIds
      /\ running \subseteq LaneIds
  <2>1. 0 \notin LaneIds
    BY DEF LaneLimits, LaneIds, Lanes!HostIds
  <2>2. /\ \A n \in DOMAIN toServer : toServer[n] \in CallRecord /\ n \in Nat /\ n > 0 /\ n <= Len(toServer)
        /\ \A n \in DOMAIN toClient : toClient[n] \in CallRecord
    BY DEF LaneTypes
  <2>3. \A c \in CallRecord : c.id \in LaneIds
    BY DEF CallRecord
  <2>4. running \subseteq LaneIds
    BY DEF LaneTypes
  <2> QED BY <2>1, <2>2, <2>3, <2>4
<1>3. CASE Lanes!Handles
  <2>1. /\ LaneTypes' /\ IdsApart' /\ 1 \in DOMAIN toServer
        /\ \A n \in DOMAIN toServer' : n + 1 \in DOMAIN toServer /\ toServer'[n] = toServer[n + 1]
        /\ toServer[1].call = "update" => toClient' = toClient /\ running' = running \cup {toServer[1].id}
        /\ toServer[1].call # "update" => running' = running
    BY <1>3, ServerTakes
  <2>2. Head(toServer) = toServer[1] /\ inFlight' = inFlight
    BY <1>3, ServerTakes DEF Lanes!Handles, Lanes!lane
  <2>3. toServer[1].call \in {"update", "stop"}
    BY <2>1
  <2>4. late' = {}
    BY <1>3, <2>2, <2>3 DEF Lanes!Handles
  <2>5. running' \subseteq {inFlight'}
    BY <2>1, <2>2, <2>3
  <2>6. \A n \in DOMAIN toServer' : /\ toServer'[n].call \in {"update", "stop"}
                                    /\ toServer'[n].call = "update" <=> toServer'[n].id = inFlight'
    BY <2>1, <2>2
  <2>7. ~watching'
    <3>1. CASE toServer[1].call = "stop"
      BY <1>3, <2>2, <3>1 DEF Lanes!Handles
    <3>2. CASE toServer[1].call = "update"
      <4>1. ~StopIsFirst
        BY <1>0, <2>1, <3>2 DEF StopIsFirst, IdsApart
      <4> QED BY <1>3, <2>2, <3>2, <4>1 DEF Lanes!Handles
    <3> QED BY <2>3, <3>1, <3>2
  <2> QED BY <2>1, <2>4, <2>5, <2>6, <2>7
<1>4. CASE \E id \in running, ok \in BOOLEAN : Lanes!Updates(id, ok)
  <2>1. PICK id \in running, ok \in BOOLEAN : Lanes!Updates(id, ok)
    BY <1>4
  <2>2. /\ LaneTypes' /\ IdsApart' /\ running' = running \ {id} /\ toServer' = toServer
        /\ \E n \in DOMAIN toClient' : toClient'[n].id = id
    BY <2>1, ServerAnswers
  <2>3. inFlight' = inFlight /\ late' = {} /\ id = inFlight
    BY <2>1 DEF Lanes!Updates, Lanes!lane
  <2>4. running' = {} /\ StopIsFirst'
    BY <2>2, <2>3 DEF StopIsFirst
  <2> QED BY <2>2, <2>3, <2>4
<1>5. CASE Lanes!Tick
  <2> DEFINE new == Lanes!Call(Lanes!Fresh, "update")
  <2>1. /\ inFlight = 0 /\ inFlight' = Lanes!Fresh /\ toServer' = Append(toServer, new)
        /\ UNCHANGED <<toClient, running, late, watching, injected, open>>
    BY <1>5 DEF Lanes!Tick, Lanes!MayTick, Lanes!server
  <2>2. Lanes!Fresh \in OwnIds /\ Unused(Lanes!Fresh)
    BY FreshIsUnused
  <2>3. new \in CallRecord /\ new.id = Lanes!Fresh /\ new.call = "update"
    BY <2>2 DEF CallRecord, Lanes!Call, LaneIds
  <2> HIDE DEF new
  <2>4. /\ toServer' \in Seq(CallRecord) /\ toClient' \in Seq(CallRecord) /\ IdsApart'
        /\ \A n \in DOMAIN toServer' : \/ n \in DOMAIN toServer /\ toServer'[n] = toServer[n]
                                       \/ n = Len(toServer) + 1 /\ toServer'[n] = new
        /\ \A n \in DOMAIN toServer : n \in DOMAIN toServer' /\ toServer'[n] = toServer[n] /\ n < Len(toServer) + 1
    BY <2>1, <2>2, <2>3, LaneSends
  <2>5. LaneTypes'
    BY <2>1, <2>2, <2>4 DEF LaneTypes
  <2>6. running' = {} /\ late' = {}
    BY <1>0, <2>1
  <2>7. \A n \in DOMAIN toServer : toServer[n].call = "stop" /\ toServer[n].id # Lanes!Fresh
    BY <1>0, <2>1, <2>2 DEF Unused
  <2>8. \A n \in DOMAIN toServer' : /\ toServer'[n].call \in {"update", "stop"}
                                    /\ toServer'[n].call = "update" <=> toServer'[n].id = inFlight'
    BY <2>1, <2>3, <2>4, <2>7
  <2>9. ASSUME StopIsFirst PROVE StopIsFirst'
    <3>1. PICK n \in DOMAIN toServer : toServer[n].call = "stop"
      BY <1>0, <2>1, <2>9 DEF StopIsFirst
    <3>2. n \in DOMAIN toServer' /\ toServer'[n].call = "stop"
      BY <2>4, <3>1
    <3>3. \A m \in DOMAIN toServer' : toServer'[m].call = "update" => n < m
      BY <2>4, <2>7, <3>1
    <3> QED BY <3>2, <3>3 DEF StopIsFirst
  <2> QED BY <2>1, <2>4, <2>5, <2>6, <2>8, <2>9
<1>6. CASE Lanes!DaemonReads /\ inFlight # 0 /\ Head(toClient).id = inFlight
  <2> DEFINE new == Lanes!Call(Lanes!Fresh, "stop")
  <2>1. /\ toClient # <<>> /\ toClient' = Tail(toClient) /\ inFlight' = 0 /\ toServer' = Append(toServer, new)
        /\ UNCHANGED <<running, late, watching, injected, open>>
    BY <1>6 DEF Lanes!DaemonReads, Lanes!server
  <2>2. Lanes!Fresh \in OwnIds /\ Unused(Lanes!Fresh)
    BY FreshIsUnused
  <2>3. new \in CallRecord /\ new.id = Lanes!Fresh /\ new.call = "stop"
    BY <2>2 DEF CallRecord, Lanes!Call, LaneIds
  <2> HIDE DEF new
  <2>4. /\ toServer' \in Seq(CallRecord) /\ toClient' \in Seq(CallRecord) /\ IdsApart'
        /\ \A n \in DOMAIN toServer' : \/ n \in DOMAIN toServer /\ toServer'[n] = toServer[n]
                                       \/ n = Len(toServer) + 1 /\ toServer'[n] = new
        /\ Len(toServer) + 1 \in DOMAIN toServer' /\ toServer'[Len(toServer) + 1] = new
    BY <2>1, <2>2, <2>3, LaneSends
  <2>5. LaneTypes'
    BY <2>1, <2>2, <2>4 DEF LaneTypes
  <2>6. \E n \in DOMAIN toClient : toClient[n].id = inFlight
    BY <1>6, <2>1, TailParts DEF LaneTypes
  <2>7. \A n \in DOMAIN toServer : toServer[n].call = "stop"
    BY <2>6 DEF IdsApart
  <2>8. running' = {}
    BY <2>1, <2>6 DEF IdsApart
  <2>9. \A n \in DOMAIN toServer' : toServer'[n].call = "stop" /\ toServer'[n].id # 0
    BY <1>0, <2>2, <2>3, <2>4, <2>7 DEF LaneLimits
  <2>10. StopIsFirst'
    BY <2>4, <2>9 DEF StopIsFirst
  <2> QED BY <2>1, <2>4, <2>5, <2>8, <2>9, <2>10
<1>7. CASE Lanes!DaemonReads /\ ~(inFlight # 0 /\ Head(toClient).id = inFlight)
  <2>1. /\ toClient # <<>> /\ toClient' = Tail(toClient) /\ toServer' = toServer
        /\ UNCHANGED <<running, late, watching, inFlight, injected, open>>
    BY <1>7 DEF Lanes!DaemonReads, Lanes!server
  <2>2. toClient' \in Seq(CallRecord) /\ IdsApart'
    BY <2>1, LaneReads
  <2>3. LaneTypes'
    BY <2>1, <2>2 DEF LaneTypes
  <2>4. ASSUME StopIsFirst PROVE StopIsFirst'
    <3>1. CASE \E n \in DOMAIN toClient : toClient[n].id = inFlight
      <4>1. PICK n \in DOMAIN toClient : toClient[n].id = inFlight
        BY <3>1
      <4>2. n # 1
        BY <1>0, <1>7, <2>1, <4>1, TailParts DEF LaneTypes
      <4>3. n - 1 \in DOMAIN toClient' /\ toClient'[n - 1] = toClient[n]
        BY <2>1, <4>1, <4>2, TailParts DEF LaneTypes
      <4> QED BY <2>1, <4>1, <4>3 DEF StopIsFirst
    <3>2. CASE ~\E n \in DOMAIN toClient : toClient[n].id = inFlight
      BY <2>1, <2>4, <3>2 DEF StopIsFirst
    <3> QED BY <3>1, <3>2
  <2> QED BY <2>1, <2>2, <2>3, <2>4
<1>8. CASE Lanes!Sweep
  <2> DEFINE new == Lanes!Call(Lanes!Fresh, "stop")
  <2>1. /\ toServer' = Append(toServer, new) /\ injected' = injected
        /\ UNCHANGED <<toClient, running, late, watching, inFlight, open>>
    BY <1>8 DEF Lanes!Sweep, Lanes!server
  <2>2. Lanes!Fresh \in OwnIds /\ Unused(Lanes!Fresh)
    BY FreshIsUnused
  <2>3. new \in CallRecord /\ new.id = Lanes!Fresh /\ new.call = "stop"
    BY <2>2 DEF CallRecord, Lanes!Call, LaneIds
  <2> HIDE DEF new
  <2>4. /\ toServer' \in Seq(CallRecord) /\ toClient' \in Seq(CallRecord) /\ IdsApart'
        /\ \A n \in DOMAIN toServer' : \/ n \in DOMAIN toServer /\ toServer'[n] = toServer[n]
                                       \/ n = Len(toServer) + 1 /\ toServer'[n] = new
        /\ \A n \in DOMAIN toServer : n \in DOMAIN toServer' /\ toServer'[n] = toServer[n]
    BY <2>1, <2>2, <2>3, LaneSends
  <2>5. LaneTypes'
    BY <2>1, <2>4 DEF LaneTypes
  <2>6. new.id # inFlight
    BY <2>2, <2>3 DEF Unused
  <2>7. \A n \in DOMAIN toServer' : /\ toServer'[n].call \in {"update", "stop"}
                                    /\ toServer'[n].call = "update" <=> toServer'[n].id = inFlight'
    BY <2>1, <2>3, <2>4, <2>6
  <2>8. StopIsFirst => StopIsFirst'
    BY <2>1, <2>3, <2>4 DEF StopIsFirst
  <2> QED BY <2>1, <2>4, <2>5, <2>7, <2>8
<1>9. CASE \/ \E id \in late : Lanes!WatcherStarts(id)
           \/ Lanes!ProxyReads
           \/ \E id \in Lanes!HostIds, what \in {"update", "query"} : Lanes!HostCalls(id, what)
  BY <1>9 DEF Lanes!ProxyReads, Lanes!HostCalls
<1> QED BY <1>1, <1>2, <1>3, <1>4, <1>5, <1>6, <1>7, <1>8, <1>9 DEF Lanes!Next

\* The daemon never has two updates embedding at once, nor an update while the watcher an
\* earlier one left is still on (socraticode-local-watch.mjs 16-29).
THEOREM OneEmbeddingRunHolds ==
    ASSUME LaneLimits
    PROVE  Lanes!Spec => []Lanes!OneEmbeddingRun
<1>1. CASE Lane = "daemon"
  <2>1. Lanes!Init => DaemonInv
    BY FS_EmptySet DEF Lanes!Init, DaemonInv, LaneTypes, IdsApart
  <2>2. DaemonInv /\ [Lanes!Next]_Lanes!vars => DaemonInv'
    BY <1>1, DaemonMoves
  <2>3. ASSUME DaemonInv PROVE Lanes!OneEmbeddingRun
    <3>1. running \subseteq {inFlight} /\ (running # {} => ~watching)
      BY <2>3 DEF DaemonInv
    <3>2. Lanes!Cardinality(running) <= 1
      <4>1. IsFiniteSet({inFlight}) /\ Cardinality({inFlight}) = 1
        BY FS_Singleton
      <4>2. running \in SUBSET {inFlight}
        BY <3>1
      <4>3. Cardinality(running) <= Cardinality({inFlight})
        BY <4>1, <4>2, FS_Subset
      <4>4. Cardinality(running) <= 1
        BY <4>1, <4>3
      <4> QED BY <4>4 DEF Cardinality, Lanes!Cardinality
    <3> QED BY <3>1, <3>2 DEF Lanes!OneEmbeddingRun
  <2> QED BY <2>1, <2>2, <2>3, PTL DEF Lanes!Spec
<1>2. CASE Lane # "daemon"
  <2>1. Lanes!OneEmbeddingRun
    BY <1>2 DEF Lanes!OneEmbeddingRun
  <2> QED BY <2>1, PTL
<1> QED BY <1>1, <1>2

-----------------------------------------------------------------------------
(* The proxy *)

\* The sequence of answers grows by one that was waited for, or not at all.
LEMMA HeardGrows ==
    ASSUME NEW s \in Seq(Lanes!HostIds), NEW x \in Lanes!HostIds, Lanes!IsInjective(s),
           \A n \in DOMAIN s : s[n] # x
    PROVE  /\ Append(s, x) \in Seq(Lanes!HostIds) /\ Lanes!IsInjective(Append(s, x))
           /\ \A n \in DOMAIN Append(s, x) : Append(s, x)[n] = x \/ (n \in DOMAIN s /\ Append(s, x)[n] = s[n])
<1> DEFINE t == Append(s, x)
<1>1. /\ t \in Seq(Lanes!HostIds) /\ Len(s) \in Nat /\ DOMAIN s = 1..Len(s)
      /\ \A n \in DOMAIN t : \/ n \in DOMAIN s /\ t[n] = s[n]
                             \/ n = Len(s) + 1 /\ t[n] = x
  OBVIOUS
<1> HIDE DEF t
<1>2. \A a, b \in DOMAIN t : t[a] = t[b] => a = b
  BY <1>1 DEF Lanes!IsInjective
<1>3. /\ t \in Seq(Lanes!HostIds) /\ \A a, b \in DOMAIN t : t[a] = t[b] => a = b
      /\ \A n \in DOMAIN t : t[n] = x \/ (n \in DOMAIN s /\ t[n] = s[n])
  BY <1>1, <1>2
<1> QED BY ONLY <1>3 DEF t, Lanes!IsInjective

LEMMA ProxyMoves ==
    ASSUME LaneLimits, Lane = "proxy", ProxyInv, [Lanes!Next]_Lanes!vars
    PROVE  ProxyInv'
<1> USE DEF ProxyInv
<1>1. CASE \/ UNCHANGED Lanes!vars \/ Lanes!Stop \/ \E id \in late : Lanes!WatcherStarts(id)
  <2>1. UNCHANGED <<toServer, toClient, running, inFlight, injected, open, heard>>
    BY <1>1 DEF Lanes!vars, Lanes!Stop, Lanes!server, Lanes!lane, Lanes!WatcherStarts
  <2> QED BY <2>1 DEF LaneTypes, IdsApart
<1>2. CASE Lanes!Exits
  <2>1. LaneTypes' /\ IdsApart' /\ toServer' = <<>> /\ toClient' = <<>> /\ running' = {}
    BY <1>2, LaneEnds
  <2>2. UNCHANGED <<injected, open, heard>>
    BY <1>2 DEF Lanes!Exits, Lanes!lane
  <2> QED BY <2>1, <2>2
<1>3. CASE Lanes!Handles
  <2>1. UNCHANGED <<injected, open, heard>>
    BY <1>3 DEF Lanes!Handles, Lanes!lane
  <2>2. /\ LaneTypes' /\ IdsApart' /\ 1 \in DOMAIN toServer
        /\ \A n \in DOMAIN toServer' : n + 1 \in DOMAIN toServer /\ toServer'[n] = toServer[n + 1]
        /\ \A n \in DOMAIN toClient' : \/ n \in DOMAIN toClient /\ toClient'[n] = toClient[n]
                                       \/ toClient'[n].id = toServer[1].id
        /\ toServer[1].call = "update" => running' = running \cup {toServer[1].id}
        /\ toServer[1].call # "update" => running' = running
    BY <1>3, ServerTakes
  <2>3. running' \subseteq open'
    BY <2>1, <2>2
  <2>4. \A n \in DOMAIN toServer' : toServer'[n].id \in open' \cup injected'
                                    /\ (toServer'[n].call = "update" => toServer'[n].id \in open')
    BY <2>1, <2>2
  <2>5. \A n \in DOMAIN toClient' : toClient'[n].id \in open' \cup injected'
    BY <2>1, <2>2
  <2> QED BY <2>1, <2>2, <2>3, <2>4, <2>5
<1>4. CASE \E id \in running, ok \in BOOLEAN : Lanes!Updates(id, ok)
  <2>1. PICK id \in running, ok \in BOOLEAN : Lanes!Updates(id, ok)
    BY <1>4
  <2>2. UNCHANGED <<injected, open, heard>>
    BY <2>1 DEF Lanes!Updates, Lanes!lane
  <2>3. /\ LaneTypes' /\ IdsApart' /\ running' = running \ {id} /\ toServer' = toServer
        /\ \A n \in DOMAIN toClient' : \/ n \in DOMAIN toClient /\ toClient'[n] = toClient[n]
                                       \/ toClient'[n].id = id
    BY <2>1, ServerAnswers
  <2>4. \A n \in DOMAIN toClient' : toClient'[n].id \in open' \cup injected'
    BY <2>2, <2>3
  <2> QED BY <2>2, <2>3, <2>4
<1>5. CASE Lanes!Sweep
  <2> DEFINE new == Lanes!Call(Lanes!Fresh, "stop")
  <2>1. /\ toServer' = Append(toServer, new) /\ injected' = injected \cup {Lanes!Fresh}
        /\ UNCHANGED <<toClient, running, inFlight, open, heard>>
    BY <1>5 DEF Lanes!Sweep, Lanes!server
  <2>2. Lanes!Fresh \in OwnIds /\ Unused(Lanes!Fresh)
    BY FreshIsUnused
  <2>3. new \in CallRecord /\ new.id = Lanes!Fresh /\ new.call = "stop"
    BY <2>2 DEF CallRecord, Lanes!Call, LaneIds
  <2> HIDE DEF new
  <2>4. /\ toServer' \in Seq(CallRecord) /\ toClient' \in Seq(CallRecord) /\ IdsApart'
        /\ \A n \in DOMAIN toServer' : \/ n \in DOMAIN toServer /\ toServer'[n] = toServer[n]
                                       \/ n = Len(toServer) + 1 /\ toServer'[n] = new
    BY <2>1, <2>2, <2>3, LaneSends
  <2>5. injected' \subseteq OwnIds /\ IsFiniteSet(injected')
    BY <2>1, <2>2, FS_AddElement DEF LaneTypes
  <2>6. LaneTypes'
    BY <2>1, <2>4, <2>5 DEF LaneTypes
  <2>7. \A n \in DOMAIN toServer' : toServer'[n].id \in open' \cup injected'
                                    /\ (toServer'[n].call = "update" => toServer'[n].id \in open')
    BY <2>1, <2>3, <2>4
  <2>8. \A n \in DOMAIN toClient' : toClient'[n].id \in open' \cup injected'
    BY <2>1
  <2> QED BY <2>1, <2>4, <2>6, <2>7, <2>8
<1>6. CASE \E id \in Lanes!HostIds, what \in {"update", "query"} : Lanes!HostCalls(id, what)
  <2>1. PICK id \in Lanes!HostIds, what \in {"update", "query"} : Lanes!HostCalls(id, what)
    BY <1>6
  <2> DEFINE new == Lanes!Call(id, what)
  <2>2. /\ toServer' = Append(toServer, new) /\ open' = open \cup {id}
        /\ id \notin open /\ id \notin Lanes!Range(heard)
        /\ UNCHANGED <<toClient, running, inFlight, injected, heard>>
    BY <2>1 DEF Lanes!HostCalls, Lanes!server
  <2>3. id \notin OwnIds /\ id # 0
    BY DEF LaneLimits, Lanes!HostIds
  <2>4. id \notin injected /\ id # inFlight
    BY <2>3 DEF LaneTypes
  <2>5. Unused(id)
    BY <2>2, <2>4 DEF Unused
  <2>6. new \in CallRecord /\ new.id = id
    BY DEF CallRecord, Lanes!Call, LaneIds
  <2> HIDE DEF new
  <2>7. /\ toServer' \in Seq(CallRecord) /\ toClient' \in Seq(CallRecord) /\ IdsApart'
        /\ \A n \in DOMAIN toServer' : \/ n \in DOMAIN toServer /\ toServer'[n] = toServer[n]
                                       \/ n = Len(toServer) + 1 /\ toServer'[n] = new
    BY <2>2, <2>5, <2>6, LaneSends
  <2>8. LaneTypes'
    BY <2>2, <2>7 DEF LaneTypes
  <2>9. \A n \in DOMAIN toServer' : toServer'[n].id \in open' \cup injected'
                                    /\ (toServer'[n].call = "update" => toServer'[n].id \in open')
    BY <2>2, <2>6, <2>7
  <2>10. /\ \A n \in DOMAIN toClient' : toClient'[n].id \in open' \cup injected'
         /\ running' \subseteq open'
    BY <2>2
  <2>11. \A n \in DOMAIN heard' : heard'[n] \notin open'
    BY <2>2 DEF Lanes!Range
  <2> QED BY <2>2, <2>7, <2>8, <2>9, <2>10, <2>11
<1>7. CASE Lanes!ProxyReads
  <2> DEFINE x == Head(toClient).id
             stops == x \in noted /\ life = "up" /\ ~Lanes!Swallowed(Head(toClient))
             new == Lanes!Call(Lanes!Fresh, "stop")
  <2>1. /\ toClient # <<>> /\ toClient' = Tail(toClient) /\ open' = open \ {x}
        /\ heard' = IF x \in injected THEN heard ELSE Append(heard, x)
        /\ injected' = (injected \ {x}) \cup (IF stops THEN {Lanes!Fresh} ELSE {})
        /\ toServer' = IF stops THEN Append(toServer, new) ELSE toServer
        /\ UNCHANGED <<running, inFlight>>
    BY <1>7 DEF Lanes!ProxyReads, Lanes!server, Lanes!Swallowed
  <2>2. Lanes!Fresh \in OwnIds /\ Unused(Lanes!Fresh)
    BY FreshIsUnused
  <2>3. new \in CallRecord /\ new.id = Lanes!Fresh /\ new.call = "stop"
    BY <2>2 DEF CallRecord, Lanes!Call, LaneIds
  <2> HIDE DEF new, stops
  <2>4. /\ toServer' \in Seq(CallRecord) /\ toClient' \in Seq(CallRecord) /\ IdsApart'
        /\ \A n \in DOMAIN toServer' : \/ n \in DOMAIN toServer /\ toServer'[n] = toServer[n]
                                       \/ stops /\ toServer'[n] = new
    <3>1. CASE stops
      BY <2>1, <2>2, <2>3, <3>1, LaneSends
    <3>2. CASE ~stops
      BY <2>1, <3>2, LaneReads DEF LaneTypes
    <3> QED BY <3>1, <3>2
  <2>5. /\ 1 \in DOMAIN toClient /\ x = toClient[1].id
        /\ \A n \in DOMAIN toClient' : n > 0 /\ n \in Nat /\ n + 1 \in DOMAIN toClient /\ toClient'[n] = toClient[n + 1]
    BY <2>1, TailParts DEF LaneTypes
  <2> HIDE DEF x
  <2>6. injected' \subseteq OwnIds /\ IsFiniteSet(injected')
    <3>1. IsFiniteSet(injected \ {x}) /\ injected \ {x} \subseteq OwnIds
      BY FS_RemoveElement DEF LaneTypes
    <3>2. CASE stops
      BY <2>1, <2>2, <3>1, <3>2, FS_AddElement
    <3>3. CASE ~stops
      BY <2>1, <3>1, <3>3
    <3> QED BY <3>2, <3>3
  <2>7. LaneTypes'
    BY <2>1, <2>4, <2>6 DEF LaneTypes
  <2>8. /\ \A n \in DOMAIN toServer : toServer[n].id # x
        /\ \A n \in DOMAIN toClient' : toClient'[n].id # x
        /\ x \notin running /\ x \in open \cup injected
    <3>1. \A n \in DOMAIN toClient' : n + 1 # 1
      BY <2>5
    <3>2. \A n \in DOMAIN toClient' : toClient'[n].id # x
      BY <2>5, <3>1 DEF IdsApart
    <3> QED BY <2>5, <3>2 DEF IdsApart
  <2>9. \A n \in DOMAIN toServer' : toServer'[n].id \in open' \cup injected'
                                    /\ (toServer'[n].call = "update" => toServer'[n].id \in open')
    <3>1. \A n \in DOMAIN toServer : toServer[n].id \in open' \cup injected'
                                     /\ (toServer[n].call = "update" => toServer[n].id \in open')
      BY <2>1, <2>8
    <3>2. stops => new.id \in injected' /\ new.call # "update"
      BY <2>1, <2>3
    <3> QED BY <2>4, <3>1, <3>2
  <2>10. \A n \in DOMAIN toClient' : toClient'[n].id \in open' \cup injected'
    BY <2>1, <2>5, <2>8
  <2>11. running' \subseteq open'
    BY <2>1, <2>8
  <2>12. /\ heard' \in Seq(Lanes!HostIds) /\ Lanes!IsInjective(heard')
         /\ \A n \in DOMAIN heard' : heard'[n] \notin open'
    <3>1. CASE x \in injected
      BY <2>1, <3>1 DEF Lanes!IsInjective
    <3>2. CASE x \notin injected
      <4>1. x \in open /\ x \in Lanes!HostIds
        BY <2>8, <3>2 DEF LaneTypes
      <4>2. \A n \in DOMAIN heard : heard[n] # x
        BY <4>1
      <4>3. heard' = Append(heard, x)
        BY <2>1, <3>2
      <4>4. /\ Append(heard, x) \in Seq(Lanes!HostIds) /\ Lanes!IsInjective(Append(heard, x))
            /\ \A n \in DOMAIN Append(heard, x) : \/ Append(heard, x)[n] = x
                                                  \/ n \in DOMAIN heard /\ Append(heard, x)[n] = heard[n]
        BY <4>1, <4>2, HeardGrows
      <4>5. \A n \in DOMAIN heard' : heard'[n] \notin open'
        BY <2>1, <4>3, <4>4
      <4>6. Lanes!IsInjective(heard')
        BY <4>3, <4>4 DEF Lanes!IsInjective
      <4> QED BY <4>3, <4>4, <4>5, <4>6
    <3> QED BY <3>1, <3>2
  <2> QED BY <2>4, <2>7, <2>9, <2>10, <2>11, <2>12
<1>8. CASE Lanes!Tick \/ Lanes!DaemonReads
  BY <1>8 DEF Lanes!Tick, Lanes!MayTick, Lanes!DaemonReads
<1> QED BY <1>1, <1>2, <1>3, <1>4, <1>5, <1>6, <1>7, <1>8 DEF Lanes!Next

\* The host gets the answer to each of its calls once, and nothing it did not ask for
\* (socraticode-local-mcp-proxy.mjs 58-60); the daemon has no host.
THEOREM HostHearsItsOwnHolds ==
    ASSUME LaneLimits
    PROVE  Lanes!Spec => []Lanes!HostHearsItsOwn
<1>1. CASE Lane = "proxy"
  <2>1. Lanes!Init => ProxyInv
    BY FS_EmptySet DEF Lanes!Init, ProxyInv, LaneTypes, IdsApart, Lanes!IsInjective
  <2>2. ProxyInv /\ [Lanes!Next]_Lanes!vars => ProxyInv'
    BY <1>1, ProxyMoves
  <2>3. ProxyInv => Lanes!HostHearsItsOwn
    BY DEF ProxyInv, Lanes!HostHearsItsOwn, Lanes!Range
  <2> QED BY <2>1, <2>2, <2>3, PTL DEF Lanes!Spec
<1>2. CASE Lane # "proxy"
  <2>1. Lanes!Init => heard = <<>>
    BY DEF Lanes!Init
  <2>2. heard = <<>> /\ [Lanes!Next]_Lanes!vars => (heard = <<>>)'
    BY <1>2 DEF Lanes!Next, Lanes!vars, Lanes!lane, Lanes!Handles, Lanes!Tick, Lanes!DaemonReads, Lanes!Sweep,
       Lanes!ProxyReads, Lanes!Stop, Lanes!Exits, Lanes!Updates, Lanes!WatcherStarts, Lanes!HostCalls
  <2>3. heard = <<>> => Lanes!HostHearsItsOwn
    BY DEF Lanes!HostHearsItsOwn, Lanes!Range, Lanes!IsInjective
  <2> QED BY <2>1, <2>2, <2>3, PTL DEF Lanes!Spec
<1> QED BY <1>1, <1>2
=============================================================================
