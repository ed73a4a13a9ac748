-------------------------- MODULE KnowledgeFindings --------------------------
(***************************************************************************)
(* dashboard/server/src/services/knowledgeReviews.ts and                     *)
(* knowledgeDecisions.ts: the findings that are open across all audits, the   *)
(* operator's answers to those only a human can close, and the brief that     *)
(* selects what a re-check run looks at.  A run takes a brief when it starts  *)
(* and reports in an audit when it ends; answers are recorded meanwhile.      *)
(* What a finding is about (its note, priority, evidence) does not change     *)
(* here from one audit to the next.                                          *)
(***************************************************************************)
EXTENDS Integers, Sequences, FiniteSets, FiniteSetsExt

CONSTANTS
    Findings,       \* fingerprints, as 1..n: their order is the order of their text
    NoteOf,         \* the note of each, as a number ordered like its path
    Priority,       \* PRIORITY_RANK of each: 0 is critical
    Human,          \* those that only a human can close
    InScope,        \* those whose note the auto-write policy covers
    Confirmed,      \* those with confirmed evidence
    MaxNotes, MaxFindings, MaxAnswers,   \* BRIEF_LIMITS
    Overtaking,     \* whether audits that were not told of an answer may report its finding
    Cooldown,       \* RECHECK_COOLDOWN_HOURS
    MaxAudits, MaxDecisions, MaxTime     \* bounds

VARIABLES
    audits,     \* what each audit reported, and when (generatedAt)
    ledger,     \* human-decisions.yaml
    answering,  \* answers found acceptable that wait for the ledger
    run,        \* the re-check run under way, with its brief
    looked,     \* the findings that were in a brief
    runs,       \* runs started
    now         \* no two audits and answers come at the same time

vars == <<audits, ledger, answering, run, looked, runs, now>>

Statuses == {"new", "recurring", "resolved", "suppressed"}
Answers == {"settled", "defer"}

\* told: the answers its run was given; a session's own audit was given none.
Audit == [at : 0..MaxTime, id : 1..MaxAudits, told : SUBSET (1..MaxDecisions),
          status : [Findings -> Statuses \cup {"absent"}]]
Decision == [of : Findings, answer : Answers, at : 0..MaxTime]

TypeOK ==
    /\ audits \subseteq Audit
    /\ ledger \in Seq(Decision)
    /\ answering \subseteq (Findings \X Answers)
    /\ run \in [on : BOOLEAN, brief : SUBSET Findings, answers : SUBSET Findings,
               told : SUBSET (1..MaxDecisions)]
    /\ looked \subseteq Findings /\ runs \in 0..MaxAudits
    /\ now \in 0..MaxTime

NoRun == [on |-> FALSE, brief |-> {}, answers |-> {}, told |-> {}]

Init ==
    /\ audits = {[at |-> 0, id |-> 1, told |-> {}, status |-> [f \in Findings |-> "new"]]}
    /\ ledger = <<>> /\ answering = {} /\ run = NoRun
    /\ looked = {} /\ runs = 0 /\ now = Cooldown

-----------------------------------------------------------------------------
(* buildOpenFindings: each fingerprint takes what the latest audit says of it *)

Reporting(f) == {a \in audits : a.status[f] # "absent"}
Latest(f) == CHOOSE a \in Reporting(f) :
                \A b \in Reporting(f) : a.at > b.at \/ (a.at = b.at /\ a.id >= b.id)
LastReported(f) == Latest(f).at
IsOpen(f) == Reporting(f) # {} /\ Latest(f).status[f] \in {"new", "recurring"}
OpenFindings == {f \in Findings : IsOpen(f)}

\* The answer of a finding: the latest in the ledger, pending until an audit
\* after it reports the finding.
DecisionsOn(f) == {d \in DOMAIN ledger : ledger[d].of = f}

\* Slip: the first answer of a finding counts.
FirstDecision(f) == IF DecisionsOn(f) = {} THEN 0 ELSE Min(DecisionsOn(f))

LatestDecision(f) == IF DecisionsOn(f) = {} THEN 0 ELSE Max(DecisionsOn(f))

Pending(f) == LET d == LatestDecision(f)
              IN  d # 0 /\ ledger[d].answer # "defer" /\ ledger[d].at > LastReported(f)

-----------------------------------------------------------------------------
(* buildRecheckBrief for a run *)

Evidence(f) == IF f \in Confirmed THEN 0 ELSE 1

\* Confirmed evidence first, then the worst priority, then the longest unaudited.
MoreUrgent(f, g) ==
    \/ Evidence(f) < Evidence(g)
    \/ Evidence(f) = Evidence(g) /\ Priority[f] < Priority[g]
    \/ /\ Evidence(f) = Evidence(g) /\ Priority[f] = Priority[g]
       /\ LastReported(f) < LastReported(g)

SameUrgency(f, g) == ~MoreUrgent(f, g) /\ ~MoreUrgent(g, f)

Recent(f) == LastReported(f) > now - Cooldown

Considered == {f \in OpenFindings \cap InScope : f \notin Human /\ ~Recent(f)}

\* Among equals the listing's order, which comes to that of the fingerprints.
Before(f, g) == MoreUrgent(f, g) \/ (SameUrgency(f, g) /\ f < g)

OnNote(n) == {f \in Considered : NoteOf[f] = n}
Foremost(n) == CHOOSE f \in OnNote(n) : \A g \in OnNote(n) \ {f} : Before(f, g)

\* The notes in the order of their most urgent findings, then of their paths.
Notes == {NoteOf[f] : f \in Considered}
NoteBefore(n, m) ==
    \/ MoreUrgent(Foremost(n), Foremost(m))
    \/ SameUrgency(Foremost(n), Foremost(m)) /\ n < m

\* The first MaxNotes notes, taken whole until MaxFindings findings are picked.
Taken == {n \in Notes : Cardinality({m \in Notes : NoteBefore(m, n)}) < MaxNotes}

Listed(f, g) == IF NoteOf[f] = NoteOf[g] THEN Before(f, g) ELSE NoteBefore(NoteOf[f], NoteOf[g])

Picked ==
    LET whole == {f \in Considered : NoteOf[f] \in Taken}
    IN  {f \in whole : Cardinality({g \in whole : Listed(g, f)}) < MaxFindings}

\* Answers that wait for a run, oldest first, outside the caps of the notes.
AnsweredAt(f) == ledger[LatestDecision(f)].at

PendingAnswers ==
    LET waiting == {f \in OpenFindings \cap Human : Pending(f)}
        Earlier(f, g) == \/ AnsweredAt(f) < AnsweredAt(g)
                         \/ AnsweredAt(f) = AnsweredAt(g) /\ f < g
    IN  {f \in waiting : Cardinality({g \in waiting : Earlier(g, f)}) < MaxAnswers}

\* autoScopeCoverage: runs to look at every finding in scope once.
Ceil(a, b) == (a + b - 1) \div b

Covering(open) == Max({Ceil(Cardinality(open), MaxFindings),
                       Ceil(Cardinality({NoteOf[f] : f \in open}), MaxNotes)})

-----------------------------------------------------------------------------

\* The start of a round: without notes and answers there is none.
StartRun ==
    /\ ~run.on /\ Picked \cup PendingAnswers # {} /\ runs < MaxAudits
    /\ run' = [on |-> TRUE, brief |-> Picked, answers |-> PendingAnswers,
               told |-> {LatestDecision(f) : f \in PendingAnswers}]
    /\ looked' = looked \cup Picked /\ runs' = runs + 1
    /\ UNCHANGED <<audits, ledger, answering, now>>

Audited(status, told) ==
    /\ now < MaxTime /\ Cardinality(audits) < MaxAudits
    /\ now' = now + 1
    /\ audits' = audits \cup {[at |-> now', id |-> Cardinality(audits) + 1, told |-> told,
            status |-> [f \in Findings |-> IF f \in DOMAIN status THEN status[f] ELSE "absent"]]}

\* The librarian's audit reports every finding of the brief and every answered
\* one, resolved or left open; a run that fails leaves no audit.
EndRun ==
    /\ run.on
    /\ run' = NoRun
    /\ \/ UNCHANGED <<audits, now>>
       \/ \E s \in [run.brief \cup run.answers -> {"recurring", "resolved"}] : Audited(s, run.told)
    /\ UNCHANGED <<ledger, answering, looked, runs>>

\* Any session may audit a note and report a finding of it again.
SessionAudit(f) ==
    /\ f \in Human => Overtaking
    /\ \E s \in [{f} -> {"recurring", "suppressed"}] : Audited(s, {})
    /\ UNCHANGED <<ledger, answering, run, looked, runs>>

\* recordDecision: accepted for an open finding that needs one; the ledger's
\* appends then come one at a time.
AcceptAnswer(f, a) ==
    /\ IsOpen(f) /\ f \in Human
    /\ Len(ledger) + Cardinality(answering) < MaxDecisions
    /\ answering' = answering \cup {<<f, a>>}
    /\ UNCHANGED <<audits, ledger, run, looked, runs, now>>

AppendAnswer(f, a) ==
    /\ <<f, a>> \in answering /\ now < MaxTime
    /\ f \in run.answers => Overtaking
    /\ answering' = answering \ {<<f, a>>}
    /\ now' = now + 1
    /\ ledger' = Append(ledger, [of |-> f, answer |-> a, at |-> now'])
    /\ UNCHANGED <<audits, run, looked, runs>>

Tick ==
    /\ now < MaxTime
    /\ now' = now + 1
    /\ UNCHANGED <<audits, ledger, answering, run, looked, runs>>

Next ==
    \/ StartRun \/ EndRun \/ Tick
    \/ \E f \in Findings : SessionAudit(f)
    \/ \E f \in Findings, a \in Answers : AcceptAnswer(f, a) \/ AppendAnswer(f, a)

Spec == Init /\ [][Next]_vars

-----------------------------------------------------------------------------

\* knowledgeDecisions.ts 12-14: an answer to an open finding waits until a run is
\* told of it, unless it is a deferral or was answered again.  An audit that
\* reports the finding without having been told would end the wait too.
AnswersReachARun ==
    TypeOK /\ \A f \in OpenFindings : \A d \in DecisionsOn(f) :
        \/ ledger[d].answer = "defer" \/ d # Max(DecisionsOn(f))
        \/ Pending(f)
        \/ \E a \in audits : d \in a.told

\* types.ts 702: fewer runs than autoScopeCoverage says cannot look at every
\* finding in scope.  (That many need not suffice: a note cut by the cap of
\* findings takes up a place in two runs.)
ScopeTakesThatManyRuns ==
    LET start == {f \in InScope : f \notin Human}
    IN  start \subseteq looked => runs >= Covering(start)
=============================================================================
