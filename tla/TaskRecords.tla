----------------------------- MODULE TaskRecords -----------------------------
(***************************************************************************)
(* The append-only records the dashboard keeps of one task: decision.yaml     *)
(* (decisionStore.ts), open-handoffs.yaml (openHandoff.ts) and the operator's  *)
(* answers (knowledgeDecisions.ts).  An append reads the file, awaits, and     *)
(* writes it whole; appends to one file wait for each other in memory.        *)
(***************************************************************************)
EXTENDS Integers, Sequences, FiniteSets, FiniteSetsExt, SequencesExt

CONSTANTS
    Requests,       \* [decision, handoff, answer]: the requests that append to each file
    Kept,           \* HANDOFFS_KEPT
    ReadsFail,      \* whether a file that is there may fail to be read
    MaxEdits, MaxRestarts    \* bounds

VARIABLES
    file,       \* entries of each file, oldest first
    line,       \* appends that wait for each file, in order
    req,        \* the requests
    edits, restarts

vars == <<file, line, req, edits, restarts>>

Stores == {"decision", "handoff", "answer"}
All == UNION {Requests[s] : s \in Stores}
StoreOf(r) == CHOOSE s \in Stores : r \in Requests[s]

\* An entry edited by hand may be off the contract; its number is in its id (answers).
Entry == [by : All \cup {"hand"}, valid : BOOLEAN, number : Nat]

\* copy: what the append read before it writes.
Request == [at : {"idle", "checking", "queued", "writing", "recorded", "refused"}, copy : Seq(Entry)]

TypeOK ==
    /\ file \in [Stores -> Seq(Entry)]
    /\ line \in [Stores -> Seq(All)]
    /\ req \in [All -> Request]

Init ==
    /\ file = [s \in Stores |-> <<>>] /\ line = [s \in Stores |-> <<>>]
    /\ req = [r \in All |-> [at |-> "idle", copy |-> <<>>]]
    /\ edits = 0 /\ restarts = 0

-----------------------------------------------------------------------------

\* validateDecisionInput, validateDecision, openRefusal: the request is refused or goes
\* on to what it awaits before it records (the verdict it is made against, the app to open).
Asked(r) ==
    /\ req[r].at = "idle"
    /\ \E next \in {"refused", "checking"} : req' = [req EXCEPT ![r].at = next]
    /\ UNCHANGED <<file, line, edits, restarts>>

\* The open may fail, then nothing is recorded; else the append takes its place.
Enqueue(r) ==
    /\ req[r].at = "checking"
    /\ \/ req' = [req EXCEPT ![r].at = "queued"] /\ line' = [line EXCEPT ![StoreOf(r)] = Append(@, r)]
       \/ StoreOf(r) = "handoff" /\ req' = [req EXCEPT ![r].at = "refused"] /\ UNCHANGED line
    /\ UNCHANGED <<file, edits, restarts>>

\* toRecord, fromYaml, toDecision: entries off the contract are not read.
Read(entries) ==
    LET read[i \in 0..Len(entries)] ==
            IF i = 0 THEN <<>>
            ELSE IF entries[i].valid THEN Append(read[i - 1], entries[i]) ELSE read[i - 1]
    IN  read[Len(entries)]
Readable(s) == Read(file[s])

ItsTurn(r) == Head(line[StoreOf(r)]) = r

\* appendUnsafe: the file is read; a read that fails counts as an empty file.
ReadFile(r) ==
    /\ req[r].at = "queued" /\ ItsTurn(r)
    /\ \E copy \in {Readable(StoreOf(r))} \cup (IF ReadsFail THEN {<<>>} ELSE {}) :
          req' = [req EXCEPT ![r] = [at |-> "writing", copy |-> copy]]
    /\ UNCHANGED <<file, line, edits, restarts>>

CutTo(s, entries) ==
    IF s = "handoff" THEN SubSeq(entries, Max({1, Len(entries) - Kept + 1}), Len(entries)) ELSE entries

NextNumber(entries) == Max({0} \cup {entries[i].number : i \in DOMAIN entries}) + 1

Settled(r, outcome) ==
    /\ req' = [req EXCEPT ![r] = [at |-> outcome, copy |-> <<>>]]
    /\ line' = [line EXCEPT ![StoreOf(r)] = Tail(@)]
    /\ UNCHANGED <<edits, restarts>>

\* The whole file is renamed into place, or the write fails and the next append goes on.
WriteFile(r) ==
    LET s == StoreOf(r)
        new == [by |-> r, valid |-> TRUE, number |-> NextNumber(req[r].copy)]
    IN  /\ req[r].at = "writing"
        /\ \/ file' = [file EXCEPT ![s] = CutTo(s, Append(req[r].copy, new))] /\ Settled(r, "recorded")
           \/ UNCHANGED file /\ Settled(r, "refused")

\* Somebody adds an entry to a file no append is at: only the dashboard is to write it.
HandEdit(s) ==
    /\ edits < MaxEdits /\ line[s] = <<>>
    /\ edits' = edits + 1
    /\ file' = [file EXCEPT ![s] = Append(@, [by |-> "hand", valid |-> FALSE, number |-> 0])]
    /\ UNCHANGED <<line, req, restarts>>

Restart ==
    /\ restarts < MaxRestarts
    /\ restarts' = restarts + 1
    /\ line' = [s \in Stores |-> <<>>]
    /\ req' = [r \in All |-> IF req[r].at \in {"checking", "queued", "writing"}
                             THEN [at |-> "refused", copy |-> <<>>] ELSE req[r]]
    /\ UNCHANGED <<file, edits>>

Next ==
    \/ \E r \in All : Asked(r) \/ Enqueue(r) \/ ReadFile(r) \/ WriteFile(r)
    \/ \E s \in Stores : HandEdit(s)
    \/ Restart

Spec == Init /\ [][Next]_vars

-----------------------------------------------------------------------------

\* decisionStore.ts 172-175: what was acknowledged stays on file in the order it came,
\* however appends overlap; only a hand-off with as many younger ones goes.
RecordedStays ==
    TypeOK' /\ \A s \in Stores :
        LET before == Readable(s)  after == Readable(s)'
            recorded == {r \in Requests[s] : req'[r].at = "recorded" /\ req[r].at # "recorded"}
        IN  /\ \A r \in recorded : after[Len(after)].by = r
            /\ \E n \in 0..1 :
                  /\ n = 1 => s = "handoff" /\ Len(before) = Kept /\ Len(after) = Kept
                  /\ IsPrefix(SubSeq(before, n + 1, Len(before)), after)

RecordsStay == [][RecordedStays]_vars
=============================================================================
