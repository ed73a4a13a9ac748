---------------------------- MODULE StartRequest ----------------------------
(***************************************************************************)
(* What the client lets an operator send, against what the server takes:     *)
(*   views/newTask.ts and services/newTask.ts (the New task form),           *)
(*   views/runQueue.ts and shared/runQueue.ts (the trigger of a Run),        *)
(*   views/taskWorkspace.ts, TaskReposField.tsx and services/taskRun.ts (the *)
(*   repositories), views/startTask.ts and routes/launch.ts (Run and chain),  *)
(*   views/startTask.ts and services/openHandoff.ts (Open),                  *)
(* and what views/officeLaunch.ts says of the result a step ends with        *)
(* (services/stepGovernance.ts).                                             *)
(***************************************************************************)
EXTENDS Naturals, Sequences, FiniteSets, SequencesExt

CONSTANT MaxTargets     \* the most repositories of a Run (MAX_TARGETS, 8)

(***************************************************************************)
(* New task.  A text is empty, blank (spaces), one line, or lines; the       *)
(* inputs' maxLength keeps it within the server's limits.                    *)
(***************************************************************************)
Blank == {"empty", "blank"}

\* "" is the TASK-NNN pool; "E2E" is a reserved prefix.
Registered == {"EAR", "SUN", "E2E"}
Reserved == {"E2E"}
Usable(p) == p \notin Reserved \cup {"", "none"}

\* The prefixes offered, and the one selected at first ("none": pick one).
AllowedPrefixes(registry, effective) ==
    LET mine == IF Usable(effective) THEN effective ELSE "none"
        registered == {p \in registry : Usable(p)}
    IN  CASE registered = {} /\ mine # "none" -> [allowed |-> {mine}, first |-> mine]
          [] registered = {} -> [allowed |-> {""}, first |-> ""]
          [] mine \in registered -> [allowed |-> registered, first |-> mine]
          [] OTHER -> [allowed |-> registered, first |-> "none"]

Presets == <<"api", "app">>      \* in the order of the presets file

TogglePreset(selected, name) ==
    LET next == IF name \in Range(selected) THEN Range(selected) \ {name} ELSE Range(selected) \cup {name}
    IN  SelectSeq(Presets, LAMBDA p : p \in next)

Form == [title : {"empty", "blank", "line"}, request : {"empty", "blank", "line", "lines"},
         prefix : Registered \cup {"", "none"}, choice : {"presets", "none"},
         presets : {<<>>, <<"api">>, <<"api", "app">>}, reason : {"empty", "blank", "line"},
         usable : BOOLEAN]

FormBlocked(form, allowed) ==
    \/ form.title \in Blank \/ form.request \in Blank
    \/ form.prefix \notin allowed
    \/ form.choice = "presets" /\ form.presets = <<>>
    \/ form.choice = "none" /\ form.reason \in Blank
    \/ ~form.usable

Trimmed(text) == IF text \in Blank THEN "empty" ELSE text

\* Slip: both parts of the form are sent.
BothGates(form) ==
    [title |-> Trimmed(form.title), request |-> Trimmed(form.request), prefix |-> form.prefix,
     presets |-> form.presets, reason |-> Trimmed(form.reason)]

\* The presets or the reason, never both.
RequestBody(form) ==
    [title |-> Trimmed(form.title), request |-> Trimmed(form.request), prefix |-> form.prefix,
     presets |-> IF form.choice = "presets" THEN form.presets ELSE <<>>,
     reason |-> IF form.choice = "none" THEN Trimmed(form.reason) ELSE "empty"]

ParsedNewTask(body, allowed) ==
    /\ body.title = "line" /\ body.request \notin Blank
    /\ body.prefix \in allowed
    /\ IF body.presets # <<>>
       THEN /\ body.reason = "empty"
            /\ Range(body.presets) \subseteq Range(Presets) /\ IsInjective(body.presets)
       ELSE body.reason = "line"

(***************************************************************************)
(* The trigger of a Run                                                      *)
(***************************************************************************)
\* A time, relative to now: more than a minute ago, until the 7 days ahead, beyond.
Times == {"invalid", "past", "near", "far"}
When == [kind : {"now", "at", "after", "after-chain"}, at : Times, task : {"", "TASK-1"}]

NoTrigger == [kind |-> "error"]

TriggerFromForm(w) ==
    CASE w.kind = "now" -> [kind |-> "now"]
      [] w.kind = "at" /\ w.at \notin {"invalid", "past"} -> [kind |-> "at", at |-> w.at]
      [] w.kind = "after" /\ w.task # "" -> [kind |-> "after", task |-> w.task, scope |-> "step"]
      [] w.kind = "after-chain" /\ w.task # "" -> [kind |-> "after", task |-> w.task, scope |-> "chain"]
      [] OTHER -> NoTrigger

ParsedTrigger(t) ==
    \/ t.kind = "now"
    \/ t.kind = "at" /\ t.at = "near"
    \/ t.kind = "after" /\ t.task # ""

(***************************************************************************)
(* Target repositories                                                       *)
(***************************************************************************)
Repos == {"app", "api", "docs"}

\* What the repositories field makes of the list; Add and the ticked "also mentioned"
\* offer only repositories that are not in it.
MakePrimary(targets, repo) == <<repo>> \o Remove(targets, repo)
AlsoMentioned(proposed, targets) == proposed \ Range(targets)
Addable(proposed, targets) == (Repos \ Range(targets)) \ proposed
Offered(proposed, targets) == AlsoMentioned(proposed, targets) \cup Addable(proposed, targets)
TargetEdits(proposed, targets) ==
    {MakePrimary(targets, r) : r \in Range(targets)}
        \cup {Remove(targets, r) : r \in Range(targets)}
        \cup {Append(targets, r) : r \in Offered(proposed, targets)}

ParsedTargets(targets) == Len(targets) <= MaxTargets /\ IsInjective(targets)

\* runBlockers: plans lag behind the list, and none come for a list the server does not
\* take; a refused one, or an existing worktree that was not opted in, blocks.
Plan == [repo : Repos, action : {"create", "add", "reuse", "adopt", "refuse"}, optIn : BOOLEAN]
RunBlocked(targets, plans) ==
    \/ targets = <<>>
    \/ [n \in DOMAIN plans |-> plans[n].repo] # targets
    \/ \E n \in DOMAIN plans : plans[n].action = "refuse" \/ (plans[n].action = "adopt" /\ plans[n].optIn)

\* runEnvelope: the primary worktree is the directory, the others and the task's runs
\* directory are writable too; cursor-agent trusts only what the dashboard created.
Envelope(cli, worktrees, origin) ==
    [cwd |-> Head(worktrees), writable |-> Range(Tail(worktrees)) \cup {"runs"},
     trust |-> cli = "cursor-agent" /\ origin[Head(worktrees)] = "created"]

(***************************************************************************)
(* Run and chain, once the form is loaded and confirmed                      *)
(***************************************************************************)
Clis == {"claude", "codex"}
Start == [mode : {"step", "chain"}, now : BOOLEAN, role : {"dev", "reviewer", "free-roam"},
          cli : Clis, writer : Clis, reviewer : Clis]

\* The task when GET answered: its latest launch, whether that is still being verified
\* (GET waits for the verification, so only one that failed is), its chain and queued
\* item, the usable CLIs, whether New task or the office holds it back from a chain
\* (unconfirmed, held, no authorization), and who wrote its last step.
Task == [launch : {"none", "running", "stopping", "ended"}, verifying : BOOLEAN,
         chain : BOOLEAN, queued : BOOLEAN, usable : SUBSET Clis, held : BOOLEAN,
         lastWriter : Clis \cup {"none"}]

StepCli(start) ==
    CASE start.mode = "step" -> start.cli
      [] start.role = "reviewer" -> start.reviewer
      [] OTHER -> start.writer

NoPairing(start) == start.writer = start.reviewer \/ start.role = "free-roam"
Active(task) == task.launch \in {"running", "stopping"}

\* runBlockedReason
StartBlocked(start, task) ==
    \/ task.chain \/ task.queued
    \/ Active(task) /\ start.now
    \/ start.mode = "chain" /\ NoPairing(start)
    \/ StepCli(start) \notin task.usable

StepInFlight(task) == Active(task) \/ task.verifying

\* preflight: a chain's reviewer is never the CLI that wrote what it reviews.
OwnReviewer(start, task) == start.role = "reviewer" /\ task.lastWriter = start.reviewer

\* POST task and POST chain answer 400 or 409.
StartRefused(start, task) ==
    \/ task.chain \/ task.queued
    \/ StepInFlight(task) /\ start.now
    \/ start.mode = "chain" /\ (NoPairing(start) \/ task.held \/ OwnReviewer(start, task))
    \/ StepCli(start) \notin task.usable

\* What the form does not look at.
Untold(start, task) ==
    \/ task.verifying /\ start.now
    \/ start.mode = "chain" /\ (task.held \/ OwnReviewer(start, task))

(***************************************************************************)
(* Open                                                                      *)
(***************************************************************************)
Opening == [target : {"claude-desktop", "claude-cli", "codex-app", "cursor"}, mac : BOOLEAN, long : BOOLEAN]

\* The client's reasons (openBlockers) and the server's (openRefusal): no link for cursor.
OpenBlocked(o) == o.target # "cursor" /\ (~o.mac \/ o.long)
OpenRefused(o) == CASE o.target = "cursor" -> "no" [] ~o.mac -> "400" [] o.long -> "413" [] OTHER -> "no"

(***************************************************************************)
(* The result of a step                                                      *)
(***************************************************************************)
CheckOrder == <<"output", "integrity", "validate", "enforce", "sync">>

\* How a step ends: its launch, its lease, the check that fails first (0: none), commits
\* of the agent's, and what the dashboard's own commit of each worktree comes to.
Ending == [launch : {"succeeded", "failed", "stopped", "lost"}, renewed : BOOLEAN,
           fails : 0..Len(CheckOrder), agent : BOOLEAN, released : BOOLEAN,
           commits : [1..2 -> {"committed", "empty", "failed"}]]

Checks(e) ==
    [n \in DOMAIN CheckOrder |->
        CASE e.launch # "succeeded" \/ ~e.renewed -> "skipped"
          [] e.fails = 0 \/ n < e.fails -> "passed"
          [] n = e.fails -> "failed"
          [] OTHER -> "skipped"]

Verified(checks) == \A n \in DOMAIN checks : checks[n] = "passed"

Result(e) ==
    LET ran == e.launch = "succeeded" /\ e.renewed
        commits == ran /\ Verified(Checks(e)) /\ ~e.agent
    IN  [protocol |-> e.launch = "succeeded", checks |-> Checks(e), verified |-> Verified(Checks(e)),
         agentCommits |-> ~e.agent,
         lease |-> IF e.launch = "succeeded" /\ ~e.renewed THEN FALSE ELSE e.released,
         commits |-> [n \in 1..2 |-> IF commits THEN e.commits[n] ELSE "skipped"]]

\* stepVerdict: the heading.
Verdict(r) ==
    CASE ~r.protocol -> "not verified"
      [] ~r.lease /\ ~r.verified -> "not verified"
      [] \E n \in DOMAIN r.checks : r.checks[n] = "failed" -> "not verified"
      [] ~r.agentCommits -> "an agent committed"
      [] \E n \in 1..2 : r.commits[n] = "failed" -> "verified, commit failed"
      [] OTHER -> "verified"

\* StepResult's frame.
Met(r) == r.protocol /\ r.verified /\ r.agentCommits /\ \A n \in 1..2 : r.commits[n] # "failed"

-----------------------------------------------------------------------------

\* newTask.ts 109-110, startTask.ts 40, 69, RunPanel.tsx 92: what a form holds back
\* would be refused, and what it lets through is taken, but for what the form does not
\* look at: a time beyond the 7 days, a step whose verification failed and is tried
\* again, and for chains the office's holds and the CLI that wrote the last step.  More
\* repositories than a Run takes can be listed, and never sent.
FormsAgree(i) ==
    CASE i.of = "form" ->
            LET allowed == AllowedPrefixes(i.registry, i.mine).allowed
            IN  /\ allowed # {}
                /\ \A name \in Range(Presets) : IsInjective(TogglePreset(i.form.presets, name))
                /\ i.form.usable =>
                     (FormBlocked(i.form, allowed) <=> ~ParsedNewTask(RequestBody(i.form), allowed))
      [] i.of = "trigger" ->
            (ParsedTrigger(TriggerFromForm(i.when)) <=> TriggerFromForm(i.when) # NoTrigger)
                \/ (i.when.kind = "at" /\ i.when.at = "far")
      [] i.of = "repos" ->
            /\ \A t \in TargetEdits(i.proposed, i.targets) : IsInjective(t)
            /\ Offered(i.proposed, i.targets) = Repos \ Range(i.targets)
            /\ ~RunBlocked(i.targets, i.plans) =>
                 /\ i.targets # <<>> /\ ParsedTargets(i.targets)
                 /\ \A n \in DOMAIN i.plans : i.plans[n].action # "refuse"
                 /\ LET env == Envelope("claude", i.targets, [r \in Repos |-> "created"])
                    IN  {env.cwd} \cup env.writable = Range(i.targets) \cup {"runs"}
      [] i.of = "start" ->
            /\ StartBlocked(i.start, i.task) => StartRefused(i.start, i.task)
            /\ StartRefused(i.start, i.task) =>
                  StartBlocked(i.start, i.task) \/ Untold(i.start, i.task)
      [] i.of = "open" -> OpenBlocked(i.open) <=> OpenRefused(i.open) # "no"
      [] OTHER -> TRUE

\* officeLaunch.ts 66-78: the heading says verified exactly when the step is, and its
\* frame and heading agree, for every way a step can end.
VerdictHolds(i) ==
    i.of = "ending" =>
        LET r == Result(i.ending)
        IN  /\ Verdict(r) \in {"verified", "verified, commit failed"} <=> r.verified /\ r.agentCommits
            /\ Verdict(r) = "verified" <=> Met(r)

Lists == {s \in UNION {[1..n -> Repos] : n \in 0..Cardinality(Repos)} : IsInjective(s)}

\* Every list of targets, with plans for it or an earlier one, of one action each.
Inputs ==
    [of : {"form"}, form : Form, registry : SUBSET Registered, mine : {"EAR", "E2E", "none"}]
        \cup [of : {"trigger"}, when : When]
        \cup {[of |-> "repos", proposed |-> p, targets |-> t,
               plans |-> [n \in DOMAIN l |-> [repo |-> l[n], action |-> a, optIn |-> o]]] :
                  p \in SUBSET Repos, o \in BOOLEAN, a \in {"create", "add", "reuse", "adopt", "refuse"},
                  t \in Lists, l \in {s \in Lists : ParsedTargets(s)}}
        \cup [of : {"start"}, start : Start,
              task : {t \in Task : t.verifying => t.launch = "ended"}]
        \cup [of : {"open"}, open : Opening]
        \cup [of : {"ending"}, ending : Ending]
=============================================================================
