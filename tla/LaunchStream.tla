---------------------------- MODULE LaunchStream ----------------------------
(***************************************************************************)
(* What the dashboard says of one launch while it runs and after               *)
(* (services/officeLauncher.ts view, services/streamProgress.ts): the CLI      *)
(* writes JSON lines to the log, the wrapper writes the exit file when the CLI *)
(* ends and the timeout file when its limit fires; each view reads the log on  *)
(* from where the last one stopped, parses the lines that are complete, and    *)
(* says how the launch stands. The server forgets its parser when it restarts, *)
(* not the files.                                                              *)
(*                                                                             *)
(* An output is a sequence of pieces: the two halves of an event's line and    *)
(* the newline. Half a line is no JSON.                                        *)
(***************************************************************************)
EXTENDS Integers, Sequences

CONSTANTS
    Outputs,         \* the runs to consider: [cli, events]
    PROGRESS_LINES,
    TornViews,       \* whether a launch may end between the two looks of one view
    Stragglers,      \* whether what the CLI spawned may write on after it ended
    MaxRestarts

VARIABLES
    run,             \* the CLI and the events it would write
    written,         \* pieces in the log
    alive, exitFile, timeoutFile, stopRequested,
    cursor,          \* StreamCursor: offset, parser, ended
    looking,         \* the first look of the view under way: the exit file
    seen,            \* what the last view said
    restarts

vars == <<run, written, alive, exitFile, timeoutFile, stopRequested, cursor, looking, seen, restarts>>

NoExit == 99
NotLooking == 100
Newline == <<"nl", 0>>
Output == [i \in 1..(3 * Len(run.events)) |->
              IF i % 3 = 0 THEN Newline ELSE <<run.events[(i + 2) \div 3], i % 3>>]
Log == SubSeq(Output, 1, written)

\* PARSERS: what one event says. Codex repeats its failure: an error, then the turn failed.
FailureOf(cli, e) ==
    CASE cli = "codex" /\ e \in {"error", "turn.failed"} -> "F"
      [] cli = "codex" /\ e = "stream error" -> "G"
      [] cli # "codex" /\ e = "error result" -> "F"
      [] OTHER -> ""
Finishes(cli, e) ==
    e \in IF cli = "codex" THEN {"turn.completed", "turn.failed"} ELSE {"result", "error result"}
LinesOf(cli, e) ==
    IF FailureOf(cli, e) # "" \/ e = "unknown" THEN <<>> ELSE <<e>>

Parser == [partial |-> <<>>, lines |-> <<>>, failure |-> "", finished |-> FALSE]
NoCursor == [offset |-> 0, parser |-> Parser, ended |-> FALSE]

\* add: the newest lines are kept.
AddLines(lines, more) ==
    LET all == lines \o more
    IN  IF Len(all) > PROGRESS_LINES THEN SubSeq(all, Len(all) - PROGRESS_LINES + 1, Len(all)) ELSE all

\* line: a whole event is parsed, anything else is kept as text; the first failure is the cause.
Told(parser, cli, raw) ==
    IF raw = <<>> THEN parser
    ELSE IF Len(raw) # 2 THEN [parser EXCEPT !.lines = AddLines(@, <<"text">>)]
    ELSE LET e == raw[1][1]
             failure == FailureOf(cli, e)
             isNew == failure # "" /\ failure # parser.failure
         IN  [parser EXCEPT
                !.finished = @ \/ Finishes(cli, e),
                !.failure = IF @ = "" THEN failure ELSE @,
                !.lines = AddLines(@, (IF isNew THEN <<"x " \o failure>> ELSE <<>>) \o LinesOf(cli, e))]

\* What follows the last newline waits for the rest of its line.
Piece(parser, cli, piece) ==
    IF piece = Newline THEN [Told(parser, cli, parser.partial) EXCEPT !.partial = <<>>]
    ELSE [parser EXCEPT !.partial = Append(@, piece)]

\* Slip: each chunk is parsed to its end.
PushedWhole(parser, cli, chunk) ==
    LET read[i \in 0..Len(chunk)] == IF i = 0 THEN parser ELSE Piece(read[i - 1], cli, chunk[i])
        all == read[Len(chunk)]
    IN  [Told(all, cli, all.partial) EXCEPT !.partial = <<>>]

\* push
Pushed(parser, cli, chunk) ==
    LET read[i \in 0..Len(chunk)] == IF i = 0 THEN parser ELSE Piece(read[i - 1], cli, chunk[i])
    IN  read[Len(chunk)]

\* end: the last line need not be ended.
Ended(parser, cli) == [Told(parser, cli, parser.partial) EXCEPT !.partial = <<>>]

\* streamSummary: the log is read on; a launch that has ended is read for the last time.
Summarized(exited) ==
    IF cursor.ended THEN cursor
    ELSE LET read == Pushed(cursor.parser, run.cli, SubSeq(Log, cursor.offset + 1, written))
         IN  [offset |-> written, parser |-> IF exited THEN Ended(read, run.cli) ELSE read, ended |-> exited]

\* view: how the launch stands, from the exit file, the process and the parser.
ProtocolFailure(parser, exit) ==
    IF parser.failure # "" THEN parser.failure
    ELSE IF exit = 0 /\ ~parser.finished THEN "cut short" ELSE ""
Status(exit, running, parser) ==
    IF exit # NoExit
    THEN IF stopRequested THEN "stopped"
         ELSE IF timeoutFile \/ exit # 0 \/ ProtocolFailure(parser, exit) # "" THEN "failed" ELSE "succeeded"
    ELSE IF running THEN (IF stopRequested THEN "stopping" ELSE "running")
    ELSE IF stopRequested THEN "stopped"
    ELSE IF timeoutFile THEN "failed" ELSE "lost"
Over == {"stopped", "failed", "succeeded", "lost"}
Termination(status) ==
    CASE status = "stopped" -> "operator_stop" [] status = "succeeded" -> "completed"
      [] status = "failed" -> (IF timeoutFile THEN "timeout" ELSE "runner_failure")
      [] status = "lost" -> "unknown" [] OTHER -> "none"

NothingSeen == [status |-> "none", termination |-> "none", progress |-> <<>>]

TypeOK ==
    /\ run \in Outputs /\ written \in 0..Len(Output) /\ cursor.offset \in 0..written
    /\ exitFile \in {0, 1, NoExit} /\ looking \in {0, 1, NoExit, NotLooking}
    /\ Len(seen.progress) <= PROGRESS_LINES

Init ==
    /\ run \in Outputs /\ written = 0 /\ alive = TRUE /\ exitFile = NoExit
    /\ timeoutFile = FALSE /\ stopRequested = FALSE
    /\ cursor = NoCursor /\ looking = NotLooking /\ seen = NothingSeen /\ restarts = 0

\* The two looks of a view, a few calls of the file system apart, see the launch at one moment.
Untouched == TornViews \/ looking = NotLooking

\* The CLI writes on; so may what it left behind.
Writes ==
    /\ alive \/ Stragglers
    /\ written < Len(Output)
    /\ written' = written + 1
    /\ UNCHANGED <<run, alive, exitFile, timeoutFile, stopRequested, cursor, looking, seen, restarts>>

\* WRAPPER: the CLI ends and the exit file is put in place.
Exits(code) ==
    /\ alive /\ Untouched
    /\ alive' = FALSE /\ exitFile' = code
    /\ UNCHANGED <<run, written, timeoutFile, stopRequested, cursor, looking, seen, restarts>>

\* WRAPPER: the limit fires, is written down and then ends the tree.
LimitFires ==
    /\ alive /\ ~timeoutFile /\ Untouched
    /\ timeoutFile' = TRUE
    /\ UNCHANGED <<run, written, alive, exitFile, stopRequested, cursor, looking, seen, restarts>>

\* The whole tree is killed, or the machine restarts.
Killed ==
    /\ alive /\ Untouched
    /\ alive' = FALSE
    /\ UNCHANGED <<run, written, exitFile, timeoutFile, stopRequested, cursor, looking, seen, restarts>>

\* stop: only of a launch seen running.
Stop ==
    /\ looking = NotLooking /\ exitFile = NoExit /\ alive /\ ~stopRequested
    /\ stopRequested' = TRUE
    /\ UNCHANGED <<run, written, alive, exitFile, timeoutFile, cursor, looking, seen, restarts>>

\* view, the first look: the exit file.
Looks ==
    /\ looking = NotLooking
    /\ looking' = exitFile
    /\ UNCHANGED <<run, written, alive, exitFile, timeoutFile, stopRequested, cursor, seen, restarts>>

\* view, the rest: the process, the timeout file and the log.
Says ==
    /\ looking # NotLooking
    /\ LET running == looking = NoExit /\ alive
           read == Summarized(~running)
           status == Status(looking, running, read.parser)
       IN  /\ cursor' = read
           /\ seen' = [status |-> status, termination |-> Termination(status), progress |-> read.parser.lines]
    /\ looking' = NotLooking
    /\ UNCHANGED <<run, written, alive, exitFile, timeoutFile, stopRequested, restarts>>

\* The dashboard restarts: its parsers are gone.
Restarts ==
    /\ restarts < MaxRestarts
    /\ restarts' = restarts + 1 /\ cursor' = NoCursor /\ looking' = NotLooking
    /\ UNCHANGED <<run, written, alive, exitFile, timeoutFile, stopRequested, seen>>

Next ==
    \/ Writes \/ LimitFires \/ Killed \/ Stop \/ Looks \/ Says \/ Restarts
    \/ \E code \in {0, 1} : Exits(code)

Spec == Init /\ [][Next]_vars

-----------------------------------------------------------------------------
(* Properties. *)

\* However the views cut the output, what has been read is parsed as if it had come at once:
\* every ended line gave its event, and a cut one counts only when nothing can follow.
ParsedAsOne ==
    LET read == Pushed(Parser, run.cli, SubSeq(Output, 1, cursor.offset))
        whole == {run.events[i] : i \in 1..(cursor.offset \div 3)}
    IN  /\ cursor.parser = IF cursor.ended THEN Ended(read, run.cli) ELSE read
        /\ (\E e \in whole : Finishes(run.cli, e)) => cursor.parser.finished
        /\ (cursor.parser.failure # "") => \E i \in DOMAIN run.events : FailureOf(run.cli, run.events[i]) # ""

\* A launch is called succeeded only when the CLI ended by itself with 0, within its limit, and its
\* stream came to its last event without a failure.
SuccessIsEarned ==
    seen.status = "succeeded" =>
        /\ exitFile = 0 /\ ~timeoutFile /\ ~stopRequested
        /\ \E i \in DOMAIN run.events : Finishes(run.cli, run.events[i])
        /\ \A i \in 1..(written \div 3) : FailureOf(run.cli, run.events[i]) = ""

\* What the page has said of a launch that is over stays what it says, over restarts of the
\* dashboard too.
KeepsVerdict == seen.status \in Over => (seen'.status = seen.status /\ seen'.termination = seen.termination)
VerdictIsFinal == [][KeepsVerdict]_vars
=============================================================================
