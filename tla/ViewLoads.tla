------------------------------ MODULE ViewLoads ------------------------------
(***************************************************************************)
(* How a view of the dashboard loads what it shows (client/src/views): it      *)
(* sends a request when it is opened, when the window chosen in it changes and  *)
(* at each dashboard:refresh, and puts what comes back on the screen unless the *)
(* request was given up.  FlowView.tsx and ReviewView.tsx abort the older       *)
(* request, knowledge/KnowledgeReviewsView.tsx counts its requests (Guard =     *)
(* "abort"); ReleaseLadderView.tsx gives nothing up (Guard = "none"), and     *)
(* ProdSignalsPanel.tsx only the request of its effect, when the environment   *)
(* changes.  The server reads its files when it gets to a request; what it     *)
(* reads is the number of changes made so far.                                 *)
(***************************************************************************)
EXTENDS Integers, Sequences, FiniteSets

CONSTANTS
    Selectable,     \* the windows (7, 14, 30 days) one can choose
    Guard,       \* "abort": a newer request or leaving gives the older ones up; "none": nothing does
    MaxChanges, MaxLoads

VARIABLES
    world,      \* changes made on the server
    untold,     \* whether a refresh is on its way for the latest of them
    chosen,
    loads,      \* requests sent: for what, and what the server read (0: not yet), while under way
    shown,      \* what is on the screen
    error,      \* whether the screen says that the last load failed
    kept,       \* what the view remembers while it is closed (reviewCache)
    isOpen

vars == <<world, untold, chosen, loads, shown, error, kept, isOpen>>

Nothing == [choice |-> "none", at |-> 0]
Loads == DOMAIN loads
UnderWay == {i \in Loads : loads[i].underWay}

TypeOK ==
    /\ world \in 1..(MaxChanges + 1)
    /\ \A i \in Loads : loads[i].at \in 0..world /\ loads[i].choice \in Selectable
    /\ shown.at \in 0..world /\ kept.at \in 0..world

Init ==
    /\ world = 1 /\ untold = FALSE
    /\ chosen \in Selectable
    /\ loads = <<[choice |-> chosen, at |-> 0, underWay |-> TRUE]>>
    /\ shown = Nothing /\ error = FALSE /\ kept = Nothing /\ isOpen = TRUE

\* Slip: the older requests stay as they are, as they do where Guard is "none".
LeftAlone(sent) == sent

\* controller.abort, ++listRequestRef: the requests before this one do not count any more.
GivenUp(sent) == IF Guard = "none" THEN sent ELSE [i \in DOMAIN sent |-> [sent[i] EXCEPT !.underWay = FALSE]]

Sent(choice) == Append(GivenUp(loads), [choice |-> choice, at |-> 0, underWay |-> TRUE])

\* Something changes on the server, whose watcher will tell.
Changes ==
    /\ world <= MaxChanges
    /\ world' = world + 1 /\ untold' = TRUE
    /\ UNCHANGED <<chosen, loads, shown, error, kept, isOpen>>

\* dashboard:refresh: a view that is not open does not listen.
Refreshes ==
    /\ untold /\ Len(loads) < MaxLoads
    /\ untold' = FALSE
    /\ loads' = IF isOpen THEN Sent(chosen) ELSE loads
    /\ UNCHANGED <<world, chosen, shown, error, kept, isOpen>>

\* changeDays: the effect is cleaned up and runs again.
Chooses(choice) ==
    /\ isOpen /\ choice # chosen /\ Len(loads) < MaxLoads - MaxChanges
    /\ chosen' = choice /\ loads' = Sent(choice)
    /\ UNCHANGED <<world, untold, shown, error, kept, isOpen>>

\* The server answers a request, given up or not.
Answers(i) ==
    /\ loads[i].underWay /\ loads[i].at = 0
    /\ loads' = [loads EXCEPT ![i].at = world]
    /\ UNCHANGED <<world, untold, chosen, shown, error, kept, isOpen>>

\* load: the answer is put on the screen.
Lands(i) ==
    /\ loads[i].underWay /\ loads[i].at # 0
    /\ loads' = [loads EXCEPT ![i].underWay = FALSE]
    /\ IF isOpen THEN /\ shown' = [choice |-> loads[i].choice, at |-> loads[i].at]
                      /\ kept' = shown' /\ error' = FALSE
       ELSE UNCHANGED <<shown, kept, error>>
    /\ UNCHANGED <<world, untold, chosen, isOpen>>

\* A request fails: what was on the screen stays, and the screen says so.
Fails(i) ==
    /\ loads[i].underWay
    /\ loads' = [loads EXCEPT ![i].underWay = FALSE]
    /\ error' = (error \/ isOpen)
    /\ UNCHANGED <<world, untold, chosen, shown, kept, isOpen>>

\* The view is closed: its requests are given up.
Closes ==
    /\ isOpen /\ Len(loads) < MaxLoads - MaxChanges
    /\ isOpen' = FALSE /\ loads' = GivenUp(loads)
    /\ shown' = Nothing /\ error' = FALSE
    /\ UNCHANGED <<world, untold, chosen, kept>>

\* It is opened again, on what it remembers.
Opens ==
    /\ ~isOpen /\ Len(loads) < MaxLoads - MaxChanges
    /\ isOpen' = TRUE /\ shown' = kept /\ loads' = Sent(chosen)
    /\ UNCHANGED <<world, untold, chosen, error, kept>>

Next ==
    \/ Changes \/ Refreshes \/ Closes \/ Opens
    \/ \E choice \in Selectable : Chooses(choice)
    \/ \E i \in Loads : Answers(i) \/ Lands(i) \/ Fails(i)

\* The server answers, an answer arrives, the watcher's update too.
Fairness ==
    /\ WF_vars(Refreshes)
    /\ WF_vars(\E i \in Loads : Answers(i))
    /\ WF_vars(\E i \in Loads : Lands(i))

Spec == Init /\ [][Next]_vars
FairSpec == Spec /\ Fairness

-----------------------------------------------------------------------------
(* Properties. *)

\* Where the older requests are given up (FlowView.tsx 40-49, ReviewView.tsx 156-176), what
\* is on the screen is never replaced by something read before it: an answer that was
\* overtaken does not come back over a newer one.  With Guard = "none" it does.
GoesForward == isOpen /\ isOpen' => shown'.at >= shown.at
NeverBackwards == [][GoesForward]_vars

\* An open view comes to show what was chosen as it is on the server, or says that it could not.
Settled == isOpen => ((shown = [choice |-> chosen, at |-> world]) \/ error)
ViewSettles == []<>Settled
=============================================================================
