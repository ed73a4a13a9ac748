--------------------------- MODULE MCTaskOwnership ---------------------------
(***************************************************************************)
(* TaskOwnership on small instances: one contended task, and two tasks whose *)
(* dispatches name the same checkout.                                       *)
(***************************************************************************)
EXTENDS TaskOwnership, TLC

CONSTANTS t1, t2, r1, r2, r3, checkout

\* Every run dispatches t1 and supplies no worktree.
OneTask == [r \in Runs |-> t1]
NoCheckouts == [r \in Runs |-> NoCheckout]

\* r1 and r3 dispatch t1, r2 dispatches t2, all of them in one checkout.
TwoTasks == [r \in Runs |-> IF r = r2 THEN t2 ELSE t1]
OneCheckout == [r \in Runs |-> checkout]

\* The runs are interchangeable when they all dispatch one task.
RunSymmetry == Permutations(Runs)
=============================================================================
