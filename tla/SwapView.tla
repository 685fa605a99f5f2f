------------------------------ MODULE SwapView ------------------------------
(***************************************************************************)
(* What the server promises those who poll GET /swap/out/:id and           *)
(* /swap/in/:id: the status begins at CREATED and only makes these moves.  *)
(***************************************************************************)
CONSTANT Moves   \* a function from statuses to the views that may follow

VARIABLE view    \* [status, outcome], as the database holds it

Init == view = [status |-> "CREATED", outcome |-> "NONE"]

Next == view' \in Moves[view.status]

Spec == Init /\ [][Next]_view

=============================================================================
