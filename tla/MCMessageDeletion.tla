------------------------- MODULE MCMessageDeletion -------------------------
(* A small instance of MessageDeletion and SafeSender.                     *)
EXTENDS MessageDeletion

CONSTANT Other  \* a message whose buttons nobody presses

MCCallers == Messages \cup {Worker}

\* One handler at a time beside the worker.
Bounded == /\ Cardinality({m \in Messages : doing[m] # "idle"}) <= 1
           /\ Other \notin pressed
=============================================================================
