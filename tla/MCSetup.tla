------------------------------ MODULE MCSetup ------------------------------
(* A small instance of Setup: a topic with a menu, the panel's topic and   *)
(* the cabinet's.                                                          *)
EXTENDS Setup, TLC

MCTopics     == <<"NEW", "MANAGERS", "CABINET">>
MCMenuTopics == <<"NEW">>
Symmetry     == Permutations(Tenants) \cup Permutations(Groups) \cup Permutations(Runs)

\* One topic is deleted at most, of five, and nothing fails during a lookup; where runs or a
\* lookup overlap, nothing is deleted and nothing fails besides.
Bounded ==
    /\ Cardinality(DOMAIN threads \ alive) <= 1
    /\ alive # DOMAIN threads => Len(threads) <= 5
    /\ lookup # NoLookup => faults = 0
    /\ overlapped => faults = 0 /\ alive = DOMAIN threads /\ lookup = NoLookup /\ Len(threads) <= 4
=============================================================================
