---------------------------- MODULE MCLeadCards ----------------------------
(* A small instance of LeadCards.                                          *)
EXTENDS LeadCards

\* Three syncs at a time as long as nothing fails, two when something has failed.
Bounded == failed => Cardinality(Running) <= 2
=============================================================================
