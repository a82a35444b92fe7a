----------------------------- MODULE MCLeadForm -----------------------------
(* A small instance of LeadForm.                                           *)
EXTENDS LeadForm, TLC

Symmetry == Permutations(Handlers)

\* The presses of a confirmation overlap, other handlers do not: no property but the
\* types is about them.
Bounded == overlap # "any"
=============================================================================
