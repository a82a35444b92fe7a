--------------------------- MODULE MCLeadDialogs ---------------------------
(* A small instance of LeadDialogs: two leads, and two handlers at a time. *)
EXTENDS LeadDialogs, TLC

Symmetry == Permutations(Leads) \cup Permutations(Handlers)

About(kinds) ==
    /\ state \in kinds \cup {"none", "menu"}
    /\ \A i \in DOMAIN prompts : prompts[i].kind \in kinds
    /\ \A m \in menus : m[1] \in kinds
    /\ \A h \in Handlers : job[h].kind \in kinds \cup {"none", "cancel"}

\* One prompt at most outlives its TTL, with no menu beside it.  Handlers overlap in dialogs
\* about amounts, and fail in dialogs about reasons, with one menu at most: of the dialogs
\* these keep the most in the chat and in the context.
Bounded ==
    /\ Cardinality(expired) <= 1 /\ (expired # {} => menus = {})
    /\ fails > 0 => About({"reason"}) /\ Cardinality(menus) <= 1 /\ \E h \in Handlers : Alone(h)
    /\ muddled /\ fails = 0 => About({"amount"}) /\ expired = {}
=============================================================================
