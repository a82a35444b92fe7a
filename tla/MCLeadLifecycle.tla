-------------------------- MODULE MCLeadLifecycle --------------------------
(* Small instances of LeadLifecycle for TLC.                               *)
EXTENDS LeadLifecycle, TLC

\* Nothing distinguishes one session, manager or lead from another.
Symmetry == Permutations(Sessions) \cup Permutations(Managers) \cup Permutations(Leads)

\* Two sessions on one lead, where a session that finds the lead closed is alone:
\* it changes nothing.  Or a lead and its copy, one session at a time and at most
\* one row of history each.
Finds(s) == pc[s] \in {"reading", "loaded", "selected"}
Alone(s) == pc[s] # "idle" /\ \A t \in Sessions \ {s} : pc[t] = "idle"

Bounded ==
    \/ /\ \E l \in Leads : status[l] = "absent"
       /\ \A s \in Sessions : Finds(s) /\ view[s].status \in Final => Alone(s)
    \/ /\ \E s \in Sessions : pc[s] = "idle"
       /\ \A l \in Leads : Len(history[l]) <= 1
=============================================================================
