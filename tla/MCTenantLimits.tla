--------------------------- MODULE MCTenantLimits ---------------------------
(* A small instance of TenantLimits: plans that limit both, the managers   *)
(* only, and nothing, as trial, base and pro do.                           *)
EXTENDS TenantLimits, TLC

MCLimits == {1, 2, Unlimited}
MCPlans  == {[managers |-> 1, leads |-> 2],
             [managers |-> 2, leads |-> Unlimited],
             [managers |-> Unlimited, leads |-> Unlimited]}
Symmetry == Permutations(Users) \cup Permutations(Handlers)

NoManagers == /\ \A u \in Users : manager[u] = NoRow
              /\ \A h \in Handlers : op[h] = Free
NoLeads    == /\ now = 1 /\ month = 0
              /\ \A r \in Requests : pc[r] = "idle"
SomeIsFree == \E h \in Handlers : op[h] = Free

\* A behaviour has managers or leads, since neither reads what the other writes; the plan
\* changes beside them, but not while every handler is at work.
MCNext == \/ NoLeads /\ Bot
          \/ NoManagers /\ Api
          \/ SomeIsFree /\ Plan
MCSpec == TenantInit /\ [][MCNext]_tenantVars
=============================================================================
