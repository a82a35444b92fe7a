---------------------------- MODULE TenantLimits ----------------------------
(***************************************************************************)
(* What the plan of a tenant limits: its managers (Managers) and the leads *)
(* of a month (LeadQuota).  The CRM bot does the one, the API the other;   *)
(* all they share is the tenant's row, where one UPDATE sets both limits.  *)
(***************************************************************************)
EXTENDS Managers, LeadQuota

CONSTANT Plans  \* PLAN_LIMITS: what each plan allows

ASSUME TenantLimitsAssumption == Plans \subseteq [managers : Limits, leads : LeadLimits]

tenantVars == <<vars, quotaVars>>

TenantInit == /\ Init /\ QuotaInit
              /\ [managers |-> limit, leads |-> leadLimit] \in Plans

\* set_tenant_limits, which waits for a request that has counted its lead.
SetPlan(plan) == SetTenantLimits(plan.managers) /\ ChangePlan(plan.leads)

Bot  == (\E h \in Handlers : Work(h)) /\ UNCHANGED quotaVars
Api  == (NextMonth \/ \E r \in Requests : Request(r)) /\ UNCHANGED vars
Plan == \E plan \in Plans : SetPlan(plan)

TenantNext == Bot \/ Api \/ Plan
TenantSpec == TenantInit /\ [][TenantNext]_tenantVars
=============================================================================
