----------------------------- MODULE LeadQuota -----------------------------
(***************************************************************************)
(* The monthly quota of leads that come in through the API of one tenant   *)
(* (_create_lead_atomic, try_reserve_monthly_lead_quota).                  *)
(*                                                                         *)
(* A request is authorised in a database session of its own.  Its          *)
(* transaction counts the lead in the tenant's row, in the UPDATE that     *)
(* also checks the limit, and then inserts the lead; the row stays locked  *)
(* from the UPDATE to the commit.  The month of a request is taken from    *)
(* the clock before the UPDATE, which may then wait.                       *)
(***************************************************************************)
EXTENDS Integers

CONSTANTS Requests,
          LeadLimits, \* max_leads_per_month of the plans
          MaxMonth,   \* bound on the months
          MaxLeads    \* bound on the leads of a month

NoLimit == -1

ASSUME QuotaAssumption ==
    /\ LeadLimits \subseteq Nat \cup {NoLimit} /\ LeadLimits # {}
    /\ MaxMonth \in Nat \ {0} /\ MaxLeads \in Nat

VARIABLES
    now,       \* the month by the clock, from 1
    leadLimit, \* tenants.max_leads_per_month
    count,     \* tenants.leads_this_month
    month,     \* month of tenants.leads_month_reset_at, 0 for NULL
    pc,        \* where a request is
    stamp,     \* the month it has taken from the clock
    nextCount, nextMonth,  \* what its UPDATE has written
    counted    \* history: leads committed with the row's counter in a month

row       == <<leadLimit, count, month>>
draft     == <<stamp, nextCount, nextMonth>>
quotaVars == <<now, row, pc, draft, counted>>

QuotaInit ==
    /\ now = 1
    /\ leadLimit \in LeadLimits
    /\ count = 0 /\ month = 0
    /\ pc    = [r \in Requests |-> "idle"]
    /\ stamp = [r \in Requests |-> 0]
    /\ nextCount = [r \in Requests |-> 0]
    /\ nextMonth = [r \in Requests |-> 0]
    /\ counted   = [m \in 1 .. MaxMonth |-> 0]

Goto(r, label) == pc' = [pc EXCEPT ![r] = label]

\* A transaction has updated the row and has not ended.
Locked == \E r \in Requests : pc[r] = "reserved"

\* verify_ingest_api_key reads the tenant: a plan without a limit is not counted.
Authorize(r) ==
    /\ pc[r] = "idle"
    /\ Goto(r, IF leadLimit = NoLimit THEN "free" ELSE "authorized")
    /\ UNCHANGED <<now, row, draft, counted>>

\* try_reserve_monthly_lead_quota: now_naive.
Ask(r) ==
    /\ pc[r] = "authorized"
    /\ stamp' = [stamp EXCEPT ![r] = now]
    /\ Goto(r, "asked")
    /\ UNCHANGED <<now, row, nextCount, nextMonth, counted>>

NeedsResetOnce(r) == month = 0  \* mutant: the counter is never reset again

\* _monthly_counter_expressions
NeedsReset(r) == month < stamp[r]

CountOn(r) == count + 1  \* mutant: a new month goes on counting

CountWith(r)  == IF NeedsReset(r) THEN 1 ELSE count + 1

MonthWith(r)  == IF NeedsReset(r) THEN stamp[r] ELSE month

FitsAfter(r) == leadLimit = NoLimit \/ count <= leadLimit  \* mutant: off by one

\* WHERE max_leads_per_month = -1 OR next_count <= max_leads_per_month
Fits(r) == leadLimit = NoLimit \/ CountWith(r) <= leadLimit

Reserve(r) ==
    /\ pc[r] = "asked" /\ ~ Locked
    /\ Fits(r)
    /\ nextCount' = [nextCount EXCEPT ![r] = CountWith(r)]
    /\ nextMonth' = [nextMonth EXCEPT ![r] = MonthWith(r)]
    /\ Goto(r, "reserved")
    /\ UNCHANGED <<now, row, stamp, counted>>

\* HTTP 429.  A row whose committed version does not fit is not waited for.
Refuse(r) ==
    /\ pc[r] = "asked"
    /\ ~ Fits(r)
    /\ Goto(r, "refused")
    /\ UNCHANGED <<now, row, draft, counted>>

\* create_lead and commit.
CommitCounted(r) ==
    /\ pc[r] = "reserved"
    /\ counted[nextMonth[r]] < MaxLeads
    /\ count' = nextCount[r]
    /\ month' = nextMonth[r]
    /\ counted' = [counted EXCEPT ![nextMonth[r]] = @ + 1]
    /\ Goto(r, "created")
    /\ UNCHANGED <<now, leadLimit, draft>>

CommitUncounted(r) ==
    /\ pc[r] = "free"
    /\ Goto(r, "created")
    /\ UNCHANGED <<now, row, draft, counted>>

\* The INSERT fails, the client goes away or the process dies: rollback.
Fail(r) ==
    /\ pc[r] \in {"authorized", "asked", "reserved", "free"}
    /\ Goto(r, "failed")
    /\ UNCHANGED <<now, row, draft, counted>>

\* The request is over; the next one is another.
Return(r) ==
    /\ pc[r] \in {"created", "refused", "failed"}
    /\ Goto(r, "idle")
    /\ stamp' = [stamp EXCEPT ![r] = 0]
    /\ nextCount' = [nextCount EXCEPT ![r] = 0]
    /\ nextMonth' = [nextMonth EXCEPT ![r] = 0]
    /\ UNCHANGED <<now, row, counted>>

\* set_tenant_limits, in the transaction of a trial or a payment.
ChangePlan(l) ==
    /\ ~ Locked
    /\ leadLimit' = l
    /\ UNCHANGED <<now, count, month, pc, draft, counted>>

NextMonth ==
    /\ now < MaxMonth
    /\ now' = now + 1
    /\ UNCHANGED <<row, pc, draft, counted>>

Request(r) ==
    \/ Authorize(r) \/ Ask(r) \/ Reserve(r) \/ Refuse(r)
    \/ CommitCounted(r) \/ CommitUncounted(r) \/ Fail(r) \/ Return(r)

QuotaNext ==
    \/ \E r \in Requests : Request(r)
    \/ \E l \in LeadLimits : ChangePlan(l)
    \/ NextMonth

QuotaSpec == QuotaInit /\ [][QuotaNext]_quotaVars

-----------------------------------------------------------------------------
(* Properties                                                              *)

\* The types; the counter's month never runs ahead of the clock.
QuotaTypeOK ==
    /\ now \in 1 .. MaxMonth
    /\ leadLimit \in LeadLimits
    /\ count \in Nat /\ month \in 0 .. now
    /\ pc \in [Requests -> {"idle", "authorized", "asked", "reserved", "free",
                            "created", "refused", "failed"}]
    /\ stamp \in [Requests -> 0 .. now]
    /\ nextCount \in [Requests -> Nat] /\ nextMonth \in [Requests -> 0 .. now]
    /\ counted \in [1 .. MaxMonth -> Nat]

\* leads_this_month is the number of leads committed in the counter's month, and
\* no later month has any: under rollbacks, waiting and changes of the month.
CounterIsExact ==
    /\ IF month = 0 THEN count = 0 ELSE count = counted[month]
    /\ \A m \in 1 .. MaxMonth : m > month => counted[m] = 0

\* A lead is counted in a month only while the month has room for it under the
\* limit that holds when it is committed.
QuotaHolds ==
    [][\A m \in 1 .. MaxMonth :
          counted'[m] > counted[m] => leadLimit = NoLimit \/ counted'[m] <= leadLimit]_quotaVars

\* A request is refused only when the leads of the counter's month have used the
\* limit up: not for a lead that was rolled back, nor for last month's leads.
NoFalseRefusal ==
    [][\A r \in Requests :
          pc[r] = "asked" /\ pc'[r] = "refused" =>
              /\ leadLimit # NoLimit
              /\ leadLimit = 0 \/ (month > 0 /\ month >= stamp[r] /\ counted[month] >= leadLimit)]_quotaVars

\* Transactions exclude one another, and what a transaction has written is what
\* the row it has locked still asks for.
RowLocked ==
    \A r \in Requests : pc[r] = "reserved" =>
        /\ \A q \in Requests \ {r} : pc[q] # "reserved"
        /\ stamp[r] \in 1 .. now
        /\ nextCount[r] = CountWith(r) /\ nextMonth[r] = MonthWith(r)
        /\ Fits(r)

Asked == \A r \in Requests : pc[r] = "asked" => stamp[r] \in 1 .. now

\* The invariant the proofs rest on.
QuotaInv == QuotaTypeOK /\ CounterIsExact /\ RowLocked /\ Asked
=============================================================================
