---------------------------- MODULE Subscription ----------------------------
(***************************************************************************)
(* The paid time of the tenants (TenantRepository): payments and YooKassa's *)
(* notifications, the administrator, trials, referral bonuses, and the two *)
(* places that deactivate an expired tenant, the hourly job and the        *)
(* middleware of the CRM bot.                                              *)
(*                                                                         *)
(* A session is one run of activate_subscription: a webhook's or an        *)
(* administrator's.  It reads the tenant, updates it, reads the referrer,  *)
(* updates it, and commits; an UPDATE keeps its rows locked until then.    *)
(* A tick is a day, longer than any handler.                               *)
(***************************************************************************)
EXTENDS Naturals, FiniteSets

CONSTANTS Tenants, Payments, Sessions,
          Payer,       \* tenant of a payment
          Referrer,    \* referred_by_id of a tenant, or NoTenant
          NoTenant, NoPayment,
          Period,      \* subscription_days
          TrialDays,   \* trial_days
          BonusDays,   \* referral_bonus_days
          WarnDays,    \* how long before the end the job warns
          Horizon,     \* bound on the days
          MaxExtends,  \* bound on the administrator's extensions
          Faults,      \* among "error", "crash"
          MaxFaults    \* bound on the faults of a behaviour

NoDate == 0  \* subscription_until is NULL; days count from 1

ASSUME SubscriptionAssumption ==
    /\ NoTenant \notin Tenants /\ NoPayment \notin Payments
    /\ Payer \in [Payments -> Tenants]
    /\ Referrer \in [Tenants -> Tenants \cup {NoTenant}]
    /\ \A t \in Tenants : Referrer[t] # t
    /\ {Period, TrialDays, BonusDays, Horizon} \subseteq Nat \ {0}
    /\ WarnDays \in Nat /\ MaxExtends \in Nat /\ MaxFaults \in Nat
    /\ Faults \subseteq {"error", "crash"}

VARIABLES
    now,
    active, until, trialUsed, bonusUsed,  \* columns of tenants
    notified,  \* expiry_notified_at
    payment,   \* payments.status, "none" before the INSERT
    notice,    \* payment.succeeded at YooKassa: "none", "due" until answered, "answered"
    ses,       \* the sessions
    trying,    \* tenants for which a handler has seen that the trial is unused
    jobs,      \* what a run of the hourly job has still to do: <<"expire" or "warn", tenant>>
    expired,   \* tenants the middleware has read expired
    credits,   \* history: extensions committed for a payment
    extends,   \* history: extensions by the administrator
    faults

tenants == <<active, until, trialUsed, bonusUsed, notified>>
history == <<credits, extends>>
vars == <<now, tenants, payment, notice, ses, trying, jobs, expired, history, faults>>

Idle == [pc |-> "idle", t |-> NoTenant, p |-> NoPayment,
         until |-> NoDate, bonusUsed |-> FALSE, refUntil |-> NoDate]

Init ==
    /\ now = 1
    /\ active    = [t \in Tenants |-> FALSE]
    /\ until     = [t \in Tenants |-> NoDate]
    /\ trialUsed = [t \in Tenants |-> FALSE]
    /\ bonusUsed = [t \in Tenants |-> FALSE]
    /\ notified  = [t \in Tenants |-> NoDate]
    /\ payment   = [p \in Payments |-> "none"]
    /\ notice    = [p \in Payments |-> "none"]
    /\ ses       = [s \in Sessions |-> Idle]
    /\ trying = {} /\ jobs = {} /\ expired = {}
    /\ credits   = [p \in Payments |-> 0]
    /\ extends   = [t \in Tenants |-> 0]
    /\ faults = 0

Fault(f) == f \in Faults /\ faults < MaxFaults /\ faults' = faults + 1

Later(a, b) == IF a > b THEN a ELSE b
Expired(t) == until[t] # NoDate /\ until[t] < now

\* The rows of tenants that the session has updated, and its payment.
HeldTenants(s) ==
    CASE ses[s].pc \in {"extended", "grant", "commit"} -> {ses[s].t}
      [] ses[s].pc = "granted" -> {ses[s].t, Referrer[ses[s].t]}
      [] OTHER -> {}
Free(t) == \A s \in Sessions : t \notin HeldTenants(s)
HoldsPayment(s) == ses[s].pc \notin {"idle", "verify", "answer"}

-----------------------------------------------------------------------------
(* Paying                                                                  *)

\* create_yukassa_payment: the owner gets the URL after the row is committed.
CreatePayment(p) ==
    /\ payment[p] = "none"
    /\ payment' = [payment EXCEPT ![p] = "pending"]
    /\ UNCHANGED <<now, tenants, notice, ses, trying, jobs, expired, history, faults>>

\* The owner pays; YooKassa will tell until it is answered.
Pay(p) ==
    /\ payment[p] # "none" /\ notice[p] = "none"
    /\ notice' = [notice EXCEPT ![p] = "due"]
    /\ UNCHANGED <<now, tenants, payment, ses, trying, jobs, expired, history, faults>>

-----------------------------------------------------------------------------
(* yukassa_webhook, and activate_subscription inside it                    *)

Step(s, changed) == ses' = [ses EXCEPT ![s] = changed]
AtPc(s, pc) == Step(s, [ses[s] EXCEPT !.pc = pc])

Receive(s, p) ==
    /\ ses[s] = Idle /\ notice[p] = "due"
    /\ Step(s, [Idle EXCEPT !.pc = "verify", !.t = Payer[p], !.p = p])
    /\ UNCHANGED <<now, tenants, payment, notice, trying, jobs, expired, history, faults>>

MarkUnchecked(s) ==  \* mutant: AND status = 'pending' is missing
    /\ ses[s].pc = "verify"
    /\ \A o \in Sessions : HoldsPayment(o) => ses[o].p # ses[s].p
    /\ AtPc(s, "read")
    /\ UNCHANGED <<now, tenants, payment, notice, trying, jobs, expired, history, faults>>

MarkAnswering(s) ==  \* mutant: YooKassa is answered before the commit
    /\ ses[s].pc = "verify"
    /\ \A o \in Sessions : HoldsPayment(o) => ses[o].p # ses[s].p
    /\ AtPc(s, IF payment[ses[s].p] = "pending" THEN "read" ELSE "answer")
    /\ notice' = [notice EXCEPT ![ses[s].p] = "answered"]
    /\ UNCHANGED <<now, tenants, payment, trying, jobs, expired, history, faults>>

\* mark_payment_succeeded: UPDATE ... WHERE status = 'pending', or a duplicate.
Mark(s) ==
    /\ ses[s].pc = "verify"
    /\ \A o \in Sessions : HoldsPayment(o) => ses[o].p # ses[s].p
    /\ AtPc(s, IF payment[ses[s].p] = "pending" THEN "read" ELSE "answer")
    /\ UNCHANGED <<now, tenants, payment, notice, trying, jobs, expired, history, faults>>

\* cb_adm_extend
AdminExtend(s, t) ==
    /\ ses[s] = Idle /\ extends[t] < MaxExtends
    /\ Step(s, [Idle EXCEPT !.pc = "read", !.t = t])
    /\ UNCHANGED <<now, tenants, payment, notice, trying, jobs, expired, history, faults>>

\* activate_subscription begins: get_by_id of the tenant.
ReadTenant(s) ==
    /\ ses[s].pc = "read"
    /\ Step(s, [ses[s] EXCEPT !.pc = "extend", !.until = until[ses[s].t],
                              !.bonusUsed = bonusUsed[ses[s].t]])
    /\ UNCHANGED <<now, tenants, payment, notice, trying, jobs, expired, history, faults>>

ExtendTenant(s) ==
    /\ ses[s].pc = "extend" /\ Free(ses[s].t)
    /\ AtPc(s, "extended")
    /\ UNCHANGED <<now, tenants, payment, notice, trying, jobs, expired, history, faults>>

\* A referred tenant's first payment: get_by_id of the referrer, if it is active.
ReadReferrer(s) ==
    LET r == Referrer[ses[s].t] IN
    /\ ses[s].pc = "extended"
    /\ IF r # NoTenant /\ ~ ses[s].bonusUsed /\ active[r]
       THEN Step(s, [ses[s] EXCEPT !.pc = "grant", !.refUntil = until[r]])
       ELSE AtPc(s, "commit")
    /\ UNCHANGED <<now, tenants, payment, notice, trying, jobs, expired, history, faults>>

GrantBonus(s) ==
    /\ ses[s].pc = "grant" /\ Free(Referrer[ses[s].t])
    /\ AtPc(s, "granted")
    /\ UNCHANGED <<now, tenants, payment, notice, trying, jobs, expired, history, faults>>

NewUntilFromNow(seen, days) == now + days  \* mutant: what is left is lost

\* base = max(subscription_until or now, now)
NewUntil(seen, days) == Later(seen, now) + days

BonusMarkedNot(s) == bonusUsed  \* mutant: referral_bonus_used is never set

BonusMarked(s) == [bonusUsed EXCEPT ![ses[s].t] = @ \/ ses[s].pc = "granted"]

Commit(s) ==
    LET t == ses[s].t
        p == ses[s].p
        granted == ses[s].pc = "granted"
    IN
    /\ ses[s].pc \in {"commit", "granted"}
    /\ active' = [active EXCEPT ![t] = TRUE]
    /\ until' = [u \in Tenants |->
                    CASE u = t -> NewUntil(ses[s].until, Period)
                      [] granted /\ u = Referrer[t] -> NewUntil(ses[s].refUntil, BonusDays)
                      [] OTHER -> until[u]]
    /\ bonusUsed' = BonusMarked(s)
    /\ IF p = NoPayment
       THEN /\ extends' = [extends EXCEPT ![t] = @ + 1]
            /\ Step(s, Idle)
            /\ UNCHANGED <<payment, credits>>
       ELSE /\ payment' = [payment EXCEPT ![p] = "succeeded"]
            /\ credits' = [credits EXCEPT ![p] = @ + 1]
            /\ Step(s, [Idle EXCEPT !.pc = "answer", !.p = p])
            /\ UNCHANGED extends
    /\ UNCHANGED <<now, trialUsed, notified, notice, trying, jobs, expired, faults>>

\* {"status": "ok"}
Answered(s) == IF ses[s].p = NoPayment THEN notice
                                       ELSE [notice EXCEPT ![ses[s].p] = "answered"]
Answer(s) ==
    /\ ses[s].pc = "answer"
    /\ notice' = Answered(s)
    /\ Step(s, Idle)
    /\ UNCHANGED <<now, tenants, payment, trying, jobs, expired, history, faults>>

\* YooKassa's API or the database fails: rollback, and the same answer.
Fails(s) ==
    /\ ses[s].pc \notin {"idle", "answer"}
    /\ Fault("error")
    /\ notice' = Answered(s)
    /\ Step(s, Idle)
    /\ UNCHANGED <<now, tenants, payment, trying, jobs, expired, history>>

\* The process dies: rollback, and no answer.
Dies(s) ==
    /\ ses[s] # Idle
    /\ Fault("crash")
    /\ Step(s, Idle)
    /\ UNCHANGED <<now, tenants, payment, notice, trying, jobs, expired, history>>

-----------------------------------------------------------------------------
(* Trials and blocks                                                       *)

\* cb_reg_trial of either bot and cb_adm_trial read trial_used first.  (That of the
\* master bot asks for the owner's other tenants as well; the tenants here have an owner
\* each.)
TrialUnused(t) ==
    /\ ~ trialUsed[t] /\ t \notin trying
    /\ trying' = trying \cup {t}
    /\ UNCHANGED <<now, tenants, payment, notice, ses, jobs, expired, history, faults>>

\* activate_trial sets the end of the subscription, whatever it is by now.  Another
\* handler may have seen the trial unused, too.
Trial(t) ==
    /\ t \in trying /\ Free(t)
    /\ trying'    \in {trying, trying \ {t}}
    /\ active'    = [active EXCEPT ![t] = TRUE]
    /\ until'     = [until EXCEPT ![t] = now + TrialDays]
    /\ trialUsed' = [trialUsed EXCEPT ![t] = TRUE]
    /\ UNCHANGED <<now, bonusUsed, notified, payment, notice, ses, jobs, expired, history, faults>>

\* The handler ends without a trial.
TrialFails(t) ==
    /\ t \in trying
    /\ trying' = trying \ {t}
    /\ UNCHANGED <<now, tenants, payment, notice, ses, jobs, expired, history, faults>>

\* cb_adm_block, cb_adm_unblock
SetBlock(t, on) ==
    /\ Free(t) /\ active[t] = on
    /\ active'  = [active EXCEPT ![t] = ~ on]
    /\ UNCHANGED <<now, until, trialUsed, bonusUsed, notified, payment, notice, ses,
                   trying, jobs, expired, history, faults>>

-----------------------------------------------------------------------------
(* The end of a subscription                                               *)

JobScanWarningOnly ==  \* mutant: the expired tenants are left out
    /\ jobs = {}
    /\ jobs' = {<<"warn", t>> : t \in {u \in Tenants :
                    /\ active[u] /\ until[u] # NoDate /\ ~ Expired(u)
                    /\ until[u] <= now + WarnDays /\ WarnDays > 0
                    /\ notified[u] = NoDate \/ notified[u] + 1 <= now}}
    /\ jobs' # {}
    /\ UNCHANGED <<now, tenants, payment, notice, ses, trying, expired, history, faults>>

\* _check_subscriptions reads the active tenants, in a session of its own.
JobScan ==
    /\ jobs = {}
    /\ jobs' = {<<"expire", t>> : t \in {u \in Tenants : active[u] /\ Expired(u)}}
               \cup {<<"warn", t>> : t \in {u \in Tenants :
                    /\ active[u] /\ until[u] # NoDate /\ ~ Expired(u)
                    /\ until[u] <= now + WarnDays /\ WarnDays > 0
                    /\ notified[u] = NoDate \/ notified[u] + 1 <= now}}
    /\ jobs' # {}
    /\ UNCHANGED <<now, tenants, payment, notice, ses, trying, expired, history, faults>>

\* UPDATE tenants SET is_active = false WHERE id = ..., whatever the row is now.
JobExpire(t) ==
    /\ <<"expire", t>> \in jobs /\ Free(t)
    /\ active' = [active EXCEPT ![t] = FALSE]
    /\ jobs'   = jobs \ {<<"expire", t>>}
    /\ UNCHANGED <<now, until, trialUsed, bonusUsed, notified, payment, notice, ses,
                   trying, expired, history, faults>>

JobWarn(t) ==
    /\ <<"warn", t>> \in jobs /\ Free(t)
    /\ notified' = [notified EXCEPT ![t] = now]
    /\ jobs' = jobs \ {<<"warn", t>>}
    /\ UNCHANGED <<now, active, until, trialUsed, bonusUsed, payment, notice, ses,
                   trying, expired, credits, extends, faults>>

\* TenantMiddleware, when a group writes: the tenant is read ...
EventReads(t) ==
    /\ active[t] /\ Expired(t) /\ t \notin expired
    /\ expired' = expired \cup {t}
    /\ UNCHANGED <<now, tenants, payment, notice, ses, trying, jobs, history, faults>>

\* ... and deactivated.
EventExpires(t) ==
    /\ t \in expired /\ Free(t)
    /\ active'  = [active EXCEPT ![t] = FALSE]
    /\ expired' = expired \ {t}
    /\ UNCHANGED <<now, until, trialUsed, bonusUsed, notified, payment, notice, ses,
                   trying, jobs, history, faults>>

\* The CRM bot dies, and the rest of the job's run with it.
BotDies ==
    /\ jobs # {} \/ expired # {}
    /\ Fault("crash")
    /\ jobs' = {} /\ expired' = {}
    /\ UNCHANGED <<now, tenants, payment, notice, ses, trying, history>>

Tick ==
    /\ now < Horizon
    /\ \A s \in Sessions : ses[s] = Idle
    /\ trying = {} /\ jobs = {} /\ expired = {}
    /\ now' = now + 1
    /\ UNCHANGED <<tenants, payment, notice, ses, trying, jobs, expired, history, faults>>

-----------------------------------------------------------------------------
Session(s) == Mark(s) \/ ReadTenant(s) \/ ExtendTenant(s) \/ ReadReferrer(s)
              \/ GrantBonus(s) \/ Commit(s) \/ Answer(s)
JobStep == JobScan \/ \E t \in Tenants : JobExpire(t) \/ JobWarn(t)

Next ==
    \/ \E p \in Payments : CreatePayment(p) \/ Pay(p) \/ \E s \in Sessions : Receive(s, p)
    \/ \E s \in Sessions : \/ Session(s) \/ Fails(s) \/ Dies(s)
                           \/ \E t \in Tenants : AdminExtend(s, t)
    \/ \E t \in Tenants : \/ TrialUnused(t) \/ Trial(t) \/ TrialFails(t) \/ EventReads(t) \/ EventExpires(t)
                          \/ \E on \in BOOLEAN : SetBlock(t, on)
    \/ JobStep \/ BotDies \/ Tick

Spec == Init /\ [][Next]_vars

\* A handler that has started goes on, YooKassa repeats what was not answered, and
\* the hourly job runs.
Fairness ==
    /\ \A s \in Sessions : WF_vars(Session(s))
    /\ \A p \in Payments : SF_vars(\E s \in Sessions : Receive(s, p))
    /\ WF_vars(JobStep) /\ \A t \in Tenants : SF_vars(JobExpire(t))

-----------------------------------------------------------------------------
(* Properties                                                              *)

\* The types of the columns, of the sessions and of the job's work list; a session
\* updates rows of tenants only.
TypeOK ==
    /\ now \in 1 .. Horizon
    /\ active \in [Tenants -> BOOLEAN] /\ until \in [Tenants -> Nat]
    /\ trialUsed \in [Tenants -> BOOLEAN] /\ bonusUsed \in [Tenants -> BOOLEAN]
    /\ notified \in [Tenants -> Nat]
    /\ payment \in [Payments -> {"none", "pending", "succeeded"}]
    /\ notice \in [Payments -> {"none", "due", "answered"}]
    /\ ses \in [Sessions -> [pc : {"idle", "verify", "read", "extend", "extended", "grant",
                                   "granted", "commit", "answer"},
                             t : Tenants \cup {NoTenant}, p : Payments \cup {NoPayment},
                             until : Nat, bonusUsed : BOOLEAN, refUntil : Nat]]
    /\ \A s \in Sessions : HeldTenants(s) \subseteq Tenants
    /\ trying \subseteq Tenants /\ jobs \subseteq {"expire", "warn"} \X Tenants /\ expired \subseteq Tenants
    /\ credits \in [Payments -> Nat] /\ extends \in [Tenants -> Nat]
    /\ faults \in 0 .. MaxFaults

\* A payment extends its tenant once, however often YooKassa tells of it, and a
\* payment recorded as succeeded has extended it.
CreditedOnce == \A p \in Payments : credits[p] = IF payment[p] = "succeeded" THEN 1 ELSE 0

\* What a session that has got so far knows: whose payment it has, that the payment is
\* pending and nobody else's while it is held, and that there is a referrer to grant to.
Working(s) ==
    /\ ses[s].pc = "idle" => ses[s] = Idle
    /\ ses[s].pc \notin {"idle", "answer"} => ses[s].t \in Tenants
    /\ ses[s].pc \in {"verify", "answer"} => ses[s].p \in Payments
    /\ ses[s].pc \in {"grant", "granted"} => Referrer[ses[s].t] \in Tenants
    /\ ses[s].pc # "answer" /\ ses[s].p # NoPayment => ses[s].t = Payer[ses[s].p]
    /\ HoldsPayment(s) /\ ses[s].p # NoPayment =>
          /\ payment[ses[s].p] = "pending"
          /\ \A o \in Sessions \ {s} : HoldsPayment(o) => ses[o].p # ses[s].p

\* The state is sound, every session knows what it works on, and every payment is
\* credited once.
Inv == TypeOK /\ CreditedOnce /\ \A s \in Sessions : Working(s)

\* What a tenant may have: its trial, its payments, its extensions, and one bonus
\* for every tenant it has brought.
Entitled(t) ==
    LET paid    == {p \in Payments : Payer[p] = t /\ payment[p] = "succeeded"}
        brought == {u \in Tenants : Referrer[u] = t /\ bonusUsed[u]}
    IN  (IF trialUsed[t] THEN TrialDays ELSE 0) + Period * (Cardinality(paid) + extends[t])
        + BonusDays * Cardinality(brought)

\* No tenant has more days ahead than it is entitled to, whatever order the
\* handlers, the errors and the notices come in, one activation at a time.
NoFreeDays == \A t \in Tenants : until[t] <= now + Entitled(t)

\* An expired tenant loses its access in the end.
ExpiredLosesAccess ==
    \A t \in Tenants : active[t] /\ Expired(t) ~> ~ active[t] \/ ~ Expired(t)

\* master_bot/handlers.py:562, "После оплаты подписка активируется автоматически":
\* what YooKassa has been paid is credited in the end.
PaidIsCredited == \A p \in Payments : notice[p] = "due" ~> payment[p] = "succeeded"
=============================================================================
