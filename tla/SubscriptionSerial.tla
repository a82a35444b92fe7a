------------------------- MODULE SubscriptionSerial -------------------------
(***************************************************************************)
(* Subscription with a history: whether two activations have overlapped.   *)
(* What a tenant is entitled to holds as long as they have not; overlapping *)
(* ones may credit a bonus twice.                                          *)
(***************************************************************************)
EXTENDS Subscription

VARIABLE overlapped

Busy == {s \in Sessions : ses[s] # Idle}

SerialInit == Init /\ overlapped = FALSE
SerialNext == Next /\ overlapped' = (overlapped \/ \E s, o \in Busy' : s # o)
SerialVars == <<vars, overlapped>>
SerialSpec == SerialInit /\ [][SerialNext]_SerialVars
SerialLive == SerialSpec /\ Fairness

-----------------------------------------------------------------------------
(* Properties                                                              *)

\* As long as activations have not overlapped, no tenant has more days ahead than
\* it is entitled to, whatever order handlers, errors, crashes and notices come in
\* (activate_subscription, activate_trial, the job and the middleware).
SerialNoFreeDays == ~ overlapped => NoFreeDays

\* activate_subscription "Продлевает подписку" (tenant_repository.py:413): as long as
\* activations have not overlapped, a subscription ends sooner only by a trial that was
\* seen unused before, perhaps before a payment.
SerialNeverShortened ==
    [][overlapped' \/ \A t \in Tenants :
           \/ until'[t] >= until[t]
           \/ t \in trying /\ until'[t] = now + TrialDays /\ ses' = ses]_vars
=============================================================================
