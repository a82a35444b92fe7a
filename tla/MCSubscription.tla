--------------------------- MODULE MCSubscription ---------------------------
(* One tenant that another one has brought, and payments of either.        *)
EXTENDS SubscriptionSerial, TLC

CONSTANTS host, guest, hostPays, guestPays

MCPayer    == [p \in Payments |-> IF p = hostPays THEN host ELSE guest]
MCReferrer == [t \in Tenants |-> IF t = guest THEN host ELSE NoTenant]

Symmetry == Permutations(Sessions)

\* Three days, and the administrator's extensions, as long as activations do not
\* overlap; two days of payments when they do.  What the job and the middleware have
\* read expired is written before the next activation begins: they write no dates.  One
\* trial at a time, as long as activations do not overlap and nothing has failed.
Bounded ==
    /\ overlapped => /\ now <= 2
                     /\ \A t \in Tenants : extends[t] = 0
                     /\ \A s \in Busy : ses[s].p # NoPayment
    /\ Busy # {} \/ trying # {} => jobs = {} /\ expired = {}
    /\ Cardinality(trying) <= IF overlapped \/ faults > 0 THEN 0 ELSE 1
=============================================================================
