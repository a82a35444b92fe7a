------------------------ MODULE Subscription_proofs ------------------------
(***************************************************************************)
(* The paid time of the tenants, for any tenants, payments, sessions, days *)
(* and faults: every payment is credited once, and as long as activations  *)
(* do not overlap no tenant has more days than it is entitled to.          *)
(***************************************************************************)
EXTENDS SubscriptionSerial, FiniteSetTheorems, TLAPS

Ses == [pc : {"idle", "verify", "read", "extend", "extended", "grant", "granted", "commit", "answer"},
        t : Tenants \cup {NoTenant}, p : Payments \cup {NoPayment},
        until : Nat, bonusUsed : BOOLEAN, refUntil : Nat]

-----------------------------------------------------------------------------
(* Every payment is credited once                                          *)

LEMMA IdleFacts ==
    /\ Idle \in Ses /\ Idle.pc = "idle" /\ Idle.t = NoTenant /\ Idle.p = NoPayment
    /\ NoTenant \notin Tenants /\ NoPayment \notin Payments
BY SubscriptionAssumption DEF Idle, Ses, NoDate

\* What a session in state o knows (Working, HoldsPayment and HeldTenants of a session).
Holding(o) == o.pc \notin {"idle", "verify", "answer"}
Sound(o) ==
    /\ o.pc = "idle" => o = Idle
    /\ o.pc \notin {"idle", "answer"} => o.t \in Tenants
    /\ o.pc \in {"verify", "answer"} => o.p \in Payments
    /\ o.pc \in {"grant", "granted"} => Referrer[o.t] \in Tenants
    /\ o.pc # "answer" /\ o.p # NoPayment => o.t = Payer[o.p]

\* A session goes on: it may take a payment that is pending and that nobody else has.
LEMMA SessionMoves ==
    ASSUME Inv, NEW s \in Sessions, NEW o \in Ses, Sound(o),
           ses' = [ses EXCEPT ![s] = o],
           UNCHANGED <<now, tenants, payment, trying, jobs, expired, history>>,
           notice' \in [Payments -> {"none", "due", "answered"}], faults' \in 0 .. MaxFaults,
           Holding(o) /\ o.p # NoPayment =>
               /\ payment[o.p] = "pending"
               /\ \A q \in Sessions \ {s} : HoldsPayment(q) => ses[q].p # o.p
    PROVE  Inv'
<1>1. /\ ses' \in [Sessions -> Ses] /\ ses'[s] = o
      /\ \A q \in Sessions : q # s => ses'[q] = ses[q]
  BY DEF Inv, TypeOK, Ses
<1>2. \A q \in Sessions : HeldTenants(q)' \subseteq Tenants
  <2>1. ASSUME NEW q \in Sessions, q # s PROVE HeldTenants(q)' \subseteq Tenants
    BY <1>1, <2>1 DEF Inv, TypeOK, HeldTenants
  <2>2. HeldTenants(s)' \subseteq Tenants
    BY <1>1 DEF HeldTenants, Sound
  <2>. QED  BY <2>1, <2>2
<1>3. TypeOK'
  BY <1>1, <1>2 DEF Inv, TypeOK, tenants, history, Ses
<1>4. CreditedOnce'
  BY DEF Inv, CreditedOnce, history
<1>5. \A q \in Sessions : HoldsPayment(q)' <=> Holding(ses'[q])
  BY DEF HoldsPayment, Holding
<1>6. Working(s)'
  BY <1>1, <1>5 DEF Working, Sound, HoldsPayment, Holding
<1>7. ASSUME NEW q \in Sessions, q # s PROVE Working(q)'
  <2>1. Working(q) /\ ses'[q] = ses[q]
    BY <1>1, <1>7 DEF Inv
  <2>2. HoldsPayment(q) /\ ses[q].p # NoPayment /\ HoldsPayment(s)' => ses'[s].p # ses[q].p
    BY <1>1, <1>5, <1>7 DEF HoldsPayment
  <2>3. ASSUME HoldsPayment(q), ses[q].p # NoPayment, NEW r \in Sessions \ {q}, HoldsPayment(r)'
        PROVE  ses'[r].p # ses[q].p
    <3>1. CASE r = s  BY <2>2, <2>3, <3>1
    <3>2. CASE r # s
      BY <1>1, <2>1, <2>3, <3>2 DEF Working, HoldsPayment
    <3>. QED  BY <3>1, <3>2
  <2>. QED  BY <2>1, <2>3 DEF Working, HoldsPayment
<1>. QED  BY <1>3, <1>4, <1>6, <1>7 DEF Inv

\* Steps of anybody else: the sessions and the credits are left alone, and a payment
\* that is pending stays so.
LEMMA OthersKeep ==
    ASSUME Inv, TypeOK', UNCHANGED <<ses, credits>>, \A p \in Payments :
               /\ payment[p] = "pending" => payment'[p] = "pending"
               /\ payment'[p] = "succeeded" <=> payment[p] = "succeeded"
    PROVE  Inv'
<1>1. CreditedOnce'
  BY DEF Inv, CreditedOnce
<1>2. ASSUME NEW s \in Sessions PROVE Working(s)'
  <2>1. Working(s) /\ ses[s].p \in Payments \cup {NoPayment}
    BY DEF Inv, TypeOK
  <2>2. \A q \in Sessions : HoldsPayment(q)' <=> HoldsPayment(q)
    BY DEF HoldsPayment
  <2>. QED  BY <2>1, <2>2 DEF Working
<1>. QED  BY <1>1, <1>2 DEF Inv

\* What a session has before its step.
LEMMA Before ==
    ASSUME Inv, NEW s \in Sessions
    PROVE  /\ ses[s] \in Ses /\ Sound(ses[s]) /\ (HoldsPayment(s) <=> Holding(ses[s]))
           /\ notice \in [Payments -> {"none", "due", "answered"}] /\ faults \in 0 .. MaxFaults
           /\ Holding(ses[s]) /\ ses[s].p # NoPayment =>
                 /\ payment[ses[s].p] = "pending"
                 /\ \A q \in Sessions \ {s} : HoldsPayment(q) => ses[q].p # ses[s].p
BY DEF Inv, TypeOK, Ses, Working, Sound, HoldsPayment, Holding

LEMMA ReceiveKeeps == ASSUME Inv, NEW s \in Sessions, NEW p \in Payments, Receive(s, p) PROVE Inv'
<1> DEFINE o == [Idle EXCEPT !.pc = "verify", !.t = Payer[p], !.p = p]
<1>1. o \in Ses /\ o.pc = "verify" /\ o.t = Payer[p] /\ o.p = p /\ o.t \in Tenants
  BY SubscriptionAssumption DEF Idle, Ses, NoDate
<1>2. ses' = [ses EXCEPT ![s] = o]
  BY DEF Receive, Step
<1> HIDE DEF o
<1>3. Sound(o) /\ ~ Holding(o)
  BY <1>1 DEF Sound, Holding
<1>. QED  BY <1>1, <1>2, <1>3, Before, SessionMoves DEF Receive

\* Who takes the payment is the only one: the others that hold one hold another.
LEMMA MarkKeeps == ASSUME Inv, NEW s \in Sessions, Mark(s) PROVE Inv'
<1> DEFINE o == [ses[s] EXCEPT !.pc = IF payment[ses[s].p] = "pending" THEN "read" ELSE "answer"]
<1>1. o \in Ses /\ o.t = ses[s].t /\ o.p = ses[s].p
      /\ o.pc = IF payment[ses[s].p] = "pending" THEN "read" ELSE "answer"
  BY Before DEF Ses
<1>2. ses' = [ses EXCEPT ![s] = o]
  BY DEF Mark, AtPc, Step
<1> HIDE DEF o
<1>3. Sound(o)
  BY <1>1, Before DEF Mark, Sound
<1>4. Holding(o) /\ o.p # NoPayment =>
         /\ payment[o.p] = "pending"
         /\ \A q \in Sessions \ {s} : HoldsPayment(q) => ses[q].p # o.p
  BY <1>1 DEF Mark, Holding
<1>. QED  BY <1>1, <1>2, <1>3, <1>4, Before, SessionMoves DEF Mark

LEMMA AdminExtendKeeps == ASSUME Inv, NEW s \in Sessions, NEW t \in Tenants, AdminExtend(s, t) PROVE Inv'
<1> DEFINE o == [Idle EXCEPT !.pc = "read", !.t = t]
<1>1. o \in Ses /\ o.pc = "read" /\ o.t = t /\ o.p = NoPayment
  BY DEF Idle, Ses, NoDate
<1>2. ses' = [ses EXCEPT ![s] = o]
  BY DEF AdminExtend, Step
<1> HIDE DEF o
<1>3. Sound(o)
  BY <1>1 DEF Sound
<1>. QED  BY <1>1, <1>2, <1>3, Before, SessionMoves DEF AdminExtend

\* The steps between taking the payment and the commit keep what the session holds.
LEMMA HoldingKeeps ==
    ASSUME Inv, NEW s \in Sessions, NEW o \in Ses, Holding(ses[s]), Holding(o),
           o.t = ses[s].t, o.p = ses[s].p,
           o.pc \in {"grant", "granted"} => Referrer[o.t] \in Tenants,
           ses' = [ses EXCEPT ![s] = o],
           UNCHANGED <<now, tenants, payment, notice, trying, jobs, expired, history, faults>>
    PROVE  Inv'
<1>1. Sound(o)
  BY Before DEF Sound, Holding
<1>. QED  BY <1>1, Before, SessionMoves

LEMMA ActivationKeeps ==
    ASSUME Inv, NEW s \in Sessions,
           ReadTenant(s) \/ ExtendTenant(s) \/ ReadReferrer(s) \/ GrantBonus(s)
    PROVE  Inv'
<1>1. CASE ReadTenant(s)
  <2> DEFINE o == [ses[s] EXCEPT !.pc = "extend", !.until = until[ses[s].t],
                                 !.bonusUsed = bonusUsed[ses[s].t]]
  <2>1. ses[s].t \in Tenants
    BY <1>1, Before DEF ReadTenant, Sound
  <2>2. o \in Ses /\ o.pc = "extend" /\ o.t = ses[s].t /\ o.p = ses[s].p
    BY <2>1, Before DEF Ses, Inv, TypeOK
  <2>3. ses' = [ses EXCEPT ![s] = o]
    BY <1>1 DEF ReadTenant, Step
  <2> HIDE DEF o
  <2>. QED  BY <1>1, <2>2, <2>3, HoldingKeeps DEF ReadTenant, Holding
<1>2. CASE ExtendTenant(s)
  <2> DEFINE o == [ses[s] EXCEPT !.pc = "extended"]
  <2>1. o \in Ses /\ o.pc = "extended" /\ o.t = ses[s].t /\ o.p = ses[s].p
    BY Before DEF Ses
  <2>2. ses' = [ses EXCEPT ![s] = o]
    BY <1>2 DEF ExtendTenant, AtPc, Step
  <2> HIDE DEF o
  <2>. QED  BY <1>2, <2>1, <2>2, HoldingKeeps DEF ExtendTenant, Holding
<1>3. CASE ReadReferrer(s)
  <2> DEFINE r == Referrer[ses[s].t]
             g == [ses[s] EXCEPT !.pc = "grant", !.refUntil = until[r]]
             c == [ses[s] EXCEPT !.pc = "commit"]
  <2>0. Referrer[ses[s].t] \in Tenants \cup {NoTenant}
    BY <1>3, Before, SubscriptionAssumption DEF ReadReferrer, Sound
  <2>1. CASE ses' = [ses EXCEPT ![s] = c]
    <3>1. c \in Ses /\ c.pc = "commit" /\ c.t = ses[s].t /\ c.p = ses[s].p
      BY Before DEF Ses
    <3> HIDE DEF c
    <3>. QED  BY <1>3, <2>1, <3>1, HoldingKeeps DEF ReadReferrer, Holding
  <2>2. CASE r # NoTenant /\ ses' = [ses EXCEPT ![s] = g]
    <3>1. g \in Ses /\ g.pc = "grant" /\ g.t = ses[s].t /\ g.p = ses[s].p
      BY <2>0, <2>2, Before DEF Ses, Inv, TypeOK
    <3> HIDE DEF g
    <3>. QED  BY <1>3, <2>0, <2>2, <3>1, HoldingKeeps DEF ReadReferrer, Holding
  <2>. QED  BY <1>3, <2>1, <2>2 DEF ReadReferrer, AtPc, Step
<1>4. CASE GrantBonus(s)
  <2> DEFINE o == [ses[s] EXCEPT !.pc = "granted"]
  <2>1. o \in Ses /\ o.pc = "granted" /\ o.t = ses[s].t /\ o.p = ses[s].p
    BY Before DEF Ses
  <2>2. ses' = [ses EXCEPT ![s] = o] /\ Referrer[ses[s].t] \in Tenants
    BY <1>4, Before DEF GrantBonus, AtPc, Step, Sound
  <2> HIDE DEF o
  <2>. QED  BY <1>4, <2>1, <2>2, HoldingKeeps DEF GrantBonus, Holding
<1>. QED  BY <1>1, <1>2, <1>3, <1>4

\* A session ends, with or without an answer to YooKassa.
LEMMA EndKeeps == ASSUME Inv, NEW s \in Sessions, Answer(s) \/ Fails(s) \/ Dies(s) PROVE Inv'
<1>1. Sound(Idle) /\ ~ Holding(Idle)
  BY IdleFacts DEF Sound, Holding
<1>2. Answered(s) \in [Payments -> {"none", "due", "answered"}]
  BY Before DEF Answered
<1>3. faults + 1 \in 0 .. MaxFaults \/ ~ (faults < MaxFaults)
  BY Before, SubscriptionAssumption
<1>4. /\ ses' = [ses EXCEPT ![s] = Idle]
      /\ UNCHANGED <<now, tenants, payment, trying, jobs, expired, history>>
      /\ notice' = Answered(s) \/ notice' = notice
      /\ faults' = faults \/ (faults < MaxFaults /\ faults' = faults + 1)
  BY DEF Answer, Fails, Dies, Fault, Step
<1>5. notice' \in [Payments -> {"none", "due", "answered"}] /\ faults' \in 0 .. MaxFaults
  BY <1>2, <1>3, <1>4, Before
<1>. QED  BY <1>1, <1>4, <1>5, IdleFacts, SessionMoves

LEMMA NewUntilType ==
    ASSUME NEW a \in Nat, NEW d \in Nat, now \in Nat
    PROVE  NewUntil(a, d) \in Nat /\ NewUntil(a, d) >= a + d /\ NewUntil(a, d) >= now + d
BY DEF NewUntil, Later

\* The commit credits the payment that is still pending: once.
LEMMA CommitKeeps == ASSUME Inv, NEW s \in Sessions, Commit(s) PROVE Inv'
<1> DEFINE t == ses[s].t
           p == ses[s].p
<1>1. /\ t \in Tenants /\ p \in Payments \cup {NoPayment} /\ Holding(ses[s]) /\ HoldsPayment(s)
      /\ ses[s].until \in Nat /\ ses[s].refUntil \in Nat /\ now \in Nat
      /\ {Period, BonusDays} \subseteq Nat /\ NoPayment \notin Payments
  BY Before, SubscriptionAssumption DEF Commit, Sound, Holding, Ses, Inv, TypeOK
<1>2. p # NoPayment =>
         /\ payment[p] = "pending"
         /\ \A q \in Sessions \ {s} : HoldsPayment(q) => ses[q].p # p
  BY <1>1, Before
<1>3. /\ active' \in [Tenants -> BOOLEAN] /\ until' \in [Tenants -> Nat]
      /\ bonusUsed' \in [Tenants -> BOOLEAN]
  <2>1. NewUntil(ses[s].until, Period) \in Nat /\ NewUntil(ses[s].refUntil, BonusDays) \in Nat
    BY <1>1, NewUntilType
  <2>2. until' \in [Tenants -> Nat]
    BY <2>1 DEF Commit, Inv, TypeOK
  <2>3. active' \in [Tenants -> BOOLEAN]
    BY DEF Commit, Inv, TypeOK
  <2>4. bonusUsed' \in [Tenants -> BOOLEAN]
    BY DEF Commit, BonusMarked, Inv, TypeOK
  <2>. QED  BY <2>2, <2>3, <2>4
<1> DEFINE o == IF p = NoPayment THEN Idle ELSE [Idle EXCEPT !.pc = "answer", !.p = p]
<1>4. /\ o \in Ses /\ Sound(o) /\ ~ Holding(o)
      /\ p = NoPayment => o = Idle
  <2>1. CASE p = NoPayment
    BY <2>1, IdleFacts DEF Sound, Holding
  <2>2. CASE p # NoPayment
    <3>1. o \in Ses /\ o.pc = "answer" /\ o.p = p
      BY <1>1, <2>2 DEF Idle, Ses, NoDate
    <3> HIDE DEF o
    <3>. QED  BY <1>1, <2>2, <3>1 DEF Sound, Holding
  <2>. QED  BY <2>1, <2>2
<1>5. ses' = [ses EXCEPT ![s] = o]
  BY DEF Commit, Step
<1> HIDE DEF o
<1>6. /\ ses' \in [Sessions -> Ses] /\ ses'[s] = o
      /\ \A q \in Sessions : q # s => ses'[q] = ses[q]
  BY <1>4, <1>5 DEF Inv, TypeOK, Ses
<1>7. CASE p = NoPayment
  <2>1. payment' = payment /\ credits' = credits /\ extends' \in [Tenants -> Nat]
    BY <1>1, <1>7 DEF Commit, Inv, TypeOK
  <2>2. \A q \in Sessions : HeldTenants(q)' \subseteq Tenants
    <3>1. ASSUME NEW q \in Sessions, q # s PROVE HeldTenants(q)' \subseteq Tenants
      BY <1>6, <3>1 DEF Inv, TypeOK, HeldTenants
    <3>2. HeldTenants(s)' \subseteq Tenants
      BY <1>4, <1>6 DEF HeldTenants, Sound
    <3>. QED  BY <3>1, <3>2
  <2>3. TypeOK'
    BY <1>3, <1>6, <2>1, <2>2 DEF Commit, Inv, TypeOK, Ses
  <2>4. CreditedOnce'
    BY <2>1 DEF Inv, CreditedOnce
  <2>5. ASSUME NEW q \in Sessions PROVE Working(q)'
    <3>1. CASE q = s
      BY <1>4, <1>6, <1>7, <3>1, IdleFacts DEF Working, HoldsPayment
    <3>2. CASE q # s
      BY <1>4, <1>6, <2>1, <3>2 DEF Inv, Working, HoldsPayment, Holding
    <3>. QED  BY <3>1, <3>2
  <2>. QED  BY <2>3, <2>4, <2>5 DEF Inv
<1>8. CASE p # NoPayment
  <2>1. /\ payment' = [payment EXCEPT ![p] = "succeeded"] /\ credits' = [credits EXCEPT ![p] = @ + 1]
        /\ extends' = extends /\ p \in Payments
    BY <1>1, <1>8 DEF Commit
  <2>2. \A q \in Sessions : HeldTenants(q)' \subseteq Tenants
    <3>1. ASSUME NEW q \in Sessions, q # s PROVE HeldTenants(q)' \subseteq Tenants
      BY <1>6, <3>1 DEF Inv, TypeOK, HeldTenants
    <3>2. HeldTenants(s)' \subseteq Tenants
      BY <1>4, <1>6 DEF HeldTenants, Sound
    <3>. QED  BY <3>1, <3>2
  <2>3. payment' \in [Payments -> {"none", "pending", "succeeded"}] /\ credits' \in [Payments -> Nat]
    BY <2>1 DEF Inv, TypeOK
  <2>4. TypeOK'
    BY <1>3, <1>6, <2>1, <2>2, <2>3 DEF Commit, Inv, TypeOK, Ses
  <2>5. CreditedOnce'
    BY <1>2, <1>8, <2>1 DEF Inv, TypeOK, CreditedOnce
  <2>6. ASSUME NEW q \in Sessions PROVE Working(q)'
    <3>1. CASE q = s
      BY <1>4, <1>6, <3>1 DEF Working, HoldsPayment, Sound, Holding
    <3>2. CASE q # s
      <4>1. Working(q) /\ ses'[q] = ses[q] /\ ses[q].p \in Payments \cup {NoPayment}
        BY <1>6, <3>2 DEF Inv, TypeOK
      <4>2. HoldsPayment(q) => ses[q].p # p
        BY <1>2, <1>8, <3>2
      <4>3. \A r \in Sessions : HoldsPayment(r)' => HoldsPayment(r) /\ ses'[r] = ses[r]
        BY <1>4, <1>6 DEF HoldsPayment, Holding
      <4>. QED  BY <2>1, <4>1, <4>2, <4>3 DEF Working, HoldsPayment, Inv, TypeOK
    <3>. QED  BY <3>1, <3>2
  <2>. QED  BY <2>4, <2>5, <2>6 DEF Inv
<1>. QED  BY <1>7, <1>8

\* The columns, the notices and the work lists keep their types.
Typed == /\ now \in 1 .. Horizon
         /\ active \in [Tenants -> BOOLEAN] /\ until \in [Tenants -> Nat]
         /\ trialUsed \in [Tenants -> BOOLEAN] /\ notified \in [Tenants -> Nat]
         /\ notice \in [Payments -> {"none", "due", "answered"}]
         /\ trying \subseteq Tenants /\ jobs \subseteq {"expire", "warn"} \X Tenants
         /\ expired \subseteq Tenants /\ faults \in 0 .. MaxFaults

LEMMA TypedKeeps ==
    ASSUME Inv, Typed', UNCHANGED <<ses, bonusUsed, payment, history>>
    PROVE  Inv'
<1>1. \A s \in Sessions : HeldTenants(s)' = HeldTenants(s)
  BY DEF HeldTenants
<1>2. TypeOK'
  BY <1>1 DEF Inv, TypeOK, Typed, history
<1>. QED  BY <1>2, OthersKeep DEF history

LEMMA TypedBefore == ASSUME Inv PROVE Typed
BY DEF Inv, TypeOK, Typed

\* The owner and YooKassa, the administrator, trials, the job, the middleware and time.
Environment ==
    \/ \E p \in Payments : CreatePayment(p) \/ Pay(p)
    \/ \E t \in Tenants : \/ TrialUnused(t) \/ Trial(t) \/ TrialFails(t)
                          \/ EventReads(t) \/ EventExpires(t)
                          \/ \E on \in BOOLEAN : SetBlock(t, on)
    \/ JobStep \/ BotDies \/ Tick \/ UNCHANGED vars

LEMMA EnvironmentKeeps == ASSUME Inv, Environment PROVE Inv'
<1>0. Typed
  BY TypedBefore
<1>1. ASSUME NEW p \in Payments, CreatePayment(p) PROVE Inv'
  <2>1. \A s \in Sessions : HeldTenants(s)' = HeldTenants(s)
    BY <1>1 DEF CreatePayment, HeldTenants
  <2>2. TypeOK'
    BY <1>1, <2>1 DEF CreatePayment, tenants, history, Inv, TypeOK
  <2>3. \A q \in Payments : /\ payment[q] = "pending" => payment'[q] = "pending"
                            /\ payment'[q] = "succeeded" <=> payment[q] = "succeeded"
    BY <1>1 DEF CreatePayment, Inv, TypeOK
  <2>4. UNCHANGED <<ses, credits>>
    BY <1>1 DEF CreatePayment, history
  <2>. QED  BY <2>2, <2>3, <2>4, OthersKeep
<1>2. ASSUME NEW p \in Payments, Pay(p) PROVE Inv'
  BY <1>0, <1>2, TypedKeeps DEF Pay, tenants, Typed
<1>3. ASSUME NEW t \in Tenants, TrialUnused(t) \/ TrialFails(t) PROVE Inv'
  BY <1>0, <1>3, TypedKeeps DEF TrialUnused, TrialFails, tenants, Typed
<1>4. ASSUME NEW t \in Tenants, Trial(t) PROVE Inv'
  <2>1. now + TrialDays \in Nat
    BY <1>0, SubscriptionAssumption DEF Typed
  <2>2. Typed'
    BY <1>0, <1>4, <2>1 DEF Trial, Typed
  <2>. QED  BY <1>4, <2>2, TypedKeeps DEF Trial
<1>5. ASSUME NEW t \in Tenants, EventReads(t) \/ EventExpires(t) PROVE Inv'
  BY <1>0, <1>5, TypedKeeps DEF EventReads, EventExpires, tenants, Typed
<1>6. ASSUME NEW t \in Tenants, NEW on \in BOOLEAN, SetBlock(t, on) PROVE Inv'
  BY <1>0, <1>6, TypedKeeps DEF SetBlock, Typed
<1>7. CASE JobScan
  <2>1. jobs' \subseteq {"expire", "warn"} \X Tenants
    BY <1>7 DEF JobScan
  <2>. QED  BY <1>0, <1>7, <2>1, TypedKeeps DEF JobScan, tenants, Typed
<1>8. ASSUME NEW t \in Tenants, JobExpire(t) PROVE Inv'
  BY <1>0, <1>8, TypedKeeps DEF JobExpire, Typed
<1>9. ASSUME NEW t \in Tenants, JobWarn(t) PROVE Inv'
  BY <1>0, <1>9, TypedKeeps DEF JobWarn, Typed, history
<1>10. CASE BotDies
  <2>1. faults' \in 0 .. MaxFaults
    BY <1>0, <1>10, SubscriptionAssumption DEF BotDies, Fault, Typed
  <2>. QED  BY <1>0, <1>10, <2>1, TypedKeeps DEF BotDies, tenants, Typed
<1>11. CASE Tick
  <2>1. now' \in 1 .. Horizon
    BY <1>0, <1>11, SubscriptionAssumption DEF Tick, Typed
  <2>. QED  BY <1>0, <1>11, <2>1, TypedKeeps DEF Tick, tenants, Typed
<1>12. CASE UNCHANGED vars
  BY <1>0, <1>12, TypedKeeps DEF vars, tenants, Typed
<1>. QED  BY <1>1, <1>2, <1>3, <1>4, <1>5, <1>6, <1>7, <1>8, <1>9, <1>10, <1>11, <1>12
          DEF Environment, JobStep

LEMMA InitSound == ASSUME Init PROVE Inv
<1> USE DEF Init
<1>1. TypeOK
  BY IdleFacts, SubscriptionAssumption DEF TypeOK, Ses, HeldTenants, NoDate
<1>2. CreditedOnce
  BY DEF CreditedOnce
<1>3. \A s \in Sessions : Working(s)
  BY IdleFacts DEF Working, HoldsPayment
<1>. QED  BY <1>1, <1>2, <1>3 DEF Inv

LEMMA StepKeeps == ASSUME Inv, [Next]_vars PROVE Inv'
<1>1. CASE Environment  BY <1>1, EnvironmentKeeps
<1>2. CASE \E s \in Sessions : \/ Session(s) \/ Fails(s) \/ Dies(s)
                               \/ \E t \in Tenants : AdminExtend(s, t)
                               \/ \E p \in Payments : Receive(s, p)
  BY <1>2, ReceiveKeeps, MarkKeeps, AdminExtendKeeps, ActivationKeeps, CommitKeeps, EndKeeps
     DEF Session
<1>. QED  BY <1>1, <1>2 DEF Next, Environment

\* However often YooKassa tells of a payment, whatever handlers of webhooks and of the
\* administrator run at the same time, fail and die: a payment extends its tenant once,
\* and it has done so exactly when its row says succeeded (mark_payment_succeeded and
\* activate_subscription commit together).
THEOREM PaymentsAreCreditedOnce == Spec => []Inv
BY InitSound, StepKeeps, PTL DEF Spec

-----------------------------------------------------------------------------
(* What a tenant is entitled to                                            *)

Paid(t)    == {p \in Payments : Payer[p] = t /\ payment[p] = "succeeded"}
Brought(t) == {u \in Tenants : Referrer[u] = t /\ bonusUsed[u]}
FromTrial(used) == IF used THEN TrialDays ELSE 0
Due(d, n, k) == d + Period * n + BonusDays * k

\* There are always finitely many of either, for any set of tenants and payments.
Counted == \A t \in Tenants : IsFiniteSet(Paid(t)) /\ IsFiniteSet(Brought(t))

\* A trial, one more payment or extension and one more tenant brought add what they should.
LEMMA DueGrows ==
    ASSUME NEW a \in Nat, NEW b \in Nat, a <= b,
           NEW n \in Nat, NEW m \in {n, n + 1}, NEW k \in Nat, NEW l \in {k, k + 1}
    PROVE  /\ Due(a, n, k) \in Nat /\ Due(b, m, l) \in Nat
           /\ Due(b, m, l) >= Due(a, n, k)
           /\ m = n + 1 => Due(b, m, l) >= Due(a, n, k) + Period
           /\ l = k + 1 => Due(b, m, l) >= Due(a, n, k) + BonusDays
           /\ Due(b, m, l) >= b
<1>1. {Period, BonusDays} \subseteq Nat
  BY SubscriptionAssumption
<1>2. ASSUME NEW c \in Nat, NEW x \in Nat
      PROVE  c * x \in Nat /\ c * (x + 1) \in Nat /\ c * (x + 1) = c * x + c
  OBVIOUS
<1>3. /\ Period * n \in Nat /\ Period * m \in Nat
      /\ Period * m = IF m = n + 1 THEN Period * n + Period ELSE Period * n
  BY <1>1, <1>2
<1>4. /\ BonusDays * k \in Nat /\ BonusDays * l \in Nat
      /\ BonusDays * l = IF l = k + 1 THEN BonusDays * k + BonusDays ELSE BonusDays * k
  BY <1>1, <1>2
<1> DEFINE P == Period * n  Q == Period * m  B == BonusDays * k  C == BonusDays * l
<1>5. /\ Due(a, n, k) = a + P + B
      /\ Due(b, m, l) = b + Q + C
  BY DEF Due
<1> HIDE DEF P, Q, B, C
<1>6. /\ P \in Nat /\ Q \in Nat /\ B \in Nat /\ C \in Nat
      /\ Q = IF m = n + 1 THEN P + Period ELSE P
      /\ C = IF l = k + 1 THEN B + BonusDays ELSE B
  BY <1>3, <1>4 DEF P, Q, B, C
<1>. QED  BY <1>1, <1>5, <1>6

LEMMA EntitledIs ==
    ASSUME NEW t \in Tenants
    PROVE  /\ Entitled(t) = Due(FromTrial(trialUsed[t]), Cardinality(Paid(t)) + extends[t],
                                Cardinality(Brought(t)))
           /\ Entitled(t)' = Due(FromTrial(trialUsed'[t]), Cardinality(Paid(t)') + extends'[t],
                                 Cardinality(Brought(t)'))
BY DEF Entitled, Paid, Brought, Due, FromTrial

\* A step that lets a tenant pay, extend or bring at most one more.
LEMMA EntitledGrows ==
    ASSUME NEW t \in Tenants, IsFiniteSet(Paid(t)), IsFiniteSet(Brought(t)),
           trialUsed[t] => trialUsed'[t], extends[t] \in Nat,
           \E x : Paid(t)' \in {Paid(t), Paid(t) \cup {x}},
           \E x : Brought(t)' \in {Brought(t), Brought(t) \cup {x}},
           extends'[t] \in {extends[t], extends[t] + 1},
           extends'[t] = extends[t] + 1 => Paid(t)' = Paid(t)
    PROVE  /\ IsFiniteSet(Paid(t)') /\ IsFiniteSet(Brought(t)')
           /\ Entitled(t) \in Nat /\ Entitled(t)' \in Nat /\ Entitled(t)' >= Entitled(t)
           /\ Paid(t)' # Paid(t) \/ extends'[t] # extends[t] => Entitled(t)' >= Entitled(t) + Period
           /\ Brought(t)' # Brought(t) => Entitled(t)' >= Entitled(t) + BonusDays
           /\ trialUsed'[t] => Entitled(t)' >= TrialDays
<1> DEFINE n == Cardinality(Paid(t)) + extends[t]
           m == Cardinality(Paid(t)') + extends'[t]
           k == Cardinality(Brought(t))
           l == Cardinality(Brought(t)')
<1>1. /\ IsFiniteSet(Paid(t)') /\ Cardinality(Paid(t)) \in Nat
      /\ Cardinality(Paid(t)') = IF Paid(t)' = Paid(t) THEN Cardinality(Paid(t))
                                                       ELSE Cardinality(Paid(t)) + 1
  <2>1. CASE Paid(t)' = Paid(t)
    BY <2>1, FS_CardinalityType
  <2>2. CASE Paid(t)' # Paid(t)
    <3>1. PICK x : Paid(t)' = Paid(t) \cup {x} /\ x \notin Paid(t)
      BY <2>2
    <3>. QED  BY <3>1, FS_AddElement, FS_CardinalityType
  <2>. QED  BY <2>1, <2>2
<1>2. /\ IsFiniteSet(Brought(t)') /\ k \in Nat
      /\ l = IF Brought(t)' = Brought(t) THEN k ELSE k + 1
  <2>1. CASE Brought(t)' = Brought(t)
    BY <2>1, FS_CardinalityType
  <2>2. CASE Brought(t)' # Brought(t)
    <3>1. PICK x : Brought(t)' = Brought(t) \cup {x} /\ x \notin Brought(t)
      BY <2>2
    <3>. QED  BY <3>1, FS_AddElement, FS_CardinalityType
  <2>. QED  BY <2>1, <2>2
<1>4. /\ n \in Nat /\ m \in {n, n + 1}
      /\ Paid(t)' # Paid(t) \/ extends'[t] # extends[t] => m = n + 1
  BY <1>1
<1> DEFINE d == FromTrial(trialUsed[t])
           e == FromTrial(trialUsed'[t])
<1>5. Entitled(t) = Due(d, n, k) /\ Entitled(t)' = Due(e, m, l)
  BY EntitledIs
<1>6. d \in Nat /\ e \in Nat /\ d <= e /\ (trialUsed'[t] => e = TrialDays)
  BY SubscriptionAssumption DEF FromTrial
<1> HIDE DEF n, m, k, l, d, e
<1>7. l \in {k, k + 1} /\ (Brought(t)' # Brought(t) => l = k + 1)
  BY <1>2
<1>8. /\ Due(d, n, k) \in Nat /\ Due(e, m, l) \in Nat
      /\ Due(e, m, l) >= Due(d, n, k)
      /\ m = n + 1 => Due(e, m, l) >= Due(d, n, k) + Period
      /\ l = k + 1 => Due(e, m, l) >= Due(d, n, k) + BonusDays
      /\ Due(e, m, l) >= e
  <2>1. d \in Nat /\ e \in Nat /\ d <= e
    BY <1>6
  <2>2. n \in Nat /\ m \in {n, n + 1} /\ k \in Nat /\ l \in {k, k + 1}
    BY <1>2, <1>4, <1>7
  <2>. QED  BY ONLY <2>1, <2>2, DueGrows
<1>9. /\ Paid(t)' # Paid(t) \/ extends'[t] # extends[t] => Entitled(t)' >= Entitled(t) + Period
      /\ Brought(t)' # Brought(t) => Entitled(t)' >= Entitled(t) + BonusDays
  BY <1>4, <1>5, <1>7, <1>8
<1>10. trialUsed'[t] => Entitled(t)' >= TrialDays
  BY <1>5, <1>6, <1>8
<1>. QED  BY <1>1, <1>2, <1>5, <1>8, <1>9, <1>10

\* Nothing but a commit pays, extends or brings.
LEMMA QuietKeeps ==
    ASSUME Inv, Inv', Counted, UNCHANGED <<bonusUsed, extends>>,
           \A p \in Payments : payment'[p] = "succeeded" <=> payment[p] = "succeeded",
           \A t \in Tenants : trialUsed[t] => trialUsed'[t]
    PROVE  /\ Counted'
           /\ \A t \in Tenants : /\ Entitled(t) \in Nat /\ Entitled(t)' \in Nat
                                 /\ Entitled(t)' >= Entitled(t)
                                 /\ trialUsed'[t] => Entitled(t)' >= TrialDays
<1>1. ASSUME NEW t \in Tenants PROVE Paid(t)' = Paid(t) /\ Brought(t)' = Brought(t)
  BY DEF Paid, Brought
<1>2. ASSUME NEW t \in Tenants
      PROVE  /\ IsFiniteSet(Paid(t)') /\ IsFiniteSet(Brought(t)')
             /\ Entitled(t) \in Nat /\ Entitled(t)' \in Nat /\ Entitled(t)' >= Entitled(t)
             /\ trialUsed'[t] => Entitled(t)' >= TrialDays
  <2>1. extends[t] \in Nat /\ extends'[t] = extends[t] /\ IsFiniteSet(Paid(t)) /\ IsFiniteSet(Brought(t))
    BY DEF Inv, TypeOK, Counted
  <2>. QED  BY <1>1, <2>1, EntitledGrows
<1>. QED  BY <1>2 DEF Counted

-----------------------------------------------------------------------------
(* Activations that do not overlap                                         *)

\* What an activation in state o has read still bounds what it may write, and it loses at
\* most a trial that has begun since it read.
Knows(o) ==
    /\ o.pc \in {"extend", "extended", "grant", "granted", "commit"} =>
          /\ o.until <= now + Entitled(o.t)
          /\ until[o.t] <= Later(o.until, now + TrialDays)
          /\ bonusUsed[o.t] => o.bonusUsed
    /\ o.pc \in {"grant", "granted"} =>
          /\ ~ bonusUsed[o.t]
          /\ o.refUntil <= now + Entitled(Referrer[o.t])
          /\ until[Referrer[o.t]] <= Later(o.refUntil, now + TrialDays)

Alone  == \A s, o \in Busy : s = o
Honest == NoFreeDays /\ \A s \in Sessions : Knows(ses[s])

SerialInv == Inv /\ Counted /\ (~ overlapped => Alone /\ Honest)

\* A session goes on, and the tenants are as they were.
LEMMA SessionStaysHonest ==
    ASSUME Inv, Inv', Counted, Honest, NEW s \in Sessions, NEW o,
           ses' = [ses EXCEPT ![s] = o], Knows(o),
           UNCHANGED <<now, tenants, payment, history>>
    PROVE  Counted' /\ Honest'
<1>1. Counted' /\ \A t \in Tenants : Entitled(t)' = Entitled(t)
  BY QuietKeeps DEF tenants, history, Entitled
<1>2. NoFreeDays'
  BY <1>1 DEF Honest, NoFreeDays, tenants
<1>3. ASSUME NEW q \in Sessions PROVE Knows(ses'[q])
  BY <1>3 DEF Honest, Inv, TypeOK
<1>4. ASSUME NEW q \in Sessions PROVE Knows(ses[q])'
  <2>1. ses'[q].pc \notin {"idle", "answer"} => ses'[q].t \in Tenants
    BY DEF Inv, Working
  <2>2. ses'[q].pc \in {"grant", "granted"} => Referrer[ses'[q].t] \in Tenants
    BY DEF Inv, Working
  <2>3. now' = now /\ until' = until /\ bonusUsed' = bonusUsed
    BY DEF tenants
  <2>. QED  BY <1>1, <1>3, <2>1, <2>2, <2>3 DEF Knows
<1>. QED  BY <1>1, <1>2, <1>4 DEF Honest

\* The columns that a session reads are natural numbers, and so is what it is entitled to.
LEMMA KnownTypes ==
    ASSUME Inv, Counted
    PROVE  /\ now \in Nat /\ {TrialDays, Period, BonusDays} \subseteq Nat
           /\ \A t \in Tenants : until[t] \in Nat /\ Entitled(t) \in Nat
<1>1. now \in Nat /\ {TrialDays, Period, BonusDays} \subseteq Nat
  BY SubscriptionAssumption DEF Inv, TypeOK
<1>2. ASSUME NEW t \in Tenants PROVE until[t] \in Nat /\ Entitled(t) \in Nat
  <2> DEFINE d == FromTrial(trialUsed[t])
             n == Cardinality(Paid(t)) + extends[t]
             k == Cardinality(Brought(t))
  <2>1. until[t] \in Nat /\ extends[t] \in Nat
    BY DEF Inv, TypeOK
  <2>2. d \in Nat /\ n \in Nat /\ k \in Nat
    BY <1>1, <2>1, FS_CardinalityType DEF Counted, FromTrial
  <2>3. Entitled(t) = Due(d, n, k)
    BY EntitledIs
  <2> HIDE DEF d, n, k
  <2>4. d <= d /\ n \in {n, n + 1} /\ k \in {k, k + 1}
    BY <2>2
  <2>5. Due(d, n, k) \in Nat
    BY ONLY <2>2, <2>4, DueGrows
  <2>. QED  BY <2>1, <2>3, <2>5
<1>. QED  BY <1>1, <1>2

\* The steps of an activation that only read or lock.
Reads(s) == \/ Session(s) /\ ~ Commit(s)
            \/ Fails(s) \/ Dies(s)
            \/ \E t \in Tenants : AdminExtend(s, t)
            \/ \E p \in Payments : Receive(s, p)

LEMMA SessionHonest ==
    ASSUME Inv, Inv', Counted, Honest, NEW s \in Sessions, Reads(s)
    PROVE  Honest'
<1>0. /\ ses[s] \in Ses /\ Sound(ses[s]) /\ Knows(ses[s])
      /\ now \in Nat /\ TrialDays \in Nat
      /\ \A t \in Tenants : until[t] \in Nat /\ Entitled(t) \in Nat
  BY Before, KnownTypes DEF Honest
<1>1. ASSUME NEW o, o.pc \in {"idle", "verify", "read", "answer"} PROVE Knows(o)
  BY <1>1 DEF Knows
<1>2. ASSUME NEW p \in Payments, Receive(s, p) PROVE Honest'
  <2> DEFINE o == [Idle EXCEPT !.pc = "verify", !.t = Payer[p], !.p = p]
  <2>1. o.pc = "verify" /\ ses' = [ses EXCEPT ![s] = o]
    BY <1>2 DEF Receive, Step, Idle
  <2> HIDE DEF o
  <2>2. Knows(o)
    BY ONLY <1>1, <2>1
  <2>. QED  BY <1>2, <2>1, <2>2, SessionStaysHonest DEF Receive
<1>3. CASE Mark(s)
  <2> DEFINE o == [ses[s] EXCEPT !.pc = IF payment[ses[s].p] = "pending" THEN "read" ELSE "answer"]
  <2>1. o.pc \in {"read", "answer"} /\ ses' = [ses EXCEPT ![s] = o]
    BY <1>0, <1>3 DEF Mark, AtPc, Step, Ses
  <2> HIDE DEF o
  <2>2. Knows(o)
    BY ONLY <1>1, <2>1
  <2>. QED  BY <1>3, <2>1, <2>2, SessionStaysHonest DEF Mark
<1>4. ASSUME NEW t \in Tenants, AdminExtend(s, t) PROVE Honest'
  <2> DEFINE o == [Idle EXCEPT !.pc = "read", !.t = t]
  <2>1. o.pc = "read" /\ ses' = [ses EXCEPT ![s] = o]
    BY <1>4 DEF AdminExtend, Step, Idle
  <2> HIDE DEF o
  <2>2. Knows(o)
    BY ONLY <1>1, <2>1
  <2>. QED  BY <1>4, <2>1, <2>2, SessionStaysHonest DEF AdminExtend
<1>5. CASE Answer(s) \/ Fails(s) \/ Dies(s)
  <2>1. ses' = [ses EXCEPT ![s] = Idle] /\ Knows(Idle)
    BY <1>1, <1>5, IdleFacts DEF Answer, Fails, Dies, Step
  <2>. QED  BY <1>5, <2>1, SessionStaysHonest DEF Answer, Fails, Dies
<1>6. CASE ReadTenant(s)
  <2> DEFINE o == [ses[s] EXCEPT !.pc = "extend", !.until = until[ses[s].t],
                                 !.bonusUsed = bonusUsed[ses[s].t]]
  <2>1. /\ o.pc = "extend" /\ o.t = ses[s].t /\ o.until = until[ses[s].t]
        /\ bonusUsed[o.t] => o.bonusUsed
    BY <1>0 DEF Ses
  <2>2. ses' = [ses EXCEPT ![s] = o] /\ o.t \in Tenants
    BY <1>0, <1>6, <2>1 DEF ReadTenant, Step, Sound
  <2> HIDE DEF o
  <2>3. o.until <= now + Entitled(o.t) /\ until[o.t] <= Later(o.until, now + TrialDays)
    BY <1>0, <2>1, <2>2 DEF Honest, NoFreeDays, Later
  <2>4. Knows(o)
    BY <2>1, <2>3 DEF Knows
  <2>. QED  BY <1>6, <2>2, <2>4, SessionStaysHonest DEF ReadTenant
<1>7. CASE ExtendTenant(s)
  <2> DEFINE o == [ses[s] EXCEPT !.pc = "extended"]
  <2>1. /\ o.pc = "extended" /\ o.t = ses[s].t /\ o.until = ses[s].until
        /\ o.bonusUsed = ses[s].bonusUsed
    BY <1>0 DEF Ses
  <2>2. ses' = [ses EXCEPT ![s] = o]
    BY <1>7 DEF ExtendTenant, AtPc, Step
  <2> HIDE DEF o
  <2>3. Knows(o)
    BY <1>0, <1>7, <2>1 DEF Knows, ExtendTenant
  <2>. QED  BY <1>7, <2>2, <2>3, SessionStaysHonest DEF ExtendTenant
<1>8. CASE ReadReferrer(s)
  <2> DEFINE r == Referrer[ses[s].t]
             g == [ses[s] EXCEPT !.pc = "grant", !.refUntil = until[r]]
             c == [ses[s] EXCEPT !.pc = "commit"]
  <2>1. CASE ses' = [ses EXCEPT ![s] = c]
    <3>1. c.pc = "commit" /\ c.t = ses[s].t /\ c.until = ses[s].until
          /\ c.bonusUsed = ses[s].bonusUsed
      BY <1>0 DEF Ses
    <3> HIDE DEF c
    <3>2. Knows(c)
      BY <1>0, <1>8, <3>1 DEF Knows, ReadReferrer
    <3>. QED  BY <1>8, <2>1, <3>2, SessionStaysHonest DEF ReadReferrer
  <2>2. CASE r # NoTenant /\ ~ ses[s].bonusUsed /\ ses' = [ses EXCEPT ![s] = g]
    <3>1. g.pc = "grant" /\ g.t = ses[s].t /\ g.until = ses[s].until
          /\ g.bonusUsed = ses[s].bonusUsed /\ g.refUntil = until[r]
      BY <1>0 DEF Ses
    <3> HIDE DEF g
    <3>2. r \in Tenants /\ ~ bonusUsed[g.t] /\ ~ g.bonusUsed
      BY <1>0, <1>8, <2>2, <3>1, SubscriptionAssumption DEF Knows, ReadReferrer, Sound
    <3>3. /\ g.refUntil <= now + Entitled(Referrer[g.t])
          /\ until[Referrer[g.t]] <= Later(g.refUntil, now + TrialDays)
      BY <1>0, <3>1, <3>2 DEF Honest, NoFreeDays, Later
    <3>4. Knows(g)
      BY <1>0, <1>8, <3>1, <3>2, <3>3 DEF Knows, ReadReferrer
    <3>. QED  BY <1>8, <2>2, <3>4, SessionStaysHonest DEF ReadReferrer
  <2>. QED  BY <1>8, <2>1, <2>2 DEF ReadReferrer, AtPc, Step
<1>9. CASE GrantBonus(s)
  <2> DEFINE o == [ses[s] EXCEPT !.pc = "granted"]
  <2>1. /\ o.pc = "granted" /\ o.t = ses[s].t /\ o.until = ses[s].until
        /\ o.bonusUsed = ses[s].bonusUsed /\ o.refUntil = ses[s].refUntil
    BY <1>0 DEF Ses
  <2>2. ses' = [ses EXCEPT ![s] = o]
    BY <1>9 DEF GrantBonus, AtPc, Step
  <2> HIDE DEF o
  <2>3. Knows(o)
    BY <1>0, <1>9, <2>1 DEF Knows, GrantBonus
  <2>. QED  BY <1>9, <2>2, <2>3, SessionStaysHonest DEF GrantBonus
<1>. QED  BY <1>2, <1>3, <1>4, <1>5, <1>6, <1>7, <1>8, <1>9 DEF Session, Reads

\* A commit pays or extends once, and brings at most the tenant whose it is.
LEMMA CommitGrows ==
    ASSUME Inv, Inv', Counted, NEW s \in Sessions, Commit(s),
           NEW t, t = ses[s].t, NEW p, p = ses[s].p
    PROVE  /\ Counted'
           /\ \A u \in Tenants : Entitled(u)' \in Nat /\ Entitled(u)' >= Entitled(u)
           /\ Entitled(t)' >= Entitled(t) + Period
           /\ ses[s].pc = "granted" /\ ~ bonusUsed[t] =>
                  Entitled(Referrer[t])' >= Entitled(Referrer[t]) + BonusDays
<1>1. /\ t \in Tenants /\ p \in Payments \cup {NoPayment} /\ NoPayment \notin Payments
      /\ p # NoPayment => payment[p] = "pending" /\ Payer[p] = t
  BY Before, IdleFacts DEF Commit, Sound, Holding, Ses
<1>2. /\ p = NoPayment => payment' = payment /\ extends' = [extends EXCEPT ![t] = @ + 1]
      /\ p # NoPayment => extends' = extends /\ payment' = [payment EXCEPT ![p] = "succeeded"]
      /\ bonusUsed' = BonusMarked(s) /\ trialUsed' = trialUsed
  BY DEF Commit
<1>3. ASSUME NEW u \in Tenants
      PROVE  /\ Paid(u)' = IF p # NoPayment /\ u = t THEN Paid(u) \cup {p} ELSE Paid(u)
             /\ extends'[u] = IF p = NoPayment /\ u = t THEN extends[u] + 1 ELSE extends[u]
  BY <1>1, <1>2 DEF Paid, Inv, TypeOK
<1>4. ASSUME NEW u \in Tenants
      PROVE  Brought(u)' = IF ses[s].pc = "granted" /\ u = Referrer[t] THEN Brought(u) \cup {t}
                                                                       ELSE Brought(u)
  <2>1. ASSUME NEW v \in Tenants
        PROVE  bonusUsed'[v] <=> bonusUsed[v] \/ (v = t /\ ses[s].pc = "granted")
    <3> DEFINE granted == ses[s].pc = "granted"
    <3>1. bonusUsed' = [bonusUsed EXCEPT ![t] = bonusUsed[t] \/ granted] /\ bonusUsed \in [Tenants -> BOOLEAN]
      BY <1>2 DEF BonusMarked, Inv, TypeOK
    <3> HIDE DEF granted
    <3>2. v # t => bonusUsed'[v] = bonusUsed[v]
      BY <3>1
    <3>3. bonusUsed'[t] = (bonusUsed[t] \/ granted)
      BY <1>1, <3>1, Zenon
    <3>. QED  BY <3>2, <3>3, Zenon DEF granted
  <2>. QED  BY <1>1, <2>1 DEF Brought
<1>5. ASSUME NEW u \in Tenants
      PROVE  /\ IsFiniteSet(Paid(u)') /\ IsFiniteSet(Brought(u)')
             /\ Entitled(u) \in Nat /\ Entitled(u)' \in Nat /\ Entitled(u)' >= Entitled(u)
             /\ Paid(u)' # Paid(u) \/ extends'[u] # extends[u] => Entitled(u)' >= Entitled(u) + Period
             /\ Brought(u)' # Brought(u) => Entitled(u)' >= Entitled(u) + BonusDays
  <2>1. /\ IsFiniteSet(Paid(u)) /\ IsFiniteSet(Brought(u)) /\ (trialUsed[u] => trialUsed'[u])
        /\ Paid(u)' \in {Paid(u), Paid(u) \cup {p}} /\ Brought(u)' \in {Brought(u), Brought(u) \cup {t}}
    BY <1>2, <1>3, <1>4 DEF Counted
  <2>2. extends[u] \in Nat
    BY DEF Inv, TypeOK
  <2>3. /\ extends'[u] \in {extends[u], extends[u] + 1}
        /\ extends'[u] = extends[u] + 1 => Paid(u)' = Paid(u)
    BY <1>3, <2>2
  <2>4. /\ \E x : Paid(u)' \in {Paid(u), Paid(u) \cup {x}}
        /\ \E x : Brought(u)' \in {Brought(u), Brought(u) \cup {x}}
    BY <2>1
  <2>. QED  BY ONLY <1>5, <2>1, <2>2, <2>3, <2>4, EntitledGrows
<1>6. Paid(t)' # Paid(t) \/ extends'[t] # extends[t]
  <2>1. CASE p = NoPayment
    BY <1>1, <1>3, <2>1 DEF Inv, TypeOK
  <2>2. CASE p # NoPayment
    <3>1. p \notin Paid(t) /\ Paid(t)' = Paid(t) \cup {p}
      BY <1>1, <1>3, <2>2 DEF Paid
    <3>. QED  BY <3>1
  <2>. QED  BY <2>1, <2>2
<1>7. ASSUME ses[s].pc = "granted", ~ bonusUsed[t]
      PROVE  Referrer[t] \in Tenants /\ Brought(Referrer[t])' # Brought(Referrer[t])
  <2>1. Referrer[t] \in Tenants
    BY <1>7, Before DEF Sound
  <2>2. t \notin Brought(Referrer[t])
    BY <1>7 DEF Brought
  <2>3. Brought(Referrer[t])' = Brought(Referrer[t]) \cup {t}
    BY <1>4, <1>7, <2>1
  <2>. QED  BY <2>1, <2>2, <2>3
<1>8. Counted' /\ \A u \in Tenants : Entitled(u)' \in Nat /\ Entitled(u)' >= Entitled(u)
  BY <1>5 DEF Counted
<1>9. Entitled(t)' >= Entitled(t) + Period
  BY ONLY <1>1, <1>5, <1>6
<1>10. ses[s].pc = "granted" /\ ~ bonusUsed[t] => Entitled(Referrer[t])' >= Entitled(Referrer[t]) + BonusDays
  BY ONLY <1>5, <1>7
<1>. QED  BY ONLY <1>8, <1>9, <1>10

LEMMA LaterIs ==
    ASSUME NEW a \in Nat, NEW b \in Nat
    PROVE  Later(a, b) \in Nat /\ Later(a, b) >= a /\ Later(a, b) >= b /\ Later(a, b) \in {a, b}
BY DEF Later

\* The commit of an activation that is alone.
LEMMA CommitHonest ==
    ASSUME Inv, Inv', Counted, Alone, Honest, NEW s \in Sessions, Commit(s),
           NEW t, t = ses[s].t, NEW r, r = Referrer[t]
    PROVE  Honest'
<1>1. /\ ses[s] \in Ses /\ t \in Tenants /\ Knows(ses[s]) /\ ses[s].pc \in {"commit", "granted"}
      /\ ses[s].pc = "granted" => r \in Tenants /\ r # t
      /\ ses[s].until \in Nat /\ ses[s].refUntil \in Nat /\ now' = now
      /\ now \in Nat /\ {TrialDays, Period, BonusDays} \subseteq Nat
      /\ \A u \in Tenants : until[u] \in Nat /\ Entitled(u) \in Nat /\ until[u] <= now + Entitled(u)
  BY Before, KnownTypes, SubscriptionAssumption DEF Honest, NoFreeDays, Commit, Sound, Ses
<1>0. \A u \in Tenants : until'[u] =
         CASE u = t -> Later(ses[s].until, now) + Period
           [] ses[s].pc = "granted" /\ u = r -> Later(ses[s].refUntil, now) + BonusDays
           [] OTHER -> until[u]
  BY DEF Commit, NewUntil
<1>2. ASSUME NEW u \in Tenants, u = t PROVE until'[u] <= now + Entitled(u)'
  <2>1. until'[u] = Later(ses[s].until, now) + Period
    BY <1>0, <1>1, <1>2
  <2>2. ses[s].until <= now + Entitled(t)
    BY <1>1 DEF Knows
  <2>3. Entitled(t)' \in Nat /\ Entitled(t)' >= Entitled(t) + Period
    BY <1>1, CommitGrows
  <2>4. Later(ses[s].until, now) \in {ses[s].until, now}
    BY <1>1, LaterIs
  <2>. QED  BY <1>1, <1>2, <2>1, <2>2, <2>3, <2>4
<1>3. ASSUME NEW u \in Tenants, u # t, ses[s].pc = "granted", u = r
      PROVE  until'[u] <= now + Entitled(u)'
  <2>1. until'[u] = Later(ses[s].refUntil, now) + BonusDays
    BY <1>0, <1>1, <1>3
  <2>2. ses[s].refUntil <= now + Entitled(r) /\ ~ bonusUsed[t]
    BY <1>1, <1>3 DEF Knows
  <2>3. Entitled(r)' \in Nat /\ Entitled(r)' >= Entitled(r) + BonusDays
    BY <1>1, <1>3, <2>2, CommitGrows
  <2>4. Later(ses[s].refUntil, now) \in {ses[s].refUntil, now}
    BY <1>1, LaterIs
  <2>. QED  BY <1>1, <1>3, <2>1, <2>2, <2>3, <2>4
<1>4. ASSUME NEW u \in Tenants, u # t, ~ (ses[s].pc = "granted" /\ u = r)
      PROVE  until'[u] <= now + Entitled(u)'
  <2>1. until'[u] = until[u]
    BY <1>0, <1>4
  <2>2. Entitled(u)' \in Nat /\ Entitled(u)' >= Entitled(u)
    BY CommitGrows
  <2>. QED  BY <1>1, <2>1, <2>2
<1>5. NoFreeDays'
  BY <1>1, <1>2, <1>3, <1>4 DEF NoFreeDays
<1>6. ASSUME NEW q \in Sessions PROVE ses'[q].pc \in {"idle", "answer"}
  <2> DEFINE o == [Idle EXCEPT !.pc = "answer", !.p = ses[s].p]
  <2>3. o.pc = "answer"
    BY DEF Idle
  <2>0. /\ ses' = [ses EXCEPT ![s] = Idle] \/ ses' = [ses EXCEPT ![s] = o]
        /\ DOMAIN ses = Sessions
    <3>1. CASE ses[s].p = NoPayment
      BY <3>1 DEF Commit, Step, Inv, TypeOK
    <3>2. CASE ses[s].p # NoPayment
      BY <3>2 DEF Commit, Step, Inv, TypeOK
    <3>. QED  BY <3>1, <3>2
  <2>1. CASE q = s
    <3> HIDE DEF o
    <3>. QED  BY <2>0, <2>3, <2>1, IdleFacts
  <2>2. CASE q # s
    <3>1. ses[q] = Idle
      BY <1>1, <2>2, IdleFacts DEF Alone, Busy
    <3>2. ses'[q] = ses[q]
      BY <2>0, <2>2
    <3>. QED  BY <3>1, <3>2, IdleFacts
  <2>. QED  BY <2>1, <2>2
<1>7. ASSUME NEW q \in Sessions PROVE Knows(ses[q])'
  BY <1>6 DEF Knows
<1>. QED  BY <1>5, <1>7 DEF Honest

\* Whatever happens else, nothing is paid, extended or brought; the end of a subscription
\* moves to that of a trial only, and time passes only when no activation runs.
Elsewhere ==
    /\ UNCHANGED <<ses, bonusUsed, extends>>
    /\ \A p \in Payments : payment'[p] = "succeeded" <=> payment[p] = "succeeded"
    /\ \A t \in Tenants : /\ trialUsed[t] => trialUsed'[t]
                          /\ until'[t] = until[t] \/ (trialUsed'[t] /\ until'[t] = now + TrialDays)
    /\ now' = now \/ (now' = now + 1 /\ \A s \in Sessions : ses[s] = Idle)

LEMMA EnvironmentElsewhere == ASSUME Inv, Environment PROVE Elsewhere
<1>1. ASSUME NEW p \in Payments, CreatePayment(p) \/ Pay(p) PROVE Elsewhere
  BY <1>1 DEF CreatePayment, Pay, Elsewhere, tenants, history, Inv, TypeOK
<1>2. ASSUME NEW t \in Tenants, TrialUnused(t) \/ TrialFails(t) \/ EventReads(t) PROVE Elsewhere
  BY <1>2 DEF TrialUnused, TrialFails, EventReads, Elsewhere, tenants, history
<1>3. ASSUME NEW t \in Tenants, Trial(t) PROVE Elsewhere
  <2>1. /\ UNCHANGED <<now, ses, bonusUsed, extends, payment>>
        /\ until' = [until EXCEPT ![t] = now + TrialDays]
        /\ trialUsed' = [trialUsed EXCEPT ![t] = TRUE]
        /\ until \in [Tenants -> Nat] /\ trialUsed \in [Tenants -> BOOLEAN]
    BY <1>3 DEF Trial, history, Inv, TypeOK
  <2>2. ASSUME NEW u \in Tenants
        PROVE  /\ trialUsed[u] => trialUsed'[u]
               /\ until'[u] = until[u] \/ (trialUsed'[u] /\ until'[u] = now + TrialDays)
    BY <2>1
  <2>. QED  BY <2>1, <2>2 DEF Elsewhere
<1>4. ASSUME NEW t \in Tenants,
             EventExpires(t) \/ JobExpire(t) \/ JobWarn(t) \/ \E on \in BOOLEAN : SetBlock(t, on)
      PROVE  Elsewhere
  BY <1>4 DEF EventExpires, JobExpire, JobWarn, SetBlock, Elsewhere, history
<1>5. CASE JobScan \/ BotDies \/ UNCHANGED vars
  BY <1>5 DEF JobScan, BotDies, vars, Elsewhere, tenants, history
<1>6. CASE Tick
  BY <1>6 DEF Tick, Elsewhere, tenants, history
<1>. QED  BY <1>1, <1>2, <1>3, <1>4, <1>5, <1>6 DEF Environment, JobStep

LEMMA EnvironmentHonest ==
    ASSUME Inv, Inv', Counted, Honest, Elsewhere
    PROVE  Honest'
<1>1. /\ now \in Nat /\ TrialDays \in Nat
      /\ \A t \in Tenants : until[t] \in Nat /\ until[t] <= now + Entitled(t)
  BY KnownTypes DEF Honest, NoFreeDays
<1>2. now' \in Nat /\ now' >= now
  BY <1>1 DEF Elsewhere
<1>3. \A t \in Tenants : /\ Entitled(t) \in Nat /\ Entitled(t)' \in Nat
                         /\ Entitled(t)' >= Entitled(t)
                         /\ trialUsed'[t] => Entitled(t)' >= TrialDays
  BY QuietKeeps DEF Elsewhere
<1>4. ASSUME NEW t \in Tenants PROVE until'[t] <= now' + Entitled(t)'
  BY <1>1, <1>2, <1>3 DEF Elsewhere
<1>5. ASSUME NEW q \in Sessions, NEW o, o = ses[q] PROVE Knows(o)'
  <2>1. CASE o = Idle
    BY <2>1, IdleFacts DEF Knows
  <2>2. CASE o # Idle
    <3>1. now' = now /\ bonusUsed' = bonusUsed /\ Knows(o)
      BY <1>5, <2>2 DEF Elsewhere, Honest
    <3>2. /\ o.until \in Nat /\ o.refUntil \in Nat
          /\ o.pc \notin {"idle", "answer"} => o.t \in Tenants
          /\ o.pc \in {"grant", "granted"} => Referrer[o.t] \in Tenants
      BY <1>5, Before DEF Ses, Sound
    <3>3. ASSUME NEW t \in Tenants, NEW a \in Nat, until[t] <= Later(a, now + TrialDays)
          PROVE  until'[t] <= Later(a, now + TrialDays)
      BY <1>1, <3>3 DEF Elsewhere, Later
    <3>4. ASSUME NEW t \in Tenants, NEW a \in Nat, a <= now + Entitled(t)
          PROVE  a <= now + Entitled(t)'
      BY <1>1, <1>3, <3>4
    <3>. QED  BY <3>1, <3>2, <3>3, <3>4 DEF Knows
  <2>. QED  BY <2>1, <2>2
<1>6. NoFreeDays'
  BY <1>4 DEF NoFreeDays
<1>7. ASSUME NEW q \in Sessions PROVE Knows(ses[q])'
  <2>1. ses'[q] = ses[q]
    BY DEF Elsewhere
  <2>. QED  BY <1>5, <2>1 DEF Knows
<1>. QED  BY <1>6, <1>7 DEF Honest

LEMMA CountedKeeps == ASSUME Inv, Inv', Counted, [Next]_vars PROVE Counted'
<1>1. CASE Environment
  BY <1>1, EnvironmentElsewhere, QuietKeeps DEF Elsewhere
<1>2. ASSUME NEW s \in Sessions, Commit(s) PROVE Counted'
  BY <1>2, CommitGrows
<1>3. ASSUME NEW s \in Sessions, Reads(s) PROVE Counted'
  <2>1. UNCHANGED <<tenants, payment, history>>
    BY <1>3 DEF Reads, Session, Mark, ReadTenant, ExtendTenant, ReadReferrer, GrantBonus,
                Answer, Fails, Dies, AdminExtend, Receive
  <2>. QED  BY <2>1, QuietKeeps DEF tenants, history
<1>. QED  BY <1>1, <1>2, <1>3 DEF Next, Environment, Session, Reads

LEMMA SerialBegins == ASSUME SerialInit PROVE SerialInv
<1> USE DEF SerialInit
<1>1. Inv
  BY InitSound
<1>2. \A t \in Tenants : Paid(t) = {} /\ Brought(t) = {}
  BY DEF Init, Paid, Brought
<1>3. Counted
  BY <1>2, FS_EmptySet DEF Counted
<1>4. Alone
  BY DEF Init, Alone, Busy
<1>5. \A t \in Tenants : until[t] = 0 /\ now = 1
  BY DEF Init, NoDate
<1>6. NoFreeDays
  BY <1>1, <1>3, <1>5, KnownTypes DEF NoFreeDays
<1>7. \A s \in Sessions : Knows(ses[s])
  BY IdleFacts DEF Init, Knows
<1>. QED  BY <1>1, <1>3, <1>4, <1>6, <1>7 DEF SerialInv, Honest

\* Activations that have not overlapped after a step had not before it.
LEMMA NotOverlapped ==
    ASSUME SerialInv, [SerialNext]_SerialVars, ~ overlapped'
    PROVE  ~ overlapped /\ Alone /\ Honest /\ Alone' /\ [Next]_vars
<1>1. CASE SerialNext
  BY <1>1 DEF SerialNext, SerialInv, Alone
<1>2. CASE UNCHANGED SerialVars
  BY <1>2 DEF SerialVars, vars, SerialInv, Alone, Busy
<1>. QED  BY <1>1, <1>2

LEMMA SerialStep == ASSUME SerialInv, [SerialNext]_SerialVars PROVE SerialInv'
<1>0. [Next]_vars
  BY DEF SerialNext, SerialVars
<1>1. Inv'
  BY <1>0, StepKeeps DEF SerialInv
<1>2. Counted'
  BY <1>0, <1>1, CountedKeeps DEF SerialInv
<1>3. ASSUME ~ overlapped' PROVE Alone' /\ Honest'
  <2>1. Inv /\ Counted /\ Alone /\ Honest /\ Alone'
    BY <1>3, NotOverlapped DEF SerialInv
  <2>2. CASE Environment
    BY <1>1, <2>1, <2>2, EnvironmentElsewhere, EnvironmentHonest
  <2>3. ASSUME NEW s \in Sessions, Commit(s) PROVE Honest'
    BY <1>1, <2>1, <2>3, CommitHonest
  <2>4. ASSUME NEW s \in Sessions, Reads(s) PROVE Honest'
    BY <1>1, <2>1, <2>4, SessionHonest
  <2>. QED  BY <1>0, <2>1, <2>2, <2>3, <2>4 DEF Next, Environment, Session, Reads
<1>. QED  BY <1>1, <1>2, <1>3 DEF SerialInv

\* As long as activations do not overlap, no tenant ever has more days ahead of it than its
\* trial, its payments, its extensions and its bonuses entitle it to, for any order of the
\* handlers, any repeated notice, error and crash.
THEOREM NoDaysForFree == SerialSpec => []SerialNoFreeDays
<1>1. SerialInv => SerialNoFreeDays
  BY DEF SerialInv, Honest, SerialNoFreeDays
<1>. QED  BY <1>1, SerialBegins, SerialStep, PTL DEF SerialSpec

\* The commit of an activation that is alone ends no subscription sooner, if a trial is no
\* longer than a paid period and than a bonus: what it has read can be older than a trial.
LEMMA CommitShortensNothing ==
    ASSUME Inv, Counted, Honest, TrialDays <= Period, TrialDays <= BonusDays,
           NEW s \in Sessions, Commit(s), NEW u \in Tenants
    PROVE  until'[u] >= until[u]
<1> DEFINE t == ses[s].t
           r == Referrer[t]
           granted == ses[s].pc = "granted"
<1>1. /\ t \in Tenants /\ Knows(ses[s]) /\ ses[s].pc \in {"commit", "granted"}
      /\ ses[s].pc = "granted" => r \in Tenants /\ r # t
      /\ ses[s].until \in Nat /\ ses[s].refUntil \in Nat
      /\ now \in Nat /\ {TrialDays, Period, BonusDays} \subseteq Nat /\ until[u] \in Nat
  BY Before, KnownTypes, SubscriptionAssumption DEF Honest, Commit, Sound, Ses
<1>2. u = t => until'[u] = Later(ses[s].until, now) + Period
  BY <1>1 DEF Commit, NewUntil
<1>3. u # t /\ granted /\ u = r => until'[u] = Later(ses[s].refUntil, now) + BonusDays
  BY DEF Commit, NewUntil
<1>4. u # t /\ ~ (granted /\ u = r) => until'[u] = until[u]
  BY DEF Commit
<1>5. u = t => until[u] <= Later(ses[s].until, now + TrialDays)
  BY <1>1 DEF Knows
<1>6. granted /\ u = r => until[u] <= Later(ses[s].refUntil, now + TrialDays)
  BY <1>1 DEF Knows
<1>7. ASSUME NEW a \in Nat, NEW d \in Nat, TrialDays <= d, until[u] <= Later(a, now + TrialDays)
      PROVE  Later(a, now) + d >= until[u]
  BY <1>1, <1>7 DEF Later
<1> HIDE DEF t, r, granted
<1>8. u = t => Later(ses[s].until, now) + Period >= until[u]
  BY <1>1, <1>5, <1>7
<1>9. granted /\ u = r => Later(ses[s].refUntil, now) + BonusDays >= until[u]
  BY <1>1, <1>6, <1>7
<1>. QED  BY <1>1, <1>2, <1>3, <1>4, <1>8, <1>9

\* As long as activations do not overlap, a subscription ends sooner only by a trial that
\* was seen unused before.  The hypothesis holds of the defaults (config.py:27-29); without
\* it a payment that is read before a trial begins takes days of it.
THEOREM NothingIsShortened ==
    ASSUME TrialDays <= Period, TrialDays <= BonusDays
    PROVE  SerialSpec => SerialNeverShortened
<1> DEFINE Kept == overlapped' \/ \A t \in Tenants :
                       \/ until'[t] >= until[t]
                       \/ t \in trying /\ until'[t] = now + TrialDays /\ ses' = ses
<1>1. ASSUME SerialInv, [SerialNext]_SerialVars PROVE [Kept]_vars
  <2>1. SUFFICES ASSUME ~ overlapped', NEW u \in Tenants
                 PROVE  \/ until'[u] >= until[u]
                        \/ u \in trying /\ until'[u] = now + TrialDays /\ ses' = ses
    OBVIOUS
  <2>2. Inv /\ Counted /\ Honest /\ [Next]_vars
    BY <1>1, <2>1, NotOverlapped DEF SerialInv
  <2>3. until[u] \in Nat
    BY <2>2 DEF Inv, TypeOK
  <2>4. ASSUME NEW s \in Sessions, Commit(s) PROVE until'[u] >= until[u]
    BY <2>2, <2>4, CommitShortensNothing
  <2>5. ASSUME NEW t \in Tenants, Trial(t)
        PROVE  \/ until'[u] = until[u]
               \/ u \in trying /\ until'[u] = now + TrialDays /\ ses' = ses
    BY <2>2, <2>5 DEF Trial, Inv, TypeOK
  <2>6. ASSUME NEW s \in Sessions, Reads(s) PROVE until'[u] = until[u]
    BY <2>6 DEF Reads, Session, Mark, ReadTenant, ExtendTenant, ReadReferrer, GrantBonus,
                Answer, Fails, Dies, AdminExtend, Receive, tenants
  <2>7. ASSUME Environment, \A t \in Tenants : ~ Trial(t) PROVE until'[u] = until[u]
    BY <2>7 DEF Environment, CreatePayment, Pay, TrialUnused, TrialFails, EventReads, EventExpires,
                SetBlock, JobStep, JobScan, JobExpire, JobWarn, BotDies, Tick, vars, tenants
  <2>. QED  BY <2>2, <2>3, <2>4, <2>5, <2>6, <2>7 DEF Next, Environment, Session, Reads
<1>. QED  BY <1>1, SerialBegins, SerialStep, PTL DEF SerialSpec, SerialNeverShortened
=============================================================================
