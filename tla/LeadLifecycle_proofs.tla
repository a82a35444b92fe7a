------------------------ MODULE LeadLifecycle_proofs ------------------------
(***************************************************************************)
(* Proofs about LeadLifecycle for any number of leads, managers and        *)
(* concurrent sessions.                                                    *)
(***************************************************************************)
EXTENDS LeadLifecycle, TLAPS

\* The constant records the initial state is made of have their types.
LEMMA InitialRecords ==
    /\ NoReq \in [act : Acts, actor : Actors, lead : Leads]
    /\ NoView \in View
    /\ NoDraft \in Draft
<1>1. (CHOOSE l \in Leads : TRUE) \in Leads
  BY LifecycleAssumption
<1>. QED  BY <1>1 DEF NoReq, NoView, NoDraft, NoEvent, View, Draft, Event,
                      Acts, Actors, Statuses, Live, Final

\* What the helpers of a transition return has its type.
LEMMA HelperTypes ==
    ASSUME NEW v \in View, NEW act \in Acts, NEW a \in Actors, NEW o \in Actors
    PROVE  /\ Target[act] \in Statuses
           /\ NewOwner(act, o, a) \in Actors
           /\ Synced(v, act, a) \in View
           /\ Snapshot(v) \in Archived \cup {NoArchive}
<1>1. Target[act] \in Statuses
  BY DEF Acts, Target, Statuses, Live, Final
<1>2. NewOwner(act, o, a) \in Actors /\ NewOwner(act, v.owner, a) \in Actors
  BY DEF NewOwner, View
<1>3. Synced(v, act, a) \in View
  BY <1>1, <1>2 DEF Synced, View
<1>4. Snapshot(v) \in Archived \cup {NoArchive}
  BY DEF Snapshot, View, Archived
<1>. QED  BY <1>1, <1>2, <1>3, <1>4

\* The copy a clone makes is a lead created for nobody.
LEMMA CloneCreates ==
    ASSUME NEW src \in Leads, NEW l \in Leads, CloneLead(src, l)
    PROVE  \E a \in Actors : CreateLead(l, a)
BY DEF CloneLead, Actors

LEMMA InitType == Init => TypeOK
BY InitialRecords DEF Init, TypeOK, Actors, Statuses, Live

\* Ending a session and the UPDATE every transition shares keep the types.
LEMMA CloseType ==
    ASSUME TypeOK, NEW s \in Sessions, CloseSession(s)
    PROVE  /\ pc' \in [Sessions -> {"idle", "reading", "loaded", "selected", "updated", "committed"}]
           /\ req' \in [Sessions -> [act : Acts, actor : Actors, lead : Leads]]
           /\ view' \in [Sessions -> View]
           /\ from' \in [Sessions -> Statuses]
           /\ draft' \in [Sessions -> Draft]
BY InitialRecords DEF TypeOK, CloseSession, Statuses, Live

LEMMA NotUpdatedType ==
    ASSUME TypeOK, NEW s \in Sessions, NotUpdated(s)
    PROVE  TypeOK'
BY CloseType DEF NotUpdated, TypeOK, rows

LEMMA UpdatedType ==
    ASSUME TypeOK, NEW s \in Sessions, NEW f \in Statuses, NEW m \in BOOLEAN,
           Updated(s, f, m)
    PROVE  TypeOK'
<1>. DEFINE l   == req[s].lead
            a   == req[s].actor
            act == req[s].act
            v   == IF m THEN Synced(view[s], act, a) ELSE view[s]
<1>1. /\ l \in Leads /\ a \in Actors /\ act \in Acts
      /\ view[s] \in View /\ owner[l] \in Actors
  BY DEF TypeOK
<1>2. v \in View
  BY <1>1, HelperTypes
<1>3. Snapshot(v) \in Archived \cup {NoArchive}
  BY <1>1, <1>2, HelperTypes
<1>4. Target[act] \in Statuses /\ NewOwner(act, owner[l], a) \in Actors
  BY <1>1, HelperTypes
<1>5. lock' \in [Leads -> Sessions \cup {Unlocked}]
  BY <1>1 DEF Updated, TypeOK
<1>6. view' \in [Sessions -> View]
  BY <1>2 DEF Updated, TypeOK
<1>7. draft' \in [Sessions -> Draft]
  <2>1. PICK arch \in {Snapshot(v), NoArchive} :
           draft' = [draft EXCEPT ![s] =
                       [status  |-> Target[act],
                        owner   |-> NewOwner(act, owner[l], a),
                        event   |-> [from |-> f, to |-> Target[act], by |-> a],
                        archive |-> arch]]
    BY DEF Updated
  <2>2. [status  |-> Target[act], owner |-> NewOwner(act, owner[l], a),
         event   |-> [from |-> f, to |-> Target[act], by |-> a],
         archive |-> arch] \in Draft
    BY <1>1, <1>3, <1>4 DEF Draft, Event
  <2>. QED  BY <2>1, <2>2 DEF TypeOK
<1>8. pc' \in [Sessions -> {"idle", "reading", "loaded", "selected", "updated", "committed"}]
  BY DEF Updated, TypeOK
<1>. QED  BY <1>5, <1>6, <1>7, <1>8 DEF Updated, TypeOK, rows

\* A handler that starts reads a row that exists, so its object has its type.
LEMMA LoadType ==
    ASSUME TypeOK, NEW s \in Sessions, NEW act \in Acts, NEW a \in Actors,
           NEW l \in Leads, Load(s, act, a, l)
    PROVE  TypeOK'
<1>1. [status |-> status[l], owner |-> owner[l], events |-> 0] \in View
  BY DEF Load, TypeOK, View
<1>2. [act |-> act, actor |-> a, lead |-> l] \in [act : Acts, actor : Actors, lead : Leads]
  OBVIOUS
<1>. QED  BY <1>1, <1>2 DEF Load, TypeOK, rows

LEMMA CommitType ==
    ASSUME TypeOK, NEW s \in Sessions, Commit(s)
    PROVE  TypeOK'
<1>1. /\ req[s].lead \in Leads
      /\ draft[s].status \in Statuses /\ draft[s].owner \in Actors
      /\ draft[s].event \in Event /\ draft[s].archive \in Archived \cup {NoArchive}
  BY DEF TypeOK, Draft
<1>2. NoDraft \in Draft
  BY InitialRecords
<1>3. history' \in [Leads -> Seq(Event)]
  BY <1>1 DEF Commit, TypeOK
<1>4. archive' \in [Leads -> Archived \cup {NoArchive}]
  BY <1>1 DEF Commit, TypeOK
<1>. QED  BY <1>1, <1>2, <1>3, <1>4 DEF Commit, TypeOK

\* Every step keeps the types.
LEMMA TypeStep ==
    ASSUME TypeOK, \A s \in Sessions : Asked(s), [Next]_vars
    PROVE  TypeOK'
<1>1. ASSUME NEW l \in Leads, NEW a \in Actors, CreateLead(l, a) PROVE TypeOK'
  BY <1>1 DEF CreateLead, TypeOK, sessions, Statuses, Live
<1>2. ASSUME NEW src \in Leads, NEW l \in Leads, CloneLead(src, l) PROVE TypeOK'
  BY <1>1, <1>2, CloneCreates
<1>3. ASSUME NEW s \in Sessions, NEW act \in Acts, NEW a \in Actors, NEW l \in Leads,
             Load(s, act, a, l)
      PROVE  TypeOK'
  BY <1>3, LoadType
<1>4. ASSUME NEW s \in Sessions,
             BotTake(s) \/ BotSuccess(s) \/ BotAmountInput(s) \/ BotReject(s) \/ ApiPatch(s)
      PROVE  TypeOK'
  BY <1>3, <1>4 DEF BotTake, BotSuccess, BotAmountInput, BotReject, ApiPatch, Acts, Actors
<1>5. ASSUME NEW s \in Sessions, LoadHistory(s) PROVE TypeOK'
  <2>1. Len(history[req[s].lead]) \in Nat
    BY DEF TypeOK
  <2>2. [view[s] EXCEPT !.events = Len(history[req[s].lead])] \in View
    BY <2>1 DEF TypeOK, View
  <2>. QED  BY <1>5, <2>2 DEF LoadHistory, TypeOK, rows
<1>6. ASSUME NEW s \in Sessions, TryTakeLead(s) PROVE TypeOK'
  BY <1>6, UpdatedType, NotUpdatedType DEF TryTakeLead, TakeWhere, Statuses, Live
<1>7. ASSUME NEW s \in Sessions, MarkPaid(s) PROVE TypeOK'
  BY <1>7, UpdatedType, NotUpdatedType DEF MarkPaid, PaidWhere, Statuses, Live
<1>8. ASSUME NEW s \in Sessions, MarkSuccess(s) PROVE TypeOK'
  BY <1>8, UpdatedType, NotUpdatedType DEF MarkSuccess, SuccessWhere, Statuses, Live
<1>9. ASSUME NEW s \in Sessions, SelectFromStatus(s) PROVE TypeOK'
  <2>1. status[req[s].lead] \in Statuses
    BY <1>9 DEF SelectFromStatus, Asked, TypeOK
  <2>. QED  BY <1>9, <2>1 DEF SelectFromStatus, TypeOK, rows
<1>10. ASSUME NEW s \in Sessions, RejectLead(s) PROVE TypeOK'
  <2>1. from[s] \in Statuses
    BY DEF TypeOK
  <2>. QED  BY <1>10, <2>1, UpdatedType, NotUpdatedType DEF RejectLead, RejectWhere
<1>11. ASSUME NEW s \in Sessions, Commit(s) PROVE TypeOK'
  BY <1>11, CommitType
<1>12. ASSUME NEW s \in Sessions, Rollback(s) PROVE TypeOK'
  BY <1>12, CloseType DEF Rollback, TypeOK, rows
<1>13. ASSUME NEW s \in Sessions, PostCommitSync(s) PROVE TypeOK'
  <2>1. Snapshot(view[s]) \in Archived \cup {NoArchive}
    <3>1. view[s] \in View /\ req[s].act \in Acts /\ req[s].actor \in Actors
      BY DEF TypeOK
    <3>. QED  BY <3>1, HelperTypes
  <2>2. archive' \in [Leads -> Archived \cup {NoArchive}]
    BY <1>13, <2>1 DEF PostCommitSync, TypeOK
  <2>. QED  BY <1>13, <2>2, CloseType DEF PostCommitSync, TypeOK
<1>14. CASE UNCHANGED vars
  BY <1>14 DEF vars, rows, sessions, TypeOK
<1>. QED  BY <1>1, <1>2, <1>4, <1>5, <1>6, <1>7, <1>8, <1>9, <1>10, <1>11, <1>12,
             <1>13, <1>14 DEF Next

-----------------------------------------------------------------------------
(* The inductive invariant                                                 *)

\* A step that starts or ends no UPDATE of t and does not change its lead's row.
LEMMA HeldKept ==
    ASSUME NEW t \in Sessions, Held(t),
           pc'[t] = "updated" => /\ pc[t] = "updated"
                                 /\ req'[t] = req[t] /\ draft'[t] = draft[t]
                                 /\ lock'[req[t].lead] = lock[req[t].lead]
                                 /\ status'[req[t].lead] = status[req[t].lead]
                                 /\ owner'[req[t].lead] = owner[req[t].lead]
    PROVE  Held(t)'
BY DEF Held, Row

\* A session that has just updated holds the lock of a row its WHERE matched.
LEMMA UpdatedHeld ==
    ASSUME TypeOK, NEW s \in Sessions, NEW f \in Statuses, NEW m \in BOOLEAN,
           Updated(s, f, m), Matches(req[s].act, Row(s), req[s].actor),
           req[s].act # "reject" => f = status[req[s].lead],
           \A t \in Sessions : Held(t)
    PROVE  \A t \in Sessions : Held(t)'
<1>1. SUFFICES ASSUME NEW t \in Sessions PROVE Held(t)'
  OBVIOUS
<1>2. CASE t = s
  <2>1. /\ pc'[s] = "updated" /\ lock'[req[s].lead] = s /\ req' = req
        /\ status' = status /\ owner' = owner
    BY DEF Updated, TypeOK, rows
  <2>2. /\ draft'[s].status = Target[req[s].act]
        /\ draft'[s].owner = NewOwner(req[s].act, owner[req[s].lead], req[s].actor)
        /\ draft'[s].event = [from |-> f, to |-> Target[req[s].act], by |-> req[s].actor]
    BY DEF Updated, TypeOK
  <2>3. Matches(req[s].act, Row(s), req[s].actor)'
    BY <2>1 DEF Row
  <2>4. draft'[s].event.to = draft'[s].status /\ draft'[s].event.by = req[s].actor
        /\ (req[s].act # "reject" => draft'[s].event.from = status[req[s].lead])
    BY <2>2
  <2>. QED  BY <1>2, <2>1, <2>2, <2>3, <2>4 DEF Held
<1>3. CASE t # s
  <2>1. pc[t] = "updated" => lock[req[t].lead] = t
    BY DEF Held
  <2>2. pc[t] = "updated" => req[t].lead # req[s].lead
    BY <2>1, LifecycleAssumption DEF Updated
  <2>3. pc'[t] = pc[t] /\ draft'[t] = draft[t] /\ req' = req /\ status' = status /\ owner' = owner
    BY <1>3 DEF Updated, TypeOK, rows
  <2>4. pc[t] = "updated" => lock'[req[t].lead] = lock[req[t].lead]
    BY <2>2 DEF Updated, TypeOK
  <2>. QED  BY <2>3, <2>4, HeldKept
<1>. QED  BY <1>2, <1>3

\* Two sessions never hold an UPDATE of one lead.
LEMMA HeldApart ==
    ASSUME NEW s \in Sessions, NEW t \in Sessions, s # t, Held(s), Held(t),
           pc[s] = "updated", pc[t] = "updated"
    PROVE  req[s].lead # req[t].lead
BY DEF Held

\* Four kinds of step move no row: a session reads, updates nothing, updates, ends.
LEMMA UpdateStep ==
    ASSUME TypeOK, NEW s \in Sessions, \A t \in Sessions : Asked(t) /\ Held(t),
           TryTakeLead(s) \/ MarkPaid(s) \/ MarkSuccess(s) \/ RejectLead(s)
    PROVE  \/ NotUpdated(s)
           \/ \E f \in Statuses, m \in BOOLEAN :
                 /\ Updated(s, f, m)
                 /\ Matches(req[s].act, Row(s), req[s].actor)
                 /\ IF req[s].act = "reject" THEN pc[s] = "selected" /\ f = from[s]
                                             ELSE f = status[req[s].lead]
<1>1. CASE TryTakeLead(s)
  BY <1>1 DEF TryTakeLead, Matches, TakeWhere, Row, Statuses, Live
<1>2. CASE MarkPaid(s)
  BY <1>2 DEF MarkPaid, Matches, PaidWhere, Row, Statuses, Live
<1>3. CASE MarkSuccess(s)
  BY <1>3 DEF MarkSuccess, Matches, SuccessWhere, Row, Statuses, Live
<1>4. CASE RejectLead(s)
  <2>1. from[s] \in Statuses /\ req[s].act = "reject"
    BY <1>4 DEF RejectLead, Asked, TypeOK
  <2>. QED  BY <1>4, <2>1 DEF RejectLead, Matches, RejectWhere
<1>. QED  BY <1>1, <1>2, <1>3, <1>4

\* Ending or starting a session concerns no other session.
LEMMA OthersKept ==
    ASSUME TypeOK, NEW s \in Sessions, \A t \in Sessions : Held(t),
           pc'[s] # "updated", UNCHANGED <<status, owner>>,
           \A t \in Sessions \ {s} : /\ pc'[t] = pc[t] /\ req'[t] = req[t]
                                     /\ draft'[t] = draft[t],
           \A l \in Leads : lock'[l] = lock[l] \/ lock[l] = s
    PROVE  \A t \in Sessions : Held(t)'
<1>1. SUFFICES ASSUME NEW t \in Sessions PROVE Held(t)'
  OBVIOUS
<1>2. CASE t = s
  BY <1>2 DEF Held
<1>3. CASE t # s
  <2>1. req[t].lead \in Leads
    BY DEF TypeOK
  <2>2. pc[t] = "updated" => lock[req[t].lead] = t
    BY DEF Held
  <2>. QED  BY <1>3, <2>1, <2>2, HeldKept
<1>. QED  BY <1>2, <1>3

\* Every step keeps the debt of every uncommitted UPDATE.
LEMMA HeldStep ==
    ASSUME TypeOK, \A t \in Sessions : Asked(t) /\ Held(t), [Next]_vars
    PROVE  \A t \in Sessions : Held(t)'
<1>1. ASSUME NEW l \in Leads, NEW a \in Actors, CreateLead(l, a) PROVE \A t \in Sessions : Held(t)'
  <2>1. SUFFICES ASSUME NEW t \in Sessions PROVE Held(t)'
    OBVIOUS
  <2>2. pc[t] = "updated" => req[t].lead # l
    BY <1>1 DEF CreateLead, Asked
  <2>3. req' = req /\ pc' = pc /\ draft' = draft /\ lock' = lock
    BY <1>1 DEF CreateLead, sessions
  <2>4. pc[t] = "updated" => /\ status'[req[t].lead] = status[req[t].lead]
                             /\ owner'[req[t].lead] = owner[req[t].lead]
    BY <1>1, <2>2 DEF CreateLead, TypeOK
  <2>. QED  BY <2>3, <2>4, HeldKept
<1>2. ASSUME NEW src \in Leads, NEW l \in Leads, CloneLead(src, l)
      PROVE  \A t \in Sessions : Held(t)'
  BY <1>1, <1>2, CloneCreates
<1>3. ASSUME NEW s \in Sessions, NEW act \in Acts, NEW a \in Actors, NEW l \in Leads,
             Load(s, act, a, l)
      PROVE  \A t \in Sessions : Held(t)'
  BY <1>3, OthersKept DEF Load, TypeOK, rows
<1>4. ASSUME NEW s \in Sessions,
             BotTake(s) \/ BotSuccess(s) \/ BotAmountInput(s) \/ BotReject(s) \/ ApiPatch(s)
      PROVE  \A t \in Sessions : Held(t)'
  BY <1>3, <1>4 DEF BotTake, BotSuccess, BotAmountInput, BotReject, ApiPatch, Acts, Actors
<1>5. ASSUME NEW s \in Sessions, LoadHistory(s) PROVE \A t \in Sessions : Held(t)'
  BY <1>5, OthersKept DEF LoadHistory, TypeOK, rows
<1>6. ASSUME NEW s \in Sessions, SelectFromStatus(s) PROVE \A t \in Sessions : Held(t)'
  BY <1>6, OthersKept DEF SelectFromStatus, TypeOK, rows
<1>7. ASSUME NEW s \in Sessions, NotUpdated(s) PROVE \A t \in Sessions : Held(t)'
  BY <1>7, OthersKept DEF NotUpdated, CloseSession, TypeOK, rows
<1>8. ASSUME NEW s \in Sessions,
             TryTakeLead(s) \/ MarkPaid(s) \/ MarkSuccess(s) \/ RejectLead(s)
      PROVE  \A t \in Sessions : Held(t)'
  BY <1>7, <1>8, UpdateStep, UpdatedHeld
<1>9. ASSUME NEW s \in Sessions, Commit(s) PROVE \A t \in Sessions : Held(t)'
  <2>1. SUFFICES ASSUME NEW t \in Sessions PROVE Held(t)'
    OBVIOUS
  <2>2. CASE t = s
    BY <1>9, <2>2 DEF Commit, Held, TypeOK
  <2>3. CASE t # s
    <3>1. pc[t] = "updated" => req[t].lead # req[s].lead
      BY <1>9, <2>3, HeldApart DEF Commit
    <3>2. pc'[t] = pc[t] /\ req' = req /\ draft'[t] = draft[t]
      BY <1>9, <2>3 DEF Commit, TypeOK
    <3>3. req[t].lead \in Leads
      BY DEF TypeOK
    <3>4. pc[t] = "updated" => /\ lock'[req[t].lead] = lock[req[t].lead]
                               /\ status'[req[t].lead] = status[req[t].lead]
                               /\ owner'[req[t].lead] = owner[req[t].lead]
      BY <1>9, <3>1, <3>3 DEF Commit, TypeOK
    <3>. QED  BY <3>2, <3>4, HeldKept
  <2>. QED  BY <2>2, <2>3
<1>10. ASSUME NEW s \in Sessions, Rollback(s) PROVE \A t \in Sessions : Held(t)'
  BY <1>10, OthersKept DEF Rollback, CloseSession, TypeOK, rows
<1>11. ASSUME NEW s \in Sessions, PostCommitSync(s) PROVE \A t \in Sessions : Held(t)'
  BY <1>11, OthersKept DEF PostCommitSync, CloseSession, TypeOK
<1>12. CASE UNCHANGED vars
  BY <1>12, HeldKept DEF vars, rows, sessions
<1>. QED  BY <1>1, <1>2, <1>4, <1>5, <1>6, <1>8, <1>9, <1>10, <1>11, <1>12 DEF Next

\* Every step but a creation and a commit leaves every row as it is.
LEMMA QuietStep ==
    ASSUME TypeOK, \A s \in Sessions : Asked(s) /\ Held(s), [Next]_vars,
           ~ \E l \in Leads, a \in Actors : CreateLead(l, a), ~ \E s \in Sessions : Commit(s)
    PROVE  UNCHANGED <<status, owner, history>>
<1>1. ASSUME NEW s \in Sessions,
             TryTakeLead(s) \/ MarkPaid(s) \/ MarkSuccess(s) \/ RejectLead(s)
      PROVE  UNCHANGED <<status, owner, history>>
  BY <1>1, UpdateStep DEF Updated, NotUpdated, rows
<1>2. ASSUME NEW s \in Sessions,
             BotTake(s) \/ BotSuccess(s) \/ BotAmountInput(s) \/ BotReject(s) \/ ApiPatch(s)
      PROVE  UNCHANGED <<status, owner, history>>
  BY <1>2 DEF BotTake, BotSuccess, BotAmountInput, BotReject, ApiPatch, Load, rows
<1>3. ASSUME NEW s \in Sessions,
             LoadHistory(s) \/ SelectFromStatus(s) \/ Rollback(s) \/ PostCommitSync(s)
      PROVE  UNCHANGED <<status, owner, history>>
  BY <1>3 DEF LoadHistory, SelectFromStatus, Rollback, PostCommitSync, rows
<1>4. CASE UNCHANGED vars
  BY <1>4 DEF vars, rows
<1>. QED  BY <1>1, <1>2, <1>3, <1>4, CloneCreates DEF Next

\* What a commit does to the lead it commits, and that it moves no other.
LEMMA CommitStep ==
    ASSUME TypeOK, NEW s \in Sessions, Held(s), Commit(s)
    PROVE  LET l == req[s].lead  act == req[s].act IN
           /\ l \in Leads /\ act \in Acts /\ req[s].actor \in Actors
           /\ Matches(act, Row(s), req[s].actor)
           /\ status' = [status EXCEPT ![l] = Target[act]]
           /\ owner'  = [owner EXCEPT ![l] = NewOwner(act, owner[l], req[s].actor)]
           /\ history' = [history EXCEPT ![l] = Append(@, draft[s].event)]
           /\ draft[s].event \in Event
           /\ draft[s].event.to = Target[act] /\ draft[s].event.by = req[s].actor
           /\ act # "reject" => draft[s].event.from = status[l]
BY DEF TypeOK, Held, Commit, Draft

\* A lead that exists goes on existing, so a session's lead does.
LEMMA AskedStep ==
    ASSUME TypeOK, \A s \in Sessions : Asked(s) /\ Held(s), [Next]_vars
    PROVE  \A s \in Sessions : Asked(s)'
<1>1. SUFFICES ASSUME NEW t \in Sessions PROVE Asked(t)'
  OBVIOUS
<1>2. req[t].lead \in Leads
  BY DEF TypeOK
<1>3. \A l \in Leads : status[l] # "absent" => status'[l] # "absent"
  <2>1. ASSUME NEW l \in Leads, NEW a \in Actors, CreateLead(l, a)
        PROVE  \A k \in Leads : status[k] # "absent" => status'[k] # "absent"
    BY <2>1 DEF CreateLead, TypeOK
  <2>2. ASSUME NEW s \in Sessions, Commit(s)
        PROVE  \A k \in Leads : status[k] # "absent" => status'[k] # "absent"
    <3>1. status' = [status EXCEPT ![req[s].lead] = draft[s].status]
          /\ draft[s].status \in Statuses
      BY <2>2 DEF Commit, TypeOK, Draft
    <3>. QED  BY <3>1 DEF TypeOK, Statuses, Live, Final
  <2>. QED  BY <2>1, <2>2, QuietStep
<1>4. ASSUME NEW l \in Leads, NEW a \in Actors, CreateLead(l, a) PROVE Asked(t)'
  BY <1>2, <1>3, <1>4 DEF CreateLead, sessions, Asked
<1>5. ASSUME NEW s \in Sessions, NEW act \in Acts, NEW a \in Actors, NEW l \in Leads,
             Load(s, act, a, l)
      PROVE  Asked(t)'
  BY <1>2, <1>3, <1>5 DEF Load, TypeOK, Asked
<1>6. ASSUME NEW s \in Sessions,
             BotTake(s) \/ BotSuccess(s) \/ BotAmountInput(s) \/ BotReject(s) \/ ApiPatch(s)
      PROVE  Asked(t)'
  BY <1>5, <1>6 DEF BotTake, BotSuccess, BotAmountInput, BotReject, ApiPatch, Acts, Actors
<1>7. ASSUME NEW s \in Sessions, CloseSession(s) PROVE Asked(t)'
  BY <1>2, <1>3, <1>7 DEF CloseSession, TypeOK, Asked
<1>8. ASSUME NEW s \in Sessions, LoadHistory(s) \/ SelectFromStatus(s) \/ Commit(s)
      PROVE  Asked(t)'
  BY <1>2, <1>3, <1>8 DEF LoadHistory, SelectFromStatus, Commit, TypeOK, Asked
<1>9. ASSUME NEW s \in Sessions,
             TryTakeLead(s) \/ MarkPaid(s) \/ MarkSuccess(s) \/ RejectLead(s)
      PROVE  Asked(t)'
  <2>1. CASE NotUpdated(s)
    BY <1>7, <2>1 DEF NotUpdated
  <2>2. pc[s] # "idle"
    BY <1>9 DEF TryTakeLead, MarkPaid, MarkSuccess, RejectLead
  <2>3. ASSUME NEW f \in Statuses, NEW m \in BOOLEAN, Updated(s, f, m) PROVE Asked(t)'
    <3>1. req' = req /\ pc' = [pc EXCEPT ![s] = "updated"]
      BY <2>3 DEF Updated
    <3>. QED  BY <1>2, <1>3, <2>2, <3>1 DEF TypeOK, Asked
  <2>. QED  BY <1>9, <2>1, <2>3, UpdateStep
<1>10. CASE UNCHANGED vars
  BY <1>2, <1>3, <1>10 DEF vars, sessions, Asked
<1>. QED  BY <1>4, <1>6, <1>7, <1>8, <1>9, <1>10, CloneCreates
          DEF Next, Rollback, PostCommitSync

\* The last row of a history, and of one that has just grown.
LEMMA LastRow ==
    ASSUME NEW h \in Seq(Event), h # << >>
    PROVE  h[Len(h)] \in Event
OBVIOUS

LEMMA AppendedRow ==
    ASSUME NEW h \in Seq(Event), NEW e \in Event
    PROVE  /\ Append(h, e) # << >>
           /\ Append(h, e)[Len(Append(h, e))] = e
           /\ Len(Append(h, e)) = Len(h) + 1
           /\ \A i \in 1 .. Len(h) : Append(h, e)[i] = h[i]
OBVIOUS

\* A commit appends the row that accounts for the status it writes.
LEMMA AccountedStep ==
    ASSUME TypeOK, \A s \in Sessions : Asked(s) /\ Held(s), [Next]_vars,
           \A l \in Leads : Accounted(l)
    PROVE  \A l \in Leads : Accounted(l)'
<1>1. SUFFICES ASSUME NEW k \in Leads PROVE Accounted(k)'
  OBVIOUS
<1>2. ASSUME NEW l \in Leads, NEW a \in Actors, CreateLead(l, a) PROVE Accounted(k)'
  <2>1. history' = history /\ status' = [status EXCEPT ![l] = "new"] /\ status[l] = "absent"
    BY <1>2 DEF CreateLead
  <2>2. history[l] \in Seq(Event)
    BY DEF TypeOK
  <2>3. history[l] # << >> => history[l][Len(history[l])].to \in Statuses
    BY <2>2, LastRow DEF Event
  <2>. QED  BY <2>1, <2>3 DEF Accounted, TypeOK, Statuses, Live, Final
<1>3. ASSUME NEW s \in Sessions, Commit(s) PROVE Accounted(k)'
  <2>1. CASE k = req[s].lead
    <3>1. /\ status'[k] = Target[req[s].act] /\ draft[s].event.to = Target[req[s].act]
          /\ history'[k] = Append(history[k], draft[s].event)
      BY <1>3, <2>1, CommitStep DEF TypeOK
    <3>2. history[k] \in Seq(Event) /\ draft[s].event \in Event
      BY <1>3, CommitStep DEF TypeOK
    <3>3. history'[k] # << >> /\ history'[k][Len(history'[k])] = draft[s].event
      BY <3>1, <3>2, AppendedRow
    <3>. QED  BY <3>1, <3>3 DEF Accounted
  <2>2. CASE k # req[s].lead
    <3>1. status'[k] = status[k] /\ history'[k] = history[k]
      BY <1>3, <2>2, CommitStep DEF TypeOK
    <3>. QED  BY <3>1 DEF Accounted
  <2>. QED  BY <2>1, <2>2
<1>. QED  BY <1>2, <1>3, QuietStep DEF Accounted

\* A history that grows goes on telling of the same statuses.
LEMMA BeforeAppended ==
    ASSUME NEW h \in Seq(Event), NEW e \in Event
    PROVE  /\ \A i \in 1 .. Len(h) + 1 : /\ Before(Append(h, e), i) = Before(h, i)
                                        /\ WasBefore(Append(h, e), i) = WasBefore(h, i)
           /\ Was(h) \subseteq Was(Append(h, e))
<1>1. ASSUME NEW i \in 1 .. Len(h) + 1 PROVE Before(Append(h, e), i) = Before(h, i)
  BY AppendedRow DEF Before
<1>2. ASSUME NEW i \in 1 .. Len(h) + 1 PROVE WasBefore(Append(h, e), i) = WasBefore(h, i)
  <2>1. \A j \in 1 .. i : j \in 1 .. Len(h) + 1
    OBVIOUS
  <2>. QED  BY <1>1, <2>1 DEF WasBefore
<1>3. Was(h) \subseteq Was(Append(h, e))
  <2>1. Len(Append(h, e)) = Len(h) + 1
    BY AppendedRow
  <2>2. \A j \in 1 .. Len(h) + 1 : j \in 1 .. Len(Append(h, e)) + 1
    BY <2>1
  <2>. QED  BY <1>1, <2>2 DEF Was
<1>. QED  BY <1>1, <1>2, <1>3

\* The status a lead has is the one its history ends with.
LEMMA StatusWas ==
    ASSUME TypeOK, NEW l \in Leads, status[l] # "absent", Accounted(l)
    PROVE  /\ Before(history[l], Len(history[l]) + 1) = status[l]
           /\ status[l] \in Was(history[l])
<1>1. history[l] \in Seq(Event) /\ Len(history[l]) \in Nat
  BY DEF TypeOK
<1>2. Before(history[l], Len(history[l]) + 1) = status[l]
  <2>1. CASE history[l] = << >>
    BY <2>1 DEF Before, Accounted
  <2>2. CASE history[l] # << >>
    <3>1. Len(history[l]) # 0
      BY <1>1, <2>2
    <3>. QED  BY <1>1, <2>2, <3>1 DEF Before, Accounted
  <2>. QED  BY <2>1, <2>2
<1>3. Len(history[l]) + 1 \in 1 .. Len(history[l]) + 1
  BY <1>1
<1>. QED  BY <1>2, <1>3 DEF Was

\* No step makes a history tell of fewer statuses.
LEMMA HistoryGrows ==
    ASSUME TypeOK, \A s \in Sessions : Asked(s) /\ Held(s), [Next]_vars, NEW l \in Leads
    PROVE  Was(history[l]) \subseteq Was(history'[l])
<1>1. ASSUME NEW k \in Leads, NEW a \in Actors, CreateLead(k, a) PROVE history' = history
  BY <1>1 DEF CreateLead
<1>2. ASSUME NEW s \in Sessions, Commit(s) PROVE Was(history[l]) \subseteq Was(history'[l])
  <2>1. /\ history' = [history EXCEPT ![req[s].lead] = Append(@, draft[s].event)]
        /\ draft[s].event \in Event
    BY <1>2, CommitStep
  <2>2. history[l] \in Seq(Event)
    BY DEF TypeOK
  <2>3. history'[l] = history[l] \/ history'[l] = Append(history[l], draft[s].event)
    BY <2>1 DEF TypeOK
  <2>. QED  BY <2>1, <2>2, <2>3, BeforeAppended
<1>. QED  BY <1>1, <1>2, QuietStep

\* A session that goes on naming the status it names.
LEMMA PastKept ==
    ASSUME NEW t \in Sessions, Past(t),
           pc'[t] \in {"selected", "updated"} =>
               /\ pc'[t] = pc[t] /\ req'[t] = req[t]
               /\ from'[t] = from[t] /\ draft'[t] = draft[t],
           Was(history[req[t].lead]) \subseteq Was(history'[req[t].lead])
    PROVE  Past(t)'
BY DEF Past

\* Every step keeps what sessions have named true of the past.
LEMMA PastStep ==
    ASSUME TypeOK, \A s \in Sessions : Asked(s) /\ Held(s) /\ Past(s), [Next]_vars,
           \A l \in Leads : Accounted(l)
    PROVE  \A s \in Sessions : Past(s)'
<1>1. SUFFICES ASSUME NEW t \in Sessions PROVE Past(t)'
  OBVIOUS
<1>2. req[t].lead \in Leads
  BY DEF TypeOK
<1>3. Was(history[req[t].lead]) \subseteq Was(history'[req[t].lead])
  BY <1>2, HistoryGrows
<1>4. ASSUME NEW l \in Leads, NEW a \in Actors, CreateLead(l, a) PROVE Past(t)'
  BY <1>3, <1>4, PastKept DEF CreateLead, sessions
<1>5. ASSUME NEW s \in Sessions, NEW act \in Acts, NEW a \in Actors, NEW l \in Leads,
             Load(s, act, a, l)
      PROVE  Past(t)'
  BY <1>3, <1>5, PastKept DEF Load, TypeOK
<1>6. ASSUME NEW s \in Sessions,
             BotTake(s) \/ BotSuccess(s) \/ BotAmountInput(s) \/ BotReject(s) \/ ApiPatch(s)
      PROVE  Past(t)'
  BY <1>5, <1>6 DEF BotTake, BotSuccess, BotAmountInput, BotReject, ApiPatch, Acts, Actors
<1>7. ASSUME NEW s \in Sessions, CloseSession(s) PROVE Past(t)'
  BY <1>3, <1>7, PastKept DEF CloseSession, TypeOK
<1>8. ASSUME NEW s \in Sessions, LoadHistory(s) PROVE Past(t)'
  BY <1>3, <1>8, PastKept DEF LoadHistory, TypeOK
<1>9. ASSUME NEW s \in Sessions, SelectFromStatus(s) PROVE Past(t)'
  <2>1. CASE t # s
    BY <1>3, <1>9, <2>1, PastKept DEF SelectFromStatus, TypeOK
  <2>2. CASE t = s
    <3>1. status[req[s].lead] \in Was(history[req[s].lead])
      BY <1>2, <1>9, <2>2, StatusWas DEF SelectFromStatus, Asked
    <3>2. /\ pc'[s] = "selected" /\ from'[s] = status[req[s].lead]
          /\ req' = req /\ history' = history
      BY <1>9 DEF SelectFromStatus, TypeOK, rows
    <3>. QED  BY <2>2, <3>1, <3>2 DEF Past
  <2>. QED  BY <2>1, <2>2
<1>10. ASSUME NEW s \in Sessions,
              TryTakeLead(s) \/ MarkPaid(s) \/ MarkSuccess(s) \/ RejectLead(s)
       PROVE  Past(t)'
  <2>1. CASE NotUpdated(s)
    BY <1>7, <2>1 DEF NotUpdated
  <2>2. ASSUME NEW f \in Statuses, NEW m \in BOOLEAN, Updated(s, f, m),
               IF req[s].act = "reject" THEN pc[s] = "selected" /\ f = from[s]
                                        ELSE f = status[req[s].lead]
        PROVE  Past(t)'
    <3>1. CASE t # s
      <4>1. pc'[t] = pc[t] /\ req'[t] = req[t] /\ from'[t] = from[t] /\ draft'[t] = draft[t]
        BY <2>2, <3>1 DEF Updated, TypeOK
      <4>. QED  BY <1>3, <4>1, PastKept
    <3>2. CASE t = s
      <4>1. status[req[s].lead] # "absent"
        BY <1>10 DEF Asked, TryTakeLead, MarkPaid, MarkSuccess, RejectLead
      <4>2. f \in Was(history[req[s].lead])
        BY <1>2, <2>2, <3>2, <4>1, StatusWas DEF Past
      <4>3. pc'[s] = "updated" /\ draft'[s].event.from = f /\ req' = req /\ history' = history
        BY <2>2 DEF Updated, TypeOK, rows
      <4>. QED  BY <3>2, <4>2, <4>3 DEF Past
    <3>. QED  BY <3>1, <3>2
  <2>. QED  BY <1>10, <2>1, <2>2, UpdateStep
<1>11. ASSUME NEW s \in Sessions, Commit(s) PROVE Past(t)'
  BY <1>3, <1>11, PastKept DEF Commit, TypeOK
<1>12. CASE UNCHANGED vars
  BY <1>3, <1>12, PastKept DEF vars, sessions
<1>. QED  BY <1>4, <1>6, <1>7, <1>8, <1>9, <1>10, <1>11, <1>12, CloneCreates
          DEF Next, Rollback, PostCommitSync

\* The strengthened invariant is inductive.
THEOREM Inductive == Spec => []IInv
<1>1. Init => IInv
  BY InitType DEF Init, IInv, Asked, Held, Past, Accounted
<1>2. IInv /\ [Next]_vars => IInv'
  BY TypeStep, HeldStep, AskedStep, PastStep, AccountedStep DEF IInv
<1>. QED  BY <1>1, <1>2, PTL DEF Spec

\* Every variable keeps its type.
THEOREM TypeCorrect == Spec => []TypeOK
<1>1. IInv => TypeOK
  BY DEF IInv
<1>. QED  BY <1>1, Inductive, PTL

\* No uncommitted UPDATE is ever overtaken, for any number of sessions.
THEOREM NoUpdateIsLost == Spec => []NoLostUpdate
<1>1. IInv => NoLostUpdate
  BY HeldApart DEF IInv, NoLostUpdate, Held
<1>. QED  BY <1>1, Inductive, PTL

\* The last history row of a lead always names its status.
THEOREM HistoryIsTruthful == Spec => []HistoryTellsStatus
<1>1. IInv => HistoryTellsStatus
  BY DEF IInv, HistoryTellsStatus, Accounted
<1>. QED  BY <1>1, Inductive, PTL

-----------------------------------------------------------------------------
(* The history is a path through the pipeline                              *)

\* The row that a commit appends goes on where the history was.
LEMMA CommitFollows ==
    ASSUME IInv, NEW s \in Sessions, Commit(s), NEW h, h = history[req[s].lead]
    PROVE  Follows(Append(h, draft[s].event), Len(h) + 1)
<1>. DEFINE l == req[s].lead
            e == draft[s].event
            i == Len(h) + 1
            g == Append(h, e)
<1>1. TypeOK /\ Asked(s) /\ Held(s) /\ Past(s) /\ l \in Leads /\ Accounted(l)
  BY DEF IInv, TypeOK
<1>2. /\ Matches(req[s].act, Row(s), req[s].actor)
      /\ e.to = Target[req[s].act] /\ e \in Event
      /\ req[s].act # "reject" => e.from = status[l]
      /\ req[s].act \in Acts
  BY <1>1, CommitStep
<1>3. Row(s).status = status[l]
  BY DEF Row
<1>4. h \in Seq(Event) /\ i \in 1 .. Len(h) + 1
  BY <1>1 DEF TypeOK
<1>5. status[l] # "absent"
  BY <1>1 DEF Asked, Commit
<1>6. Before(g, i) = status[l] /\ g[i] = e
  <2>1. Before(h, i) = status[l]
    BY <1>1, <1>5, StatusWas
  <2>. QED  BY <1>2, <1>4, <2>1, BeforeAppended, AppendedRow
<1>7. CASE req[s].act = "take"
  BY <1>2, <1>3, <1>6, <1>7 DEF Matches, TakeWhere, Follows, Target, Acts
<1>8. CASE req[s].act = "paid"
  BY <1>2, <1>3, <1>6, <1>8 DEF Matches, PaidWhere, Follows, Target, Acts
<1>9. CASE req[s].act = "success"
  BY <1>2, <1>3, <1>6, <1>9 DEF Matches, SuccessWhere, Follows, Target, Acts
<1>10. CASE req[s].act = "reject"
  <2>1. e.from \in Was(h)
    BY <1>1 DEF Past, Commit
  <2>2. Was(h) = WasBefore(h, i)
    BY DEF Was, WasBefore
  <2>3. e.from \in WasBefore(g, i)
    BY <1>2, <1>4, <2>1, <2>2, BeforeAppended
  <2>. QED  BY <1>2, <1>3, <1>6, <1>10, <2>3 DEF Matches, RejectWhere, Follows, Target, Acts
<1>. QED  BY <1>2, <1>7, <1>8, <1>9, <1>10 DEF Acts

\* A commit prolongs the path by one step, and no other step touches a history.
LEMMA PathStep ==
    ASSUME IInv, [Next]_vars, HistoryIsAPath
    PROVE  HistoryIsAPath'
<1>1. TypeOK /\ \A s \in Sessions : Asked(s) /\ Held(s)
  BY DEF IInv
<1>2. ASSUME NEW s \in Sessions, Commit(s) PROVE HistoryIsAPath'
  <2>1. SUFFICES ASSUME NEW k \in Leads, NEW i \in 1 .. Len(history'[k])
                 PROVE  Follows(history'[k], i)
    BY DEF HistoryIsAPath
  <2>2. CASE k # req[s].lead
    <3>1. history'[k] = history[k]
      BY <1>1, <1>2, <2>2, CommitStep DEF TypeOK
    <3>. QED  BY <3>1 DEF HistoryIsAPath
  <2>3. CASE k = req[s].lead
    <3>1. /\ history[k] \in Seq(Event) /\ draft[s].event \in Event
          /\ history'[k] = Append(history[k], draft[s].event)
      BY <1>1, <1>2, <2>3, CommitStep DEF TypeOK
    <3>2. CASE i \in 1 .. Len(history[k])
      <4>1. history'[k][i] = history[k][i]
        BY <3>1, <3>2, AppendedRow
      <4>2. i \in 1 .. Len(history[k]) + 1
        BY <3>1, <3>2
      <4>3. /\ Before(history'[k], i) = Before(history[k], i)
            /\ WasBefore(history'[k], i) = WasBefore(history[k], i)
        BY <3>1, <4>2, BeforeAppended
      <4>4. Follows(history[k], i)
        BY <3>2 DEF HistoryIsAPath
      <4>. QED  BY <4>1, <4>3, <4>4 DEF Follows
    <3>3. CASE i = Len(history[k]) + 1
      BY <1>2, <2>3, <3>1, <3>3, CommitFollows
    <3>4. i \in 1 .. Len(history[k]) \/ i = Len(history[k]) + 1
      BY <3>1, AppendedRow
    <3>. QED  BY <3>2, <3>3, <3>4
  <2>. QED  BY <2>2, <2>3
<1>3. ASSUME NEW l \in Leads, NEW a \in Actors, CreateLead(l, a) PROVE HistoryIsAPath'
  BY <1>3 DEF CreateLead, HistoryIsAPath
<1>4. CASE history' = history
  BY <1>4 DEF HistoryIsAPath
<1>. QED  BY <1>1, <1>2, <1>3, <1>4, QuietStep

\* In commit order the history of every lead is one path through the pipeline.
THEOREM HistoryIsAlwaysAPath == Spec => []HistoryIsAPath
<1>1. Init => HistoryIsAPath
  BY DEF Init, HistoryIsAPath
<1>. QED  BY <1>1, Inductive, PathStep, PTL DEF Spec

-----------------------------------------------------------------------------
(* The manager of a lead                                                   *)

\* A commit that writes manager_id adds a row that tells of it; any other adds one
\* that does not and leaves the manager alone.
LEMMA CommitWrites ==
    ASSUME TypeOK, NEW s \in Sessions, Held(s), Commit(s)
    PROVE  LET l == req[s].lead  h == history[l]  g == history'[l]  n == Len(h) + 1 IN
           /\ Len(h) \in Nat /\ Len(g) = n
           /\ \A i \in 1 .. Len(h) : g[i] = h[i]
           /\ \/ /\ Writing(g) = Writing(h) \cup {n}
                 /\ owner'[l] = g[n].by
              \/ /\ Writing(g) = Writing(h)
                 /\ owner'[l] = owner[l]
<1>. DEFINE l   == req[s].lead
            h   == history[l]
            e   == draft[s].event
            g   == history'[l]
            n   == Len(h) + 1
            act == req[s].act
            a   == req[s].actor
<1>1. /\ h \in Seq(Event) /\ e \in Event /\ g = Append(h, e)
      /\ e.by = a /\ e.to = Target[act] /\ act \in Acts
      /\ owner'[l] = NewOwner(act, owner[l], a)
  BY CommitStep DEF TypeOK
<1>2. /\ Len(h) \in Nat /\ Len(g) = n /\ g[n] = e
      /\ \A i \in 1 .. Len(h) : g[i] = h[i]
  BY <1>1, AppendedRow
<1>3. \A i \in 1 .. n : i \in 1 .. Len(h) \/ i = n
  BY <1>2
<1>4. e.to = "in_progress" <=> act = "take"
  BY <1>1 DEF Target, Acts
<1>5. CASE a # NoOne \/ act = "take"
  <2>1. Writing(g) = Writing(h) \cup {n}
    BY <1>1, <1>2, <1>3, <1>4, <1>5 DEF Writing
  <2>2. owner'[l] = g[n].by
    BY <1>1, <1>2, <1>5 DEF NewOwner
  <2>. QED  BY <1>2, <2>1, <2>2
<1>6. CASE a = NoOne /\ act # "take"
  <2>1. Writing(g) = Writing(h)
    BY <1>1, <1>2, <1>3, <1>4, <1>6 DEF Writing
  <2>2. owner'[l] = owner[l]
    BY <1>1, <1>6 DEF NewOwner
  <2>. QED  BY <1>2, <2>1, <2>2
<1>. QED  BY <1>5, <1>6

\* A commit leaves every lead with the manager its history tells of.
LEMMA OwnerCommit ==
    ASSUME TypeOK, NEW s \in Sessions, Held(s), Commit(s), NEW k \in Leads,
           OwnerOfHistory(history[k], owner[k])
    PROVE  OwnerOfHistory(history'[k], owner'[k])
<1>1. CASE k # req[s].lead
  <2>1. history'[k] = history[k] /\ owner'[k] = owner[k]
    BY <1>1, CommitStep DEF TypeOK
  <2>. QED  BY <2>1
<1>2. CASE k = req[s].lead
  <2>. DEFINE h == history[k]
              g == history'[k]
              n == Len(h) + 1
  <2>1. /\ Len(h) \in Nat /\ \A i \in 1 .. Len(h) : g[i] = h[i]
        /\ \/ Writing(g) = Writing(h) \cup {n} /\ owner'[k] = g[n].by
           \/ Writing(g) = Writing(h) /\ owner'[k] = owner[k]
    BY <1>2, CommitWrites
  <2>2. \A i \in Writing(h) : i \in 1 .. Len(h)
    BY DEF Writing
  <2>3. CASE Writing(g) = Writing(h) \cup {n} /\ owner'[k] = g[n].by
    <3>1. SUFFICES ASSUME NEW i \in Writing(g), \A j \in Writing(g) : j <= i
                   PROVE  i = n
      BY <2>3 DEF OwnerOfHistory
    <3>2. n <= i /\ (i \in 1 .. Len(h) \/ i = n)
      BY <2>2, <2>3, <3>1
    <3>. QED  BY <2>1, <3>2
  <2>4. CASE Writing(g) = Writing(h) /\ owner'[k] = owner[k]
    BY <2>1, <2>2, <2>4 DEF OwnerOfHistory
  <2>. QED  BY <2>1, <2>3, <2>4
<1>. QED  BY <1>1, <1>2

\* No step takes the manager of a lead away from what its history tells.
LEMMA OwnerStep ==
    ASSUME IInv, [Next]_vars, \A l \in Leads : OwnerOfHistory(history[l], owner[l])
    PROVE  \A l \in Leads :
              /\ OwnerOfHistory(history'[l], owner'[l])
              /\ owner'[l] # owner[l] => \/ status[l] = "absent"
                                         \/ Writing(history'[l]) # Writing(history[l])
<1>1. TypeOK /\ \A s \in Sessions : Asked(s) /\ Held(s)
  BY DEF IInv
<1>. SUFFICES ASSUME NEW k \in Leads
              PROVE  /\ OwnerOfHistory(history'[k], owner'[k])
                     /\ owner'[k] # owner[k] => \/ status[k] = "absent"
                                                \/ Writing(history'[k]) # Writing(history[k])
  OBVIOUS
<1>2. ASSUME NEW s \in Sessions, Commit(s)
      PROVE  owner'[k] # owner[k] => Writing(history'[k]) # Writing(history[k])
  <2>1. CASE k # req[s].lead
    BY <1>1, <1>2, <2>1, CommitStep DEF TypeOK
  <2>2. CASE k = req[s].lead
    <3>1. Len(history[k]) + 1 \notin Writing(history[k])
      BY <1>1, <1>2, <2>2, CommitWrites DEF Writing
    <3>. QED  BY <1>1, <1>2, <2>2, <3>1, CommitWrites
  <2>. QED  BY <2>1, <2>2
<1>3. CASE \E s \in Sessions : Commit(s)
  BY <1>1, <1>2, <1>3, OwnerCommit
<1>4. ASSUME NEW l \in Leads, NEW a \in Actors, CreateLead(l, a)
      PROVE  /\ OwnerOfHistory(history'[k], owner'[k])
             /\ owner'[k] # owner[k] => status[k] = "absent"
  <2>1. /\ history' = history /\ status[l] = "absent"
        /\ k # l => owner'[k] = owner[k]
    BY <1>1, <1>4 DEF CreateLead, TypeOK
  <2>2. k = l => history[k] = << >>
    <3>1. SUFFICES ASSUME k = l, history[k] # << >> PROVE FALSE
      OBVIOUS
    <3>2. history[k][Len(history[k])].to \in Statuses
      BY <1>1, <3>1, LastRow DEF TypeOK, Event
    <3>. QED  BY <2>1, <3>1, <3>2 DEF IInv, Accounted, Statuses, Live, Final
  <2>3. Writing(<< >>) = {}
    BY DEF Writing
  <2>. QED  BY <2>1, <2>2, <2>3 DEF OwnerOfHistory
<1>5. CASE \E l \in Leads, a \in Actors : CreateLead(l, a)
  BY <1>4, <1>5
<1>6. CASE UNCHANGED <<status, owner, history>>
  BY <1>6
<1>. QED  BY <1>1, <1>3, <1>5, <1>6, QuietStep

\* The manager of every lead is the last one its history tells of, and until then the
\* one it was created for.
THEOREM OwnerIsTheLastActor == Spec => OwnerIsLastActor
<1>. DEFINE Told == \A l \in Leads : OwnerOfHistory(history[l], owner[l])
            Kept == \A l \in Leads : owner'[l] # owner[l] =>
                       \/ status[l] = "absent"
                       \/ Writing(history'[l]) # Writing(history[l])
<1>1. Init => Told
  <2>1. Writing(<< >>) = {}
    BY DEF Writing
  <2>. QED  BY <2>1 DEF Init, OwnerOfHistory
<1>2. IInv /\ Told /\ [Next]_vars => Told' /\ Kept
  BY OwnerStep
<1>. QED  BY <1>1, <1>2, Inductive, PTL DEF Spec, OwnerIsLastActor

-----------------------------------------------------------------------------
(* The archive                                                             *)

\* A history never shrinks, and a closed lead is left alone.
LEMMA LeadGrows ==
    ASSUME TypeOK, \A s \in Sessions : Asked(s) /\ Held(s), [Next]_vars, NEW l \in Leads
    PROVE  /\ Len(history[l]) \in Nat /\ Len(history'[l]) \in Nat
           /\ Len(history[l]) <= Len(history'[l])
           /\ status[l] \in Final => /\ status'[l] = status[l] /\ owner'[l] = owner[l]
                                     /\ history'[l] = history[l]
<1>1. history[l] \in Seq(Event) /\ Len(history[l]) \in Nat
  BY DEF TypeOK
<1>2. ASSUME NEW k \in Leads, NEW a \in Actors, CreateLead(k, a)
      PROVE  /\ history' = history
             /\ status[l] \in Final => status'[l] = status[l] /\ owner'[l] = owner[l]
  BY <1>2 DEF CreateLead, TypeOK, Final
<1>3. ASSUME NEW s \in Sessions, Commit(s), l = req[s].lead
      PROVE  Len(history'[l]) = Len(history[l]) + 1 /\ status[l] \notin Final
  <2>1. /\ Matches(req[s].act, Row(s), req[s].actor)
        /\ history'[l] = Append(history[l], draft[s].event) /\ draft[s].event \in Event
    BY <1>3, CommitStep DEF TypeOK
  <2>2. status[l] \notin Final
    BY <1>3, <2>1 DEF Matches, TakeWhere, PaidWhere, SuccessWhere, RejectWhere, Row, Live, Final
  <2>. QED  BY <1>1, <2>1, <2>2, AppendedRow
<1>4. ASSUME NEW s \in Sessions, Commit(s), l # req[s].lead
      PROVE  history'[l] = history[l] /\ status'[l] = status[l] /\ owner'[l] = owner[l]
  BY <1>4, CommitStep DEF TypeOK
<1>5. CASE \E k \in Leads, a \in Actors : CreateLead(k, a)
  BY <1>1, <1>2, <1>5
<1>6. CASE \E s \in Sessions : Commit(s)
  BY <1>1, <1>3, <1>4, <1>6
<1>. QED  BY <1>1, <1>5, <1>6, QuietStep

\* A session that does nothing keeps an object that is still true of its lead.
LEMMA SeenKept ==
    ASSUME IInv, [Next]_vars, NEW t \in Sessions, Seen(t),
           pc'[t] = pc[t], req'[t] = req[t], view'[t] = view[t], draft'[t] = draft[t]
    PROVE  Seen(t)'
<1>. DEFINE l == req[t].lead
<1>1. l \in Leads /\ TypeOK /\ \A s \in Sessions : Asked(s) /\ Held(s)
  BY DEF IInv, TypeOK
<1>2. /\ Len(history[l]) \in Nat /\ Len(history'[l]) \in Nat
      /\ Len(history[l]) <= Len(history'[l])
      /\ status[l] \in Final => /\ status'[l] = status[l] /\ owner'[l] = owner[l]
                                /\ history'[l] = history[l]
  BY <1>1, LeadGrows
<1>. QED  BY <1>1, <1>2 DEF Seen, Snapshot

\* The row a session has been able to update was not closed.
LEMMA OpenRow ==
    ASSUME NEW s \in Sessions, Matches(req[s].act, Row(s), req[s].actor)
    PROVE  status[req[s].lead] \notin Final
BY DEF Matches, TakeWhere, PaidWhere, SuccessWhere, RejectWhere, Row, Live, Final

\* Every step of a session keeps its object true of its lead.
LEMMA SeenStep ==
    ASSUME IInv, [Next]_vars, \A s \in Sessions : Seen(s)
    PROVE  \A s \in Sessions : Seen(s)'
<1>1. SUFFICES ASSUME NEW t \in Sessions PROVE Seen(t)'
  OBVIOUS
<1>2. TypeOK /\ \A s \in Sessions : Asked(s) /\ Held(s)
  BY DEF IInv
<1>3. /\ req[t].lead \in Leads /\ view[t] \in View
      /\ history[req[t].lead] \in Seq(Event) /\ Len(history[req[t].lead]) \in Nat
  BY <1>2 DEF TypeOK
<1>4. ASSUME NEW l \in Leads, NEW a \in Actors, CreateLead(l, a) PROVE Seen(t)'
  BY <1>4, SeenKept DEF CreateLead, sessions
<1>5. ASSUME NEW s \in Sessions, NEW act \in Acts, NEW a \in Actors, NEW l \in Leads,
             Load(s, act, a, l)
      PROVE  Seen(t)'
  <2>1. CASE t # s
    BY <1>2, <1>5, <2>1, SeenKept DEF Load, TypeOK
  <2>2. CASE t = s
    <3>1. /\ pc'[t] = "reading" /\ req'[t].lead = l /\ status' = status
          /\ view'[t].status = status[l]
      BY <1>2, <1>5, <2>2 DEF Load, TypeOK, rows
    <3>. QED  BY <3>1 DEF Seen
  <2>. QED  BY <2>1, <2>2
<1>6. ASSUME NEW s \in Sessions,
             BotTake(s) \/ BotSuccess(s) \/ BotAmountInput(s) \/ BotReject(s) \/ ApiPatch(s)
      PROVE  Seen(t)'
  BY <1>5, <1>6 DEF BotTake, BotSuccess, BotAmountInput, BotReject, ApiPatch, Acts, Actors
<1>7. ASSUME NEW s \in Sessions, CloseSession(s) PROVE Seen(t)'
  <2>1. CASE t # s
    BY <1>2, <1>7, <2>1, SeenKept DEF CloseSession, TypeOK
  <2>2. CASE t = s
    <3>1. pc'[t] = "idle"
      BY <1>2, <1>7, <2>2 DEF CloseSession, TypeOK
    <3>. QED  BY <3>1 DEF Seen
  <2>. QED  BY <2>1, <2>2
<1>8. ASSUME NEW s \in Sessions, LoadHistory(s) PROVE Seen(t)'
  <2>1. CASE t # s
    BY <1>2, <1>8, <2>1, SeenKept DEF LoadHistory, TypeOK
  <2>2. CASE t = s
    <3>1. /\ pc[t] = "reading" /\ pc'[t] = "loaded" /\ req' = req
          /\ status' = status /\ view'[t].status = view[t].status
      BY <1>2, <1>3, <1>8, <2>2 DEF LoadHistory, TypeOK, rows, View
    <3>. QED  BY <3>1 DEF Seen
  <2>. QED  BY <2>1, <2>2
<1>9. ASSUME NEW s \in Sessions, SelectFromStatus(s) PROVE Seen(t)'
  <2>1. CASE t # s
    BY <1>2, <1>9, <2>1, SeenKept DEF SelectFromStatus, TypeOK
  <2>2. CASE t = s
    <3>1. /\ pc[t] = "loaded" /\ pc'[t] = "selected" /\ req' = req /\ view' = view
          /\ status' = status
      BY <1>2, <1>9, <2>2 DEF SelectFromStatus, TypeOK, rows
    <3>. QED  BY <3>1 DEF Seen
  <2>. QED  BY <2>1, <2>2
<1>10. ASSUME NEW s \in Sessions,
              TryTakeLead(s) \/ MarkPaid(s) \/ MarkSuccess(s) \/ RejectLead(s)
       PROVE  Seen(t)'
  <2>1. CASE NotUpdated(s)
    BY <1>7, <2>1 DEF NotUpdated
  <2>2. ASSUME NEW f \in Statuses, NEW m \in BOOLEAN, Updated(s, f, m),
               Matches(req[s].act, Row(s), req[s].actor)
        PROVE  Seen(t)'
    <3>1. CASE t # s
      BY <1>2, <2>2, <3>1, SeenKept DEF Updated, TypeOK
    <3>2. CASE t = s
      <4>. DEFINE v == IF m THEN Synced(view[t], req[t].act, req[t].actor) ELSE view[t]
      <4>1. pc[t] \in {"loaded", "selected"}
        BY <1>10, <3>2 DEF TryTakeLead, MarkPaid, MarkSuccess, RejectLead
      <4>2. view[t].status \notin Final
        BY <2>2, <3>2, <4>1, OpenRow DEF Seen
      <4>3. /\ pc'[t] = "updated" /\ req' = req /\ view'[t] = v
            /\ draft'[t].archive \in {Snapshot(v), NoArchive}
        BY <1>2, <2>2, <3>2 DEF Updated, TypeOK, rows
      <4>4. v.status \in Final => /\ v.status = Target[req[t].act]
                                  /\ req[t].actor # NoOne => v.owner = req[t].actor
        BY <1>3, <4>2 DEF Synced, NewOwner, View
      <4>. QED  BY <4>2, <4>3, <4>4 DEF Seen, Snapshot
    <3>. QED  BY <3>1, <3>2
  <2>. QED  BY <1>2, <1>10, <2>1, <2>2, UpdateStep
<1>11. ASSUME NEW s \in Sessions, Commit(s) PROVE Seen(t)'
  <2>1. CASE t # s
    BY <1>2, <1>11, <2>1, SeenKept DEF Commit, TypeOK
  <2>2. CASE t = s
    <3>. DEFINE l == req[t].lead
                a == req[t].actor
                e == draft[t].event
    <3>1. /\ pc[t] = "updated" /\ pc'[t] = "committed" /\ req' = req /\ view' = view
      BY <1>2, <1>11, <2>2 DEF Commit, TypeOK
    <3>2. /\ status'[l] = Target[req[t].act] /\ owner'[l] = NewOwner(req[t].act, owner[l], a)
          /\ history'[l] = Append(history[l], e) /\ e \in Event /\ e.by = a
      BY <1>2, <1>11, <2>2, CommitStep DEF TypeOK
    <3>3. Len(history'[l]) = Len(history[l]) + 1 /\ history'[l][Len(history'[l])] = e
      BY <1>3, <3>2, AppendedRow
    <3>4. a # NoOne => owner'[l] = a
      BY <3>2 DEF NewOwner
    <3>. QED  BY <1>3, <3>1, <3>2, <3>3, <3>4 DEF Seen
  <2>. QED  BY <2>1, <2>2
<1>12. CASE UNCHANGED vars
  BY <1>12, SeenKept DEF vars, sessions
<1>. QED  BY <1>4, <1>6, <1>7, <1>8, <1>9, <1>10, <1>11, <1>12, CloneCreates
          DEF Next, Rollback, PostCommitSync

\* An archive of a closed lead stays true; a new one comes from a session's object.
LEMMA ArchiveStep ==
    ASSUME IInv, [Next]_vars, \A s \in Sessions : Seen(s), ArchiveIsOfClosedLead
    PROVE  ArchiveIsOfClosedLead'
<1>. DEFINE True(l) == archive'[l] # NoArchive =>
                          /\ status'[l] \in Final
                          /\ archive'[l].status = status'[l]
                          /\ history'[l][Len(history'[l])].by # NoOne => archive'[l].owner = owner'[l]
<1>1. SUFFICES ASSUME NEW k \in Leads PROVE True(k)
  BY DEF ArchiveIsOfClosedLead
<1>2. TypeOK /\ \A s \in Sessions : Asked(s) /\ Held(s)
  BY DEF IInv
<1>3. CASE archive'[k] = archive[k]
  BY <1>2, <1>3, LeadGrows DEF ArchiveIsOfClosedLead
<1>4. ASSUME NEW s \in Sessions, Commit(s) PROVE True(k)
  <2>1. archive' = [archive EXCEPT ![req[s].lead] =
                      IF draft[s].archive = NoArchive THEN @ ELSE draft[s].archive]
    BY <1>4 DEF Commit
  <2>2. CASE k # req[s].lead \/ draft[s].archive = NoArchive
    BY <1>2, <1>3, <2>1, <2>2 DEF TypeOK
  <2>3. CASE k = req[s].lead /\ draft[s].archive # NoArchive
    <3>1. archive'[k] = draft[s].archive
      BY <1>2, <2>1, <2>3 DEF TypeOK
    <3>2. /\ draft[s].archive = Snapshot(view[s])
          /\ view[s].status \in Final => /\ view[s].status = Target[req[s].act]
                                         /\ req[s].actor # NoOne => view[s].owner = req[s].actor
      BY <1>4, <2>3 DEF Seen, Commit
    <3>3. /\ view[s].status \in Final
          /\ archive'[k].status = view[s].status /\ archive'[k].owner = view[s].owner
      BY <2>3, <3>1, <3>2 DEF Snapshot
    <3>4. /\ status'[k] = Target[req[s].act]
          /\ owner'[k] = NewOwner(req[s].act, owner[k], req[s].actor)
          /\ history'[k] = Append(history[k], draft[s].event)
          /\ draft[s].event \in Event /\ draft[s].event.by = req[s].actor
          /\ history[k] \in Seq(Event)
      BY <1>2, <1>4, <2>3, CommitStep DEF TypeOK
    <3>5. history'[k][Len(history'[k])] = draft[s].event
      BY <3>4, AppendedRow
    <3>6. req[s].actor # NoOne => owner'[k] = req[s].actor
      BY <3>4 DEF NewOwner
    <3>. QED  BY <3>2, <3>3, <3>4, <3>5, <3>6
  <2>. QED  BY <2>2, <2>3
<1>5. ASSUME NEW s \in Sessions, PostCommitSync(s), archive'[k] # archive[k] PROVE True(k)
  <2>1. /\ pc[s] = "committed" /\ k = req[s].lead
        /\ archive'[k] = Snapshot(view[s]) /\ Snapshot(view[s]) # NoArchive
        /\ status' = status /\ owner' = owner /\ history' = history
    BY <1>2, <1>5 DEF PostCommitSync, TypeOK
  <2>2. /\ view[s].status \in Final
        /\ archive'[k].status = view[s].status /\ archive'[k].owner = view[s].owner
    BY <2>1 DEF Snapshot
  <2>. QED  BY <2>1, <2>2 DEF Seen
<1>6. ASSUME NEW s \in Sessions,
             TryTakeLead(s) \/ MarkPaid(s) \/ MarkSuccess(s) \/ RejectLead(s)
      PROVE  archive' = archive
  BY <1>2, <1>6, UpdateStep DEF Updated, NotUpdated, rows
<1>7. ASSUME NEW s \in Sessions,
             \/ BotTake(s) \/ BotSuccess(s) \/ BotAmountInput(s) \/ BotReject(s) \/ ApiPatch(s)
             \/ LoadHistory(s) \/ SelectFromStatus(s) \/ Rollback(s)
      PROVE  archive' = archive
  BY <1>7 DEF BotTake, BotSuccess, BotAmountInput, BotReject, ApiPatch, Load,
              LoadHistory, SelectFromStatus, Rollback, rows
<1>8. ASSUME NEW l \in Leads, NEW a \in Actors, CreateLead(l, a) PROVE archive' = archive
  BY <1>8 DEF CreateLead
<1>9. CASE UNCHANGED vars
  BY <1>3, <1>9 DEF vars, rows
<1>. QED  BY <1>3, <1>4, <1>5, <1>6, <1>7, <1>8, <1>9, CloneCreates DEF Next

\* Whatever sessions archive, and however often, the archive is of a closed lead.
THEOREM ArchiveIsTrue == Spec => []ArchiveIsOfClosedLead
<1>. DEFINE Inv == (\A s \in Sessions : Seen(s)) /\ ArchiveIsOfClosedLead
<1>1. Init => Inv
  BY DEF Init, Seen, ArchiveIsOfClosedLead
<1>2. IInv /\ Inv /\ [Next]_vars => Inv'
  BY SeenStep, ArchiveStep
<1>3. Inv => ArchiveIsOfClosedLead
  OBVIOUS
<1>. QED  BY <1>1, <1>2, <1>3, Inductive, PTL DEF Spec

-----------------------------------------------------------------------------
(* LeadLifecycle implements LeadPipeline                                   *)

\* A commit is the pipeline's step of the same name.
LEMMA CommitRefines ==
    ASSUME TypeOK, NEW s \in Sessions, Held(s), Commit(s)
    PROVE  Pipeline!Next
<1>. DEFINE l   == req[s].lead
            a   == req[s].actor
            act == req[s].act
<1>1. /\ l \in Leads /\ act \in Acts /\ a \in Pipeline!Actors
      /\ Matches(act, Row(s), a)
      /\ status' = [status EXCEPT ![l] = Target[act]]
      /\ owner'  = [owner EXCEPT ![l] = NewOwner(act, owner[l], a)]
  BY CommitStep DEF Actors, Pipeline!Actors
<1>2. Row(s).status = status[l] /\ Row(s).owner = owner[l]
  BY DEF Row
<1>3. CASE act = "take"
  <2>1. Pipeline!Take(l, a)
    BY <1>1, <1>2, <1>3 DEF Matches, TakeWhere, NewOwner, Target, Acts, Pipeline!Take
  <2>. QED  BY <1>1, <2>1 DEF Pipeline!Next
<1>4. CASE act = "paid"
  <2>1. Pipeline!Pay(l, a)
    BY <1>1, <1>2, <1>4 DEF Matches, PaidWhere, Enforced, NewOwner, Target, Acts,
          Pipeline!Pay, Pipeline!Advance, Pipeline!NextOwner
  <2>. QED  BY <1>1, <2>1 DEF Pipeline!Next
<1>5. CASE act = "success"
  <2>1. Pipeline!Succeed(l, a)
    BY <1>1, <1>2, <1>5 DEF Matches, SuccessWhere, Enforced, NewOwner, Target, Acts,
          Pipeline!Succeed, Pipeline!Advance, Pipeline!NextOwner
  <2>. QED  BY <1>1, <2>1 DEF Pipeline!Next
<1>6. CASE act = "reject"
  <2>1. Pipeline!Reject(l, a)
    BY <1>1, <1>2, <1>6 DEF Matches, RejectWhere, Enforced, NewOwner, Target, Acts, Live,
          Pipeline!Reject, Pipeline!Live, Pipeline!NextOwner
  <2>. QED  BY <1>1, <2>1 DEF Pipeline!Next
<1>. QED  BY <1>1, <1>3, <1>4, <1>5, <1>6 DEF Acts

\* Whatever the handlers do, the committed rows follow the pipeline.
THEOREM PipelineIsImplemented == Spec => ImplementsPipeline
<1>1. Init => Pipeline!Init
  BY DEF Init, Pipeline!Init
<1>2. IInv /\ [Next]_vars => [Pipeline!Next]_(Pipeline!pipelineVars)
  <2> SUFFICES ASSUME IInv, [Next]_vars
               PROVE  [Pipeline!Next]_(Pipeline!pipelineVars)
    OBVIOUS
  <2>1. TypeOK /\ \A s \in Sessions : Asked(s) /\ Held(s)
    BY DEF IInv
  <2>2. ASSUME NEW l \in Leads, NEW a \in Actors, CreateLead(l, a) PROVE Pipeline!Next
    BY <2>2 DEF CreateLead, Actors, Pipeline!Next, Pipeline!Create, Pipeline!Actors
  <2>3. ASSUME NEW s \in Sessions, Commit(s) PROVE Pipeline!Next
    BY <2>1, <2>3, CommitRefines
  <2>. QED  BY <2>1, <2>2, <2>3, QuietStep DEF Pipeline!pipelineVars
<1>. QED  BY <1>1, <1>2, Inductive, PTL DEF Spec, ImplementsPipeline, Pipeline!Spec
=============================================================================
