---------------------------- MODULE LeadLifecycle ----------------------------
(***************************************************************************)
(* The lead pipeline as the bot handlers, PATCH /leads/{id}, LeadService   *)
(* and LeadRepository run it.  A session is one handler call with its own  *)
(* AsyncSession on PostgreSQL at READ COMMITTED: it reads the lead, runs   *)
(* one conditional UPDATE, which takes the row lock and waits for it, adds *)
(* a history row, archives a closed lead, commits, and only then runs the  *)
(* post-commit step.                                                       *)
(*                                                                         *)
(* A session keeps the Lead object of its first SELECT (the ORM identity   *)
(* map, expire_on_commit=False): later SELECTs return that object and do   *)
(* not overwrite it.  The UPDATE changes it only when the object itself    *)
(* satisfies the WHERE clause (synchronize_session).  view is that object. *)
(***************************************************************************)
EXTENDS Naturals, Sequences

CONSTANTS Leads, Managers, Admins, NoOne,
          Sessions,   \* concurrent handler calls
          Unlocked,   \* no transaction holds the row
          NoArchive   \* no lead_archives row

VARIABLES
    status, owner,  \* committed columns of leads
    history,        \* committed lead_history rows of a lead, in commit order
    archive,        \* committed lead_archives row of a lead
    lock,           \* transaction that holds the row of a lead
    pc,             \* where a session is
    req,            \* what a session was asked: act, actor, lead
    view,           \* the Lead object of a session
    from,           \* status a rejecting session has SELECTed
    draft           \* uncommitted changes of a session

Live     == {"new", "in_progress", "paid"}
Final    == {"success", "rejected"}
Statuses == Live \cup Final
Acts     == {"take", "paid", "success", "reject"}
Actors   == Managers \cup Admins \cup {NoOne}
Archived == [status : Final, owner : Actors, events : Nat]

ASSUME LifecycleAssumption ==
    /\ Leads # {}
    /\ NoOne \notin Managers \cup Admins
    /\ Managers \cap Admins = {}
    /\ Unlocked \notin Sessions
    /\ NoArchive \notin Archived

rows     == <<status, owner, history, archive>>
sessions == <<pc, req, view, from, draft>>
vars     == <<rows, lock, sessions>>

NoReq    == [act |-> "take", actor |-> NoOne, lead |-> CHOOSE l \in Leads : TRUE]
NoView   == [status |-> "new", owner |-> NoOne, events |-> 0]
NoEvent  == [from |-> "new", to |-> "new", by |-> NoOne]
NoDraft  == [status |-> "new", owner |-> NoOne, event |-> NoEvent, archive |-> NoArchive]

Init ==
    /\ status  = [l \in Leads |-> "absent"]
    /\ owner   = [l \in Leads |-> NoOne]
    /\ history = [l \in Leads |-> << >>]
    /\ archive = [l \in Leads |-> NoArchive]
    /\ lock    = [l \in Leads |-> Unlocked]
    /\ pc      = [s \in Sessions |-> "idle"]
    /\ req     = [s \in Sessions |-> NoReq]
    /\ view    = [s \in Sessions |-> NoView]
    /\ from    = [s \in Sessions |-> "new"]
    /\ draft   = [s \in Sessions |-> NoDraft]

-----------------------------------------------------------------------------
(* Access rules and the WHERE clauses of the repository                    *)

\* _manager_can_act: the handlers' own check, made on the object they read.
ManagerCanAct(a, v) == a \in Managers => v.owner \in {a, NoOne}

\* enforce_manager and manager_id: the UPDATE is restricted to the manager's leads.
Enforced(a) == a \in Managers

TakeWhereOpen(v, a) == v.status \in {"new", "in_progress"}  \* mutant

TakeWhere(v, a)    == v.status = "new"
PaidWhere(v, a)    == v.status = "in_progress" /\ (Enforced(a) => v.owner = a)
SuccessWhere(v, a) == v.status = "paid" /\ (Enforced(a) => v.owner = a)
RejectWhere(v, a)  == v.status \in Live /\ (Enforced(a) => v.owner \in {a, NoOne})

Target == [act \in Acts |-> CASE act = "take"    -> "in_progress"
                              [] act = "paid"    -> "paid"
                              [] act = "success" -> "success"
                              [] act = "reject"  -> "rejected"]

NewOwnerAlways(act, old, a) == a  \* mutant

\* mutant: a rejection leaves manager_id alone
NewOwnerIfNotRejected(act, old, a) == IF a = NoOne \/ act = "reject" THEN old ELSE a

\* try_take_lead always writes manager_id; the others only a manager they have.
NewOwner(act, old, a) == IF a = NoOne /\ act # "take" THEN old ELSE a

\* synchronize_session: what the UPDATE does to a Lead object that matches it.
Synced(v, act, a) ==
    [status |-> Target[act], owner |-> NewOwner(act, v.owner, a), events |-> v.events]

\* archive_lead_snapshot_if_final: what a session's object gives to archive.
\* The stored history is the collection loaded with the object.
Snapshot(v) ==
    IF v.status \in Final
    THEN [status |-> v.status, owner |-> v.owner, events |-> v.events]
    ELSE NoArchive

-----------------------------------------------------------------------------
(* Creation                                                                *)

\* create_lead: INSERT and commit, with no history row.  POST /leads may name a
\* manager_id a (one of another tenant is a manager who never acts); Tilda and the
\* manual form name none.
CreateLead(l, a) ==
    /\ status[l] = "absent"
    /\ status' = [status EXCEPT ![l] = "new"]
    /\ owner'  = [owner EXCEPT ![l] = a]
    /\ UNCHANGED <<history, archive, lock, sessions>>

\* The clone button: a manager who may act on src gets a NEW copy of it, for nobody.
CloneLead(src, l) ==
    /\ status[src] # "absent"
    /\ \E a \in Managers \cup Admins : ManagerCanAct(a, [owner |-> owner[src]])
    /\ CreateLead(l, NoOne)

-----------------------------------------------------------------------------
(* A handler starts: it resolves the manager and reads the lead            *)

\* get_by_id_scoped: SELECT the lead ...
Load(s, act, a, l) ==
    /\ pc[s] = "idle"
    /\ status[l] # "absent"
    /\ pc'   = [pc EXCEPT ![s] = "reading"]
    /\ req'  = [req EXCEPT ![s] = [act |-> act, actor |-> a, lead |-> l]]
    /\ view' = [view EXCEPT ![s] = [status |-> status[l], owner |-> owner[l],
                                    events |-> 0]]
    /\ UNCHANGED <<rows, lock, from, draft>>

\* ... and, in the statement selectinload adds, its history.
LoadHistory(s) ==
    /\ pc[s] = "reading"
    /\ pc'   = [pc EXCEPT ![s] = "loaded"]
    /\ view' = [view EXCEPT ![s].events = Len(history[req[s].lead])]
    /\ UNCHANGED <<rows, lock, req, from, draft>>

CanAct(a, l) == ManagerCanAct(a, [owner |-> owner[l]])

\* The callbacks take, success and reject_reason, and the answers to the amount
\* and reason prompts.  Taking has no ManagerCanAct.
BotTake(s) == \E a \in Managers \cup Admins, l \in Leads : Load(s, "take", a, l)

BotSuccess(s) == \E a \in Managers \cup Admins, l \in Leads :
                    CanAct(a, l) /\ Load(s, "success", a, l)

BotAmountInput(s) == \E a \in Managers \cup Admins, l \in Leads :
                        CanAct(a, l) /\ Load(s, "paid", a, l)

BotReject(s) == \E a \in Managers \cup Admins, l \in Leads :
                   CanAct(a, l) /\ Load(s, "reject", a, l)

\* PATCH /leads/{id}: no ManagerCanAct, and the manager may be left out.
ApiPatch(s) == \E act \in Acts, a \in Actors, l \in Leads : Load(s, act, a, l)

-----------------------------------------------------------------------------
(* The transition                                                          *)

CloseSession(s) ==
    /\ pc'    = [pc EXCEPT ![s] = "idle"]
    /\ req'   = [req EXCEPT ![s] = NoReq]
    /\ view'  = [view EXCEPT ![s] = NoView]
    /\ from'  = [from EXCEPT ![s] = "new"]
    /\ draft' = [draft EXCEPT ![s] = NoDraft]

\* The row as an UPDATE of s finds it.
Row(s) == [status |-> status[req[s].lead], owner |-> owner[req[s].lead]]

\* The conditional UPDATE found no row: the service returns None.
NotUpdated(s) == CloseSession(s) /\ UNCHANGED <<rows, lock>>

\* The conditional UPDATE took the row: history row, archive, not yet committed.
\* A failing archive is rolled back to its savepoint and swallowed.
Updated(s, fromStatus, viewMatches) ==
    LET l   == req[s].lead
        a   == req[s].actor
        act == req[s].act
        v   == IF viewMatches THEN Synced(view[s], act, a) ELSE view[s]
    IN  /\ lock[l] = Unlocked
        /\ lock' = [lock EXCEPT ![l] = s]
        /\ view' = [view EXCEPT ![s] = v]
        /\ \E arch \in {Snapshot(v), NoArchive} :
              draft' = [draft EXCEPT ![s] =
                          [status  |-> Target[act],
                           owner   |-> NewOwner(act, owner[l], a),
                           event   |-> [from |-> fromStatus, to |-> Target[act], by |-> a],
                           archive |-> arch]]
        /\ pc' = [pc EXCEPT ![s] = "updated"]
        /\ UNCHANGED <<rows, req, from>>

\* One UPDATE ... WHERE ... RETURNING id.  It waits for a row that matches and is
\* locked, and looks at the row again when it gets it.
TryTakeLead(s) ==
    /\ pc[s] = "loaded" /\ req[s].act = "take"
    /\ IF TakeWhere(Row(s), req[s].actor)
       THEN Updated(s, "new", TakeWhere(view[s], req[s].actor))
       ELSE NotUpdated(s)

MarkPaidOnView(s) ==  \* mutant: read, modify, write, as update_status does
    /\ pc[s] = "loaded" /\ req[s].act = "paid"
    /\ IF PaidWhere(view[s], req[s].actor)
       THEN Updated(s, "in_progress", TRUE)
       ELSE NotUpdated(s)

MarkPaid(s) ==
    /\ pc[s] = "loaded" /\ req[s].act = "paid"
    /\ IF PaidWhere(Row(s), req[s].actor)
       THEN Updated(s, "in_progress", PaidWhere(view[s], req[s].actor))
       ELSE NotUpdated(s)

MarkSuccess(s) ==
    /\ pc[s] = "loaded" /\ req[s].act = "success"
    /\ IF SuccessWhere(Row(s), req[s].actor)
       THEN Updated(s, "paid", SuccessWhere(view[s], req[s].actor))
       ELSE NotUpdated(s)

SelectFromStatusLate(s) ==  \* mutant: the SELECT sees the UPDATE
    /\ pc[s] = "loaded" /\ req[s].act = "reject"
    /\ from' = [from EXCEPT ![s] = "rejected"]
    /\ pc'   = [pc EXCEPT ![s] = "selected"]
    /\ UNCHANGED <<rows, lock, req, view, draft>>

\* reject_lead first SELECTs the status its history row will name ...
SelectFromStatus(s) ==
    /\ pc[s] = "loaded" /\ req[s].act = "reject"
    /\ from' = [from EXCEPT ![s] = status[req[s].lead]]
    /\ pc'   = [pc EXCEPT ![s] = "selected"]
    /\ UNCHANGED <<rows, lock, req, view, draft>>

\* ... and then UPDATEs, in a statement of its own.
RejectLead(s) ==
    /\ pc[s] = "selected"
    /\ IF RejectWhere(Row(s), req[s].actor)
       THEN Updated(s, from[s], RejectWhere(view[s], req[s].actor))
       ELSE NotUpdated(s)

CommitAnonymous(s) ==  \* mutant: no history row without a manager
    LET l == req[s].lead  d == draft[s] IN
    /\ pc[s] = "updated"
    /\ status'  = [status EXCEPT ![l] = d.status]
    /\ owner'   = [owner EXCEPT ![l] = d.owner]
    /\ history' = [history EXCEPT ![l] = IF d.event.by = NoOne THEN @ ELSE Append(@, d.event)]
    /\ archive' = [archive EXCEPT ![l] = IF d.archive = NoArchive THEN @ ELSE d.archive]
    /\ lock'    = [lock EXCEPT ![l] = Unlocked]
    /\ draft'   = [draft EXCEPT ![s] = NoDraft]
    /\ pc'      = [pc EXCEPT ![s] = "committed"]
    /\ UNCHANGED <<req, view, from>>

Commit(s) ==
    LET l == req[s].lead  d == draft[s] IN
    /\ pc[s] = "updated"
    /\ status'  = [status EXCEPT ![l] = d.status]
    /\ owner'   = [owner EXCEPT ![l] = d.owner]
    /\ history' = [history EXCEPT ![l] = Append(@, d.event)]
    /\ archive' = [archive EXCEPT ![l] = IF d.archive = NoArchive THEN @ ELSE d.archive]
    /\ lock'    = [lock EXCEPT ![l] = Unlocked]
    /\ draft'   = [draft EXCEPT ![s] = NoDraft]
    /\ pc'      = [pc EXCEPT ![s] = "committed"]
    /\ UNCHANGED <<req, view, from>>

\* An exception, a failed commit or a crash before the commit: all is undone.
Rollback(s) ==
    /\ pc[s] \in {"reading", "loaded", "selected", "updated"}
    /\ lock' = [l \in Leads |-> IF lock[l] = s THEN Unlocked ELSE lock[l]]
    /\ CloseSession(s)
    /\ UNCHANGED rows

\* sync_lead_after_transition: a closed lead is archived once more, in a second
\* transaction that a failed card move, or a failed archive, undoes.
PostCommitSync(s) ==
    LET l == req[s].lead IN
    /\ pc[s] = "committed"
    /\ \/ /\ req[s].act \in {"success", "reject"}
          /\ Snapshot(view[s]) # NoArchive
          /\ archive' = [archive EXCEPT ![l] = Snapshot(view[s])]
       \/ UNCHANGED archive
    /\ CloseSession(s)
    /\ UNCHANGED <<status, owner, history, lock>>

-----------------------------------------------------------------------------
Next ==
    \/ \E l \in Leads, a \in Actors : CreateLead(l, a)
    \/ \E src, l \in Leads : CloneLead(src, l)
    \/ \E s \in Sessions :
          \/ BotTake(s) \/ BotSuccess(s) \/ BotAmountInput(s) \/ BotReject(s)
          \/ ApiPatch(s) \/ LoadHistory(s)
          \/ TryTakeLead(s) \/ MarkPaid(s) \/ MarkSuccess(s)
          \/ SelectFromStatus(s) \/ RejectLead(s)
          \/ Commit(s) \/ Rollback(s) \/ PostCommitSync(s)

Spec == Init /\ [][Next]_vars

-----------------------------------------------------------------------------
(* Properties                                                              *)

Event    == [from : Statuses, to : Statuses, by : Actors]
View     == [status : Statuses, owner : Actors, events : Nat]
Draft    == [status : Statuses, owner : Actors, event : Event,
             archive : Archived \cup {NoArchive}]

\* Every variable has its type.
TypeOK ==
    /\ status  \in [Leads -> Statuses \cup {"absent"}]
    /\ owner   \in [Leads -> Actors]
    /\ history \in [Leads -> Seq(Event)]
    /\ archive \in [Leads -> Archived \cup {NoArchive}]
    /\ lock    \in [Leads -> Sessions \cup {Unlocked}]
    /\ pc      \in [Sessions -> {"idle", "reading", "loaded", "selected", "updated", "committed"}]
    /\ req     \in [Sessions -> [act : Acts, actor : Actors, lead : Leads]]
    /\ view    \in [Sessions -> View]
    /\ from    \in [Sessions -> Statuses]
    /\ draft   \in [Sessions -> Draft]

\* The status a lead had before its i-th history row, as its history tells it.
Before(h, i) == IF i = 1 THEN "new" ELSE h[i - 1].to

\* However sessions interleave, the last history row of a lead names the status
\* in its row: no transition is committed without its row, or a row without it.
HistoryTellsStatus ==
    \A l \in Leads :
        status[l] # "absent" =>
            status[l] = IF history[l] = << >> THEN "new"
                        ELSE history[l][Len(history[l])].to

\* The statuses a history tells of, and those it tells of before its i-th row.
Was(h)          == {Before(h, j) : j \in 1 .. Len(h) + 1}
WasBefore(h, i) == {Before(h, j) : j \in 1 .. i}

\* The i-th row of a history goes on where the history was.  A rejection may name an
\* older status than the one it left, as it SELECTs it in an earlier statement.
Follows(h, i) ==
    \/ /\ <<Before(h, i), h[i].to>> \in
             {<<"new", "in_progress">>, <<"in_progress", "paid">>, <<"paid", "success">>}
       /\ h[i].from = Before(h, i)
    \/ /\ Before(h, i) \in Live /\ h[i].to = "rejected"
       /\ h[i].from \in WasBefore(h, i)

\* Read in commit order the history is one path through the pipeline: each live
\* status is left once, every row but a rejection names the status it left, and a
\* rejection one the lead really had been in.
HistoryIsAPath == \A l \in Leads : \A i \in 1 .. Len(history[l]) : Follows(history[l], i)

\* The rows of a history whose transition wrote manager_id: those that name a
\* manager, and every take.
Writing(h) == {i \in 1 .. Len(h) : h[i].by # NoOne \/ h[i].to = "in_progress"}

\* The manager of a lead is the one of the last such row, once there is one.
OwnerOfHistory(h, o) ==
    \A i \in Writing(h) : (\A j \in Writing(h) : j <= i) => o = h[i].by

\* Whoever acts on a lead in whatever order, with and without a manager, its manager
\* is the one its history tells of, and a lead whose history has not yet told of one
\* keeps the manager it was created for: no other step changes it.
OwnerIsLastActor ==
    /\ [](\A l \in Leads : OwnerOfHistory(history[l], owner[l]))
    /\ [][\A l \in Leads : owner'[l] # owner[l] =>
             \/ status[l] = "absent"
             \/ Writing(history'[l]) # Writing(history[l])]_vars

\* An archived lead is closed for good, its archive carries the status it was closed
\* with, and it names the manager of the lead whenever a manager closed it, although
\* it is built from an object that other sessions may have overtaken.  (A rejection
\* through the API that names none keeps the stale manager it read.)
ArchiveIsOfClosedLead ==
    \A l \in Leads :
        archive[l] # NoArchive =>
            /\ status[l] \in Final
            /\ archive[l].status = status[l]
            /\ history[l][Len(history[l])].by # NoOne => archive[l].owner = owner[l]

\* tests/test_lead_archive_layer.py: the archived history ends with the status
\* the lead was closed with, that is, it holds every row of the history.  The code
\* does not keep this promise: it archives the collection loaded before the row.
ArchiveHistoryEndsWithFinalStatus ==
    \A l \in Leads : archive[l] # NoArchive => archive[l].events = Len(history[l])

\* The WHERE clause of a transition holds of a row.
Matches(act, row, a) == \/ act = "take"    /\ TakeWhere(row, a)
                        \/ act = "paid"    /\ PaidWhere(row, a)
                        \/ act = "success" /\ SuccessWhere(row, a)
                        \/ act = "reject"  /\ RejectWhere(row, a)

\* No update is lost: while a session holds its UPDATE uncommitted nobody else
\* moves the lead, so the committed row still satisfies the WHERE clause its
\* commit relies on, and no second session holds an UPDATE of the same lead.
NoLostUpdate ==
    \A s \in Sessions : pc[s] = "updated" =>
        /\ Matches(req[s].act, Row(s), req[s].actor)
        /\ \A t \in Sessions \ {s} :
              pc[t] = "updated" => req[t].lead # req[s].lead

\* What an uncommitted UPDATE of s owes to the row it locked.
Held(s) ==
    LET r == req[s]  d == draft[s] IN
    pc[s] = "updated" =>
        /\ lock[r.lead] = s
        /\ Matches(r.act, Row(s), r.actor)
        /\ d.status = Target[r.act]
        /\ d.owner = NewOwner(r.act, owner[r.lead], r.actor)
        /\ d.event.to = d.status /\ d.event.by = r.actor
        /\ r.act # "reject" => d.event.from = status[r.lead]

\* A session works on a lead that exists; only a rejection SELECTs the status.
Asked(s) == /\ pc[s] # "idle" => status[req[s].lead] # "absent"
            /\ pc[s] = "selected" => req[s].act = "reject"

\* A session names a status the lead has been in.
Past(s) ==
    /\ pc[s] = "selected" => from[s] \in Was(history[req[s].lead])
    /\ pc[s] = "updated"  => draft[s].event.from \in Was(history[req[s].lead])

\* The history of a lead accounts for its status.
Accounted(l) == status[l] = IF history[l] = << >>
                            THEN IF status[l] = "absent" THEN "absent" ELSE "new"
                            ELSE history[l][Len(history[l])].to

\* The inductive invariant the proofs use.
IInv == /\ TypeOK
        /\ \A s \in Sessions : Asked(s) /\ Held(s) /\ Past(s)
        /\ \A l \in Leads : Accounted(l)

\* What the object of a session is, for the archive: its status is final only if the
\* lead's is, or if its own UPDATE has made it so.
Seen(s) ==
    LET l == req[s].lead  a == req[s].actor  v == view[s] IN
    /\ pc[s] \in {"reading", "loaded", "selected"} /\ v.status \in Final => status[l] = v.status
    /\ pc[s] = "updated" =>
          /\ v.status \in Final => /\ v.status = Target[req[s].act]
                                   /\ a # NoOne => v.owner = a
          /\ draft[s].archive \in {Snapshot(v), NoArchive}
    /\ pc[s] = "committed" /\ v.status \in Final =>
          /\ status[l] = v.status
          /\ history[l][Len(history[l])].by # NoOne => v.owner = owner[l]

\* Every committed step is a step of the pipeline: two managers never both take
\* a lead, a closed lead never moves, and a plain manager pays, closes and rejects
\* no lead of another manager.
Pipeline == INSTANCE LeadPipeline
            WITH Leads <- Leads, Managers <- Managers, Admins <- Admins, NoOne <- NoOne,
                 status <- status, owner <- owner
ImplementsPipeline == Pipeline!Spec
=============================================================================
