------------------------------ MODULE Managers ------------------------------
(***************************************************************************)
(* The managers of one tenant.  They are added, promoted and removed by    *)
(* commands in the group (/add_manager, /make_admin, /remove_manager), by  *)
(* contacts sent to the panel, and by /setup for the owner.  Each handler  *)
(* looks a manager up and writes later, /add_manager even counts in one    *)
(* session and inserts in another; handlers run at the same time, and a    *)
(* trial or a payment may change the limit meanwhile.  What a removal does *)
(* to the reminders of the removed is in module Reminders.                 *)
(*                                                                         *)
(* Whether Telegram calls a user an admin or the owner of the group is up  *)
(* to Telegram: any user may give the commands it is asked for.            *)
(***************************************************************************)
EXTENDS Integers, FiniteSets

CONSTANTS Users,     \* people that may be managers
          Handlers,  \* handlers that may run at the same time
          Limits     \* values of tenants.max_managers; Unlimited means no limit

Unlimited == -1
ASSUME ManagersAssumption ==
    /\ Limits \subseteq Nat \cup {Unlimited}
    /\ IsFiniteSet(Handlers) /\ Handlers # {}

VARIABLES
    limit,     \* tenants.max_managers
    manager,   \* managers row of a user: is_active and role, or none
    op,        \* what a handler is at, the limit and the row it has read
    exempt,    \* history: active managers that no limit was checked for
    ceiling    \* history: the limit by which a handler was last let through

vars == <<limit, manager, op, exempt, ceiling>>

Row(a, r) == [active |-> a, role |-> r]
NoRow     == Row(FALSE, "none")   \* (its is_active is never read)
Rows      == {NoRow} \cup {Row(a, r) : a \in BOOLEAN, r \in {"manager", "admin"}}
Kinds     == {"add", "contact", "make_admin", "owner", "remove"}
Free      == [kind |-> "none", user |-> "none", at |-> "idle", limit |-> Unlimited,
              row |-> NoRow, alone |-> FALSE]

TypeOK ==
    /\ limit \in Limits
    /\ manager \in [Users -> Rows]
    /\ op \in [Handlers -> {Free} \cup [kind : Kinds, user : Users, at : {"count", "look", "write"},
                                        limit : Limits, row : Rows, alone : BOOLEAN]]
    /\ exempt \subseteq {u \in Users : manager[u].active}
    /\ ceiling \in Limits \cup {0}

Init ==
    /\ limit \in Limits
    /\ manager = [u \in Users |-> NoRow]
    /\ op = [h \in Handlers |-> Free]
    /\ exempt = {} /\ ceiling = 0

Active == {u \in Users : manager[u].active}
\* get_manager_by_tg_id finds active managers only, get_manager_by_tg_id_any all.
ActiveRow(u) == IF manager[u].active THEN manager[u] ELSE NoRow
AnyRow(u)    == manager[u]

\* A handler is over.
Ends(h) == op' = [op EXCEPT ![h] = Free]

-----------------------------------------------------------------------------
(* The handlers                                                            *)

\* resolve_admin_context: the panel is for active CRM admins.
MayStart(kind) == kind = "contact" => \E by \in Active : manager[by].role = "admin"

\* The tenant is read with the update (TenantMiddleware, _resolve_panel_tenant); its limit
\* is not read again.
Start(h) ==
    /\ op[h] = Free
    /\ \E k \in Kinds, u \in Users :
          /\ MayStart(k)
          /\ op' = [g \in Handlers |->
                      IF g = h
                      THEN [kind |-> k, user |-> u, at |-> IF k \in {"add", "contact"} THEN "count" ELSE "look",
                            limit |-> limit, row |-> NoRow, alone |-> \A f \in Handlers : op[f] = Free]
                      ELSE [op[g] EXCEPT !.alone = FALSE]]
    /\ UNCHANGED <<limit, manager, exempt, ceiling>>

CountLax(h) ==  \* mutant: the limit is off by one
    /\ op[h].at = "count"
    /\ IF op[h].limit # Unlimited /\ Cardinality(Active) > op[h].limit
       THEN Ends(h) /\ UNCHANGED ceiling
       ELSE op' = [op EXCEPT ![h].at = "look"] /\ ceiling' = op[h].limit
    /\ UNCHANGED <<limit, manager, exempt>>

\* count_active_managers against the limit.
Count(h) ==
    /\ op[h].at = "count"
    /\ IF op[h].limit # Unlimited /\ Cardinality(Active) >= op[h].limit
       THEN Ends(h) /\ UNCHANGED ceiling
       ELSE op' = [op EXCEPT ![h].at = "look"] /\ ceiling' = op[h].limit
    /\ UNCHANGED <<limit, manager, exempt>>

LookActive(h) ==  \* mutant: a contact is looked up among the active managers, too
    /\ op[h].at = "look"
    /\ LET k == op[h].kind
           r == ActiveRow(op[h].user)
       IN IF (k \in {"add", "owner"} /\ r # NoRow) \/ (k = "remove" /\ r = NoRow)
          THEN Ends(h)
          ELSE op' = [op EXCEPT ![h].at = "write", ![h].row = r]
    /\ UNCHANGED <<limit, manager, exempt, ceiling>>

\* get_manager_by_tg_id_any for a contact, get_manager_by_tg_id otherwise.
Found(h) == IF op[h].kind = "contact" THEN AnyRow(op[h].user) ELSE ActiveRow(op[h].user)

\* The user's row is read.  There is nothing to do for a manager who is one already,
\* or for a user who is to be removed and is none.
Look(h) ==
    /\ op[h].at = "look"
    /\ LET k == op[h].kind
           r == Found(h)
       IN IF (k \in {"add", "owner"} /\ r # NoRow) \/ (k = "remove" /\ r = NoRow)
          THEN Ends(h)
          ELSE op' = [op EXCEPT ![h].at = "write", ![h].row = r]
    /\ UNCHANGED <<limit, manager, exempt, ceiling>>

\* create_manager.  The unique index refuses a second row of the user, an inactive one
\* included: the handler raises and nothing is stored.
Create(h) ==
    /\ op[h].at = "write" /\ op[h].row = NoRow
    /\ LET k == op[h].kind
           u == op[h].user
       IN /\ IF manager[u] # NoRow
             THEN UNCHANGED <<manager, exempt>>
             ELSE /\ manager' = [manager EXCEPT ![u] =
                                   Row(TRUE, IF k \in {"add", "contact"} THEN "manager" ELSE "admin")]
                  /\ exempt' = IF k \in {"add", "contact"} THEN exempt ELSE exempt \cup {u}
    /\ Ends(h)
    /\ UNCHANGED <<limit, ceiling>>

\* upsert_manager_from_contact and set_manager_role on a row that was found.  Only the
\* columns that differ from the row as it was read are written; an admin stays one.
Change(h) ==
    /\ op[h].at = "write" /\ op[h].row # NoRow
    /\ LET u == op[h].user
       IN \/ /\ op[h].kind = "contact" /\ ~ op[h].row.active
             /\ manager' = [manager EXCEPT ![u].active = TRUE]
             /\ exempt' = IF manager[u].active THEN exempt ELSE exempt \ {u}
          \/ /\ op[h].kind = "contact" /\ op[h].row.active
             /\ UNCHANGED <<manager, exempt>>
          \/ /\ op[h].kind = "make_admin"
             /\ manager' = [manager EXCEPT ![u].role = "admin"]
             /\ UNCHANGED exempt
    /\ Ends(h)
    /\ UNCHANGED <<limit, ceiling>>

DeactivateForGood(h) ==  \* mutant: the row is deleted
    /\ op[h].at = "write" /\ op[h].kind = "remove"
    /\ manager' = [manager EXCEPT ![op[h].user] = NoRow]
    /\ exempt' = exempt \ {op[h].user}
    /\ Ends(h)
    /\ UNCHANGED <<limit, ceiling>>

\* deactivate_manager: the row stays.
Deactivate(h) ==
    /\ op[h].at = "write" /\ op[h].kind = "remove"
    /\ manager' = [manager EXCEPT ![op[h].user].active = FALSE]
    /\ exempt' = exempt \ {op[h].user}
    /\ Ends(h)
    /\ UNCHANGED <<limit, ceiling>>

\* A handler or its transaction fails before the commit.
Fails(h) ==
    /\ op[h] # Free
    /\ Ends(h)
    /\ UNCHANGED <<limit, manager, exempt, ceiling>>

Work(h) == \/ Start(h) \/ Count(h) \/ Look(h) \/ Create(h) \/ Change(h) \/ Deactivate(h)
           \/ Fails(h)

\* set_tenant_limits, in the transaction of a trial or a payment.  The new limit may be
\* below the managers there are: nobody is removed.
SetTenantLimits(l) ==
    /\ limit' = l
    /\ UNCHANGED <<manager, op, exempt, ceiling>>

Next == \/ \E h \in Handlers : Work(h)
        \/ \E l \in Limits : SetTenantLimits(l)

Spec == Init /\ [][Next]_vars

-----------------------------------------------------------------------------
(* Properties                                                              *)

\* Of the managers a limit is checked for (all but the owner and those /make_admin made),
\* there are at most as many as the limit by which one of them was last let through, and
\* one for each further handler: each may have counted before the others wrote
\* (cmd_add_manager, handle_manager_contact).  Later plans do not undo it.
Admitted == {h \in Handlers : op[h].kind \in {"add", "contact"} /\ op[h].at # "count"}
LimitBounded == ceiling # Unlimited =>
    Cardinality(Active \ exempt) + Cardinality(Admitted) <= ceiling + Cardinality(Handlers) - 1

\* Handler h, with no other around, makes a manager of somebody.
Enters(h, kinds) ==
    op[h].kind \in kinds /\ op[h].at = "write" /\ op[h].alone /\ (Create(h) \/ Change(h))

\* Whoever a handler makes a manager, with no other handler around, is an active one: by
\* a contact also if he was removed before (upsert_manager_from_contact), by a command or
\* as the owner unless he was (get_manager_by_tg_id does not find him).
EnteredIsManager ==
    [][\A h \in Handlers : LET u == op[h].user IN
          /\ Enters(h, {"contact"}) => manager'[u].active
          /\ Enters(h, {"add", "make_admin", "owner"}) =>
                IF manager[u] # NoRow /\ ~ manager[u].active
                THEN manager'[u] = manager[u] ELSE manager'[u].active]_vars

\* The same of /add_manager and a removed manager, for whom its code has an answer: he is
\* restored (setup.py:842).
AddedIsManager ==
    [][\A h \in Handlers : Enters(h, {"add"}) => manager'[op[h].user].active]_vars

\* What a handler has read: the row of a user never goes again, what was asked for is
\* there or not as the handler needs it, and with no other around it is still as it was.
Known ==
    \A h \in Handlers :
        /\ op[h].row # NoRow => manager[op[h].user] # NoRow
        /\ op[h].at = "write" /\ op[h].kind \in {"add", "owner"} => op[h].row = NoRow
        /\ op[h].at = "write" /\ op[h].kind = "remove" => op[h].row # NoRow
        /\ op[h].alone => \A g \in Handlers \ {h} : op[g] = Free
        /\ op[h].alone /\ op[h].at = "write" => op[h].row = Found(h)

\* The state is sound, and so is what the handlers rely on.
Inv == TypeOK /\ Known
=============================================================================
