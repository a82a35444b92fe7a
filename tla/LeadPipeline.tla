---------------------------- MODULE LeadPipeline ----------------------------
(***************************************************************************)
(* What the CRM promises about one lead, whoever acts on it and however    *)
(* many handlers run at once: a lead is created NEW, for nobody or for a   *)
(* manager, one actor takes it, it is paid, closed as SUCCESS, or it is    *)
(* rejected from any live status.  Nothing leaves SUCCESS or REJECTED.     *)
(* Anyone may take a NEW lead, also one created for another manager; a     *)
(* plain manager only pays and closes leads that are his, and only rejects *)
(* those or leads that are nobody's.                                       *)
(* LeadLifecycle is shown to implement this module.                        *)
(***************************************************************************)
CONSTANTS Leads,     \* lead ids
          Managers,  \* managers with role MANAGER
          Admins,    \* managers with role ADMIN
          NoOne      \* no manager: a NULL manager_id, or an API call without one

VARIABLES status,    \* leads.status, or "absent" before the INSERT
          owner      \* leads.manager_id

pipelineVars == <<status, owner>>

Live   == {"new", "in_progress", "paid"}
Final  == {"success", "rejected"}
Actors == Managers \cup Admins \cup {NoOne}

\* The manager_id a paid, success or reject transition leaves behind.
NextOwner(old, a) == IF a = NoOne THEN old ELSE a

Init == /\ status = [l \in Leads |-> "absent"]
        /\ owner  = [l \in Leads |-> NoOne]

Create(l, a) == /\ status[l] = "absent"
                /\ status' = [status EXCEPT ![l] = "new"]
                /\ owner'  = [owner EXCEPT ![l] = a]

Take(l, a) == /\ status[l] = "new"
              /\ status' = [status EXCEPT ![l] = "in_progress"]
              /\ owner'  = [owner EXCEPT ![l] = a]

Advance(l, a, from, to) ==
    /\ status[l] = from
    /\ a \in Managers => owner[l] = a
    /\ status' = [status EXCEPT ![l] = to]
    /\ owner'  = [owner EXCEPT ![l] = NextOwner(owner[l], a)]

Pay(l, a)     == Advance(l, a, "in_progress", "paid")
Succeed(l, a) == Advance(l, a, "paid", "success")

Reject(l, a) ==
    /\ status[l] \in Live
    /\ a \in Managers => owner[l] \in {a, NoOne}
    /\ status' = [status EXCEPT ![l] = "rejected"]
    /\ owner'  = [owner EXCEPT ![l] = NextOwner(owner[l], a)]

Next == \E l \in Leads :
           \E a \in Actors :
              Create(l, a) \/ Take(l, a) \/ Pay(l, a) \/ Succeed(l, a) \/ Reject(l, a)

Spec == Init /\ [][Next]_pipelineVars
=============================================================================
