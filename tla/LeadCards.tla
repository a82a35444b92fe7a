----------------------------- MODULE LeadCards -----------------------------
(***************************************************************************)
(* The Telegram cards of one lead.  After the commit of a transition its   *)
(* handler syncs the card (sync_new_lead_card, _move_card): it reads the   *)
(* active lead_card_messages row, takes the buttons off that message,      *)
(* posts a new one in the topic of the lead's status, and makes the new    *)
(* one the active row, all in a second transaction.  Handlers of different *)
(* transitions do this at the same time.                                   *)
(*                                                                         *)
(* A lead enters each status once, so a status names the transition into   *)
(* it, the sync that follows, the message that sync posts and its row.     *)
(* Topics are one to one with statuses (STATUS_TO_TOPIC_KEY).              *)
(***************************************************************************)
EXTENDS Naturals, Sequences, FiniteSets

CONSTANTS NoCard,   \* no lead_card_messages row
          MaxSyncs  \* bound on the syncs and refreshes that run at the same time

Statuses == {"new", "in_progress", "paid", "success", "rejected"}

ASSUME CardsAssumption == NoCard \notin Statuses /\ MaxSyncs \in Nat \ {0}

VARIABLES
    status,     \* leads.status, "absent" before the INSERT
    passed,     \* statuses the lead has been in
    seen,       \* status of the Lead object a sync holds
    pc,         \* where a sync is
    cur,        \* active row a sync has read
    want, off,  \* rows its UPDATE has seen active, and has made inactive
    began,      \* syncs in the order their transactions began (created_at)
    card,       \* committed row of a message: "none", "active", "inactive"
    tg,         \* the message in Telegram: "none", "live" (buttons), "archived"
    refresh,    \* active row a running refresh_card has read, or NoCard
    overlapped, \* history: two syncs or refreshes have run at the same time
    failed      \* history: a Telegram call, a transaction or the process failed

syncs == <<seen, pc, cur, want, off, began>>
vars  == <<status, passed, syncs, card, tg, refresh, overlapped, failed>>

Enters == [in_progress |-> {"new"}, paid |-> {"in_progress"}, success |-> {"paid"},
           rejected |-> {"new", "in_progress", "paid"}, new |-> {"absent"}]

Init ==
    /\ status  = "absent"
    /\ passed  = {}
    /\ seen    = [t \in Statuses |-> "new"]
    /\ pc      = [t \in Statuses |-> "idle"]
    /\ cur     = [t \in Statuses |-> NoCard]
    /\ want    = [t \in Statuses |-> {}]
    /\ off     = [t \in Statuses |-> {}]
    /\ began   = << >>
    /\ card    = [t \in Statuses |-> "none"]
    /\ tg      = [t \in Statuses |-> "none"]
    /\ refresh = NoCard
    /\ overlapped = FALSE
    /\ failed  = FALSE

Running == {t \in Statuses : pc[t] \notin {"idle", "done"}}
Quiet   == Running = {} /\ refresh = NoCard

\* One more sync or refresh starts.
Starts == /\ Cardinality(Running) + (IF refresh = NoCard THEN 0 ELSE 1) < MaxSyncs
          /\ overlapped' = (overlapped \/ ~ Quiet)

\* get_active_card_message: the active row created last.
Active == {t \in Statuses : card[t] = "active"}
Began(t) == CHOOSE i \in 1 .. Len(began) : began[i] = t
ActiveCard == IF Active = {} THEN NoCard
              ELSE CHOOSE t \in Active : \A u \in Active : Began(u) <= Began(t)

\* The statuses a stale Lead object may show after the transition to t: ones the
\* WHERE clause of that transition does not match (LeadLifecycle, Synced).
Stale(t) == IF t \in {"paid", "success"} THEN passed \ Enters[t] ELSE {}

-----------------------------------------------------------------------------
(* The transition commits                                                  *)

Transition(t) ==
    /\ status \in Enters[t]
    /\ Starts
    /\ status' = t
    /\ passed' = passed \cup ({status} \ {"absent"})
    /\ \E v \in {t} \cup (IF Quiet THEN {} ELSE Stale(t)) : seen' = [seen EXCEPT ![t] = v]
    /\ pc' = [pc EXCEPT ![t] = "ready"]
    /\ UNCHANGED <<cur, want, off, began, card, tg, refresh, failed>>

-----------------------------------------------------------------------------
(* sync_lead_after_transition                                              *)

Goto(t, label) == pc' = [pc EXCEPT ![t] = label]

\* The session is closed.
Close(t) ==
    /\ Goto(t, "done")
    /\ cur'  = [cur EXCEPT ![t] = NoCard]
    /\ want' = [want EXCEPT ![t] = {}]
    /\ off'  = [off EXCEPT ![t] = {}]
    /\ UNCHANGED began

\* The active row is read.  Nothing is done when the card is where it belongs.
Begin(t) ==
    /\ pc[t] = "ready"
    /\ IF ActiveCard # NoCard /\ (t = "new" \/ seen[ActiveCard] = seen[t])
       THEN Close(t)
       ELSE /\ began' = Append(began, t)
            /\ cur' = [cur EXCEPT ![t] = ActiveCard]
            /\ Goto(t, IF ActiveCard = NoCard THEN "post" ELSE "archive")
            /\ UNCHANGED <<want, off>>
    /\ UNCHANGED <<status, passed, seen, card, tg, refresh, overlapped, failed>>

\* archive_message: new text, no buttons.  It swallows its errors.
ArchiveOld(t) ==
    /\ pc[t] = "archive"
    /\ \/ tg' = [tg EXCEPT ![cur[t]] = "archived"] /\ UNCHANGED failed
       \/ failed' = TRUE /\ UNCHANGED tg
    /\ Goto(t, "post")
    /\ UNCHANGED <<status, passed, seen, cur, want, off, began, card, refresh, overlapped>>

PostCard(t) ==
    /\ pc[t] = "post"
    /\ tg' = [tg EXCEPT ![t] = "live"]
    /\ Goto(t, "posted")
    /\ UNCHANGED <<status, passed, seen, cur, want, off, began, card, refresh, overlapped, failed>>

PostFailsQuietly(t) ==  \* mutant: the old row is cleared before the error
    /\ pc[t] = "post"
    /\ card' = [u \in Statuses |-> IF u = cur[t] THEN "inactive" ELSE card[u]]
    /\ Close(t)
    /\ failed' = TRUE
    /\ UNCHANGED <<status, passed, seen, tg, refresh, overlapped>>

\* The new card could not be posted: RuntimeError, and the caller rolls back.
PostFails(t) ==
    /\ pc[t] = "post"
    /\ Close(t)
    /\ failed' = TRUE
    /\ UNCHANGED <<status, passed, seen, card, tg, refresh, overlapped>>

\* set_active_card_message: UPDATE ... WHERE is_active sees the rows active now ...
SelectActive(t) ==
    /\ pc[t] = "posted"
    /\ want' = [want EXCEPT ![t] = Active]
    /\ Goto(t, "updating")
    /\ UNCHANGED <<status, passed, seen, cur, off, began, card, tg, refresh, overlapped, failed>>

LockedBy(u) == IF pc[u] \in {"updated", "inserted"} THEN off[u] ELSE {}

\* ... waits for those another sync has updated, and skips the ones that are no
\* longer active.
Deactivate(t) ==
    /\ pc[t] = "updating"
    /\ \A u \in Statuses \ {t} : want[t] \cap LockedBy(u) = {}
    /\ off' = [off EXCEPT ![t] = want[t] \cap Active]
    /\ Goto(t, "updated")
    /\ UNCHANGED <<status, passed, seen, cur, want, began, card, tg, refresh, overlapped, failed>>

InsertActiveAlone(t) ==  \* mutant: a second lock, taken in the wrong order
    /\ pc[t] = "updated"
    /\ \A u \in Statuses \ {t} : pc[u] \notin {"updating", "updated", "inserted"}
    /\ Goto(t, "inserted")
    /\ UNCHANGED <<status, passed, seen, cur, want, off, began, card, tg, refresh, overlapped, failed>>

\* INSERT of the new row; set_tg_message takes the row of the lead.
InsertActive(t) ==
    /\ pc[t] = "updated"
    /\ \A u \in Statuses : pc[u] # "inserted"
    /\ Goto(t, "inserted")
    /\ UNCHANGED <<status, passed, seen, cur, want, off, began, card, tg, refresh, overlapped, failed>>

CommitAdding(t) ==  \* mutant: no row is deactivated
    /\ pc[t] = "inserted"
    /\ card' = [u \in Statuses |-> CASE u = t -> "active"
                                     [] u # t -> card[u]]
    /\ Close(t)
    /\ UNCHANGED <<status, passed, seen, tg, refresh, overlapped, failed>>

CommitCards(t) ==
    /\ pc[t] = "inserted"
    /\ card' = [u \in Statuses |-> CASE u = t -> "active"
                                     [] u \in off[t] -> "inactive"
                                     [] OTHER -> card[u]]
    /\ Close(t)
    /\ UNCHANGED <<status, passed, seen, tg, refresh, overlapped, failed>>

\* No topic, a database error or a crash: the transaction is undone, Telegram is not.
SyncFails(t) ==
    /\ t \in Running
    /\ Close(t)
    /\ failed' = TRUE
    /\ UNCHANGED <<status, passed, seen, card, tg, refresh, overlapped>>

-----------------------------------------------------------------------------
(* refresh_card, after a comment or a change of the reminder               *)

RefreshRead ==
    /\ refresh = NoCard /\ ActiveCard # NoCard
    /\ Starts
    /\ refresh' = ActiveCard
    /\ UNCHANGED <<status, passed, syncs, card, tg, failed>>

\* The message is rewritten as a live card, with its buttons, or the edit fails.
RefreshEdit ==
    /\ refresh # NoCard
    /\ tg' \in {tg, [tg EXCEPT ![refresh] = "live"]}
    /\ refresh' = NoCard
    /\ UNCHANGED <<status, passed, syncs, card, overlapped, failed>>

-----------------------------------------------------------------------------
Sync(t) == Begin(t) \/ ArchiveOld(t) \/ PostCard(t) \/ SelectActive(t)
           \/ Deactivate(t) \/ InsertActive(t) \/ CommitCards(t)

Next ==
    \/ \E t \in Statuses : Transition(t) \/ Sync(t) \/ PostFails(t) \/ SyncFails(t)
    \/ RefreshRead \/ RefreshEdit

Spec == Init /\ [][Next]_vars

-----------------------------------------------------------------------------
(* Properties                                                              *)

\* The types of the variables: rows and messages are of statuses the lead can have.
TypeOK ==
    /\ status \in Statuses \cup {"absent"}
    /\ passed \subseteq Statuses
    /\ seen \in [Statuses -> Statuses]
    /\ pc \in [Statuses -> {"idle", "ready", "archive", "post", "posted", "updating",
                            "updated", "inserted", "done"}]
    /\ cur \in [Statuses -> Statuses \cup {NoCard}]
    /\ want \in [Statuses -> SUBSET Statuses] /\ off \in [Statuses -> SUBSET Statuses]
    /\ began \in Seq(Statuses)
    /\ card \in [Statuses -> {"none", "active", "inactive"}]
    /\ tg \in [Statuses -> {"none", "live", "archived"}]
    /\ refresh \in Statuses \cup {NoCard}
    /\ overlapped \in BOOLEAN /\ failed \in BOOLEAN

\* One card with buttons, in the topic of the status, and it is the active one.
CardInPlace == \E t \in Statuses : /\ {u \in Statuses : tg[u] = "live"} = {t}
                                   /\ Active = {t}
                                   /\ seen[t] = status

\* As long as syncs have not overlapped and nothing has failed, the card is in
\* its place whenever nothing runs.
SerialCardInPlace ==
    Quiet /\ status # "absent" /\ ~ overlapped /\ ~ failed => CardInPlace

\* README.md, "Поток заявки": the status changes, and the card moves to the topic
\* it belongs to.  Nothing has failed and nothing runs any more.
CardFollowsStatus == Quiet /\ status # "absent" /\ ~ failed => CardInPlace

\* A lead that has had an active card never loses it: whichever syncs overlap and
\* whichever fail, some row stays active.
ActiveCardIsNotLost == (\E t \in Statuses : card[t] # "none") => Active # {}

\* Every row is of a message that was posted, and without failures every message
\* has its row.
RowsMatchMessages ==
    \A t \in Statuses : /\ card[t] # "none" => tg[t] # "none"
                        /\ Quiet /\ ~ failed /\ tg[t] # "none" => card[t] # "none"

\* The state is sound: no active card is lost, no row without its message.
Inv == TypeOK /\ ActiveCardIsNotLost /\ RowsMatchMessages

\* Syncs never wait for one another in a circle: as long as some run, one of them
\* can go on (each step brings a sync nearer its end, so all of them end).
SomeSyncGoesOn == Running # {} => \E t \in Running : ENABLED Sync(t)
=============================================================================
