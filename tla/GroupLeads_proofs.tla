-------------------------- MODULE GroupLeads_proofs --------------------------
(***************************************************************************)
(* A lead in the group: the form that makes it and the cards that show it. *)
(*                                                                         *)
(* LeadCards, for any number of syncs and refreshes at the same time, and  *)
(* any failures: an active card is never lost and every row has its        *)
(* message; and as long as syncs do not overlap and nothing fails, the     *)
(* card is in its place.                                                   *)
(*                                                                         *)
(* LeadForm, for any handlers and forms: as long as only presses of a      *)
(* confirmation overlap, a lead is made of one form, a form makes a lead   *)
(* for each press at most, and what is awaited was asked.                  *)
(***************************************************************************)
EXTENDS LeadCards, LeadForm, FiniteSetTheorems, TLAPS

Labels == {"idle", "ready", "archive", "post", "posted", "updating", "updated", "inserted", "done"}

\* The statuses a lead has been in when it is in status s.
Before(s, p) ==
    /\ s \in {"absent", "new"} => p = {}
    /\ s = "in_progress" => p = {"new"}
    /\ s = "paid" => p = {"new", "in_progress"}
    /\ s = "success" => p = {"new", "in_progress", "paid"}
    /\ s = "rejected" => p \subseteq {"new", "in_progress", "paid"}

\* The transaction of t has begun.
Ordered(t) == \E i \in 1 .. Len(began) : began[i] = t

\* How far the sync of t has got, and what it has read.
SyncOK(t) ==
    /\ pc[t] # "idle" => t \in passed \cup {status}
    /\ pc[t] \notin {"idle", "ready", "done"} => Ordered(t)
    /\ pc[t] \in {"idle", "ready", "archive", "post"} => tg[t] = "none"
    /\ pc[t] \in {"posted", "updating", "updated", "inserted"} => tg[t] # "none"
    /\ pc[t] = "archive" => cur[t] # NoCard
    /\ cur[t] # NoCard => card[cur[t]] # "none"
    /\ \A u \in off[t] : card[u] # "none"

\* A row is of a sync that is over, whose message was posted.
RowOK(t) ==
    /\ card[t] # "none" => pc[t] = "done" /\ Ordered(t) /\ tg[t] # "none"
    /\ ~ failed /\ pc[t] = "done" /\ tg[t] # "none" => card[t] # "none"

CardsInv ==
    /\ TypeOK /\ ActiveCardIsNotLost
    /\ Before(status, passed)
    /\ refresh # NoCard => card[refresh] # "none"
    /\ \A t \in Statuses : SyncOK(t) /\ RowOK(t)

Live == {t \in Statuses : tg[t] = "live"}

\* What the sync of t, the only one, has done to the cards.
Alone(t) ==
    /\ pc[t] = "ready" => /\ Live = Active /\ (t = "new" => Active = {})
                          /\ Active = {} \/ \E c \in Statuses : Active = {c}
    /\ pc[t] = "archive" => Live = {cur[t]}
    /\ pc[t] = "post" => Live = {}
    /\ pc[t] \in {"posted", "updating", "updated", "inserted"} => Live = {t}
    /\ pc[t] = "updating" => want[t] = Active
    /\ pc[t] \in {"updated", "inserted"} => off[t] = Active

SerialInv ==
    ~ overlapped /\ ~ failed =>
        /\ \A t \in Running : t = status /\ Alone(t)
        /\ \A t \in Statuses : pc[t] # "idle" => seen[t] = t
        /\ refresh # NoCard => Running = {} /\ refresh = status
        /\ Running = {} => Live = Active /\ Active = {status} \ {"absent"}
        /\ status # "absent" => pc[status] # "idle"

-----------------------------------------------------------------------------
(* Lemmas                                                                  *)

LEMMA EntersFacts ==
    /\ Enters["new"] = {"absent"} /\ Enters["in_progress"] = {"new"} /\ Enters["paid"] = {"in_progress"}
    /\ Enters["success"] = {"paid"} /\ Enters["rejected"] = {"new", "in_progress", "paid"}
BY DEF Enters

\* A lead enters each status once.
LEMMA EntersOnce ==
    ASSUME NEW s, NEW p, NEW t \in Statuses, s \in Enters[t], Before(s, p)
    PROVE  t \notin p \cup {s} /\ Before(t, p \cup ({s} \ {"absent"}))
BY EntersFacts DEF Before, Statuses

\* The last of some statuses, and of one more.
LastOf(B, f) == \E t \in B : \A u \in B : f[u] <= f[t]

LEMMA LastOfMore ==
    ASSUME NEW f \in [Statuses -> Nat], NEW A \in SUBSET Statuses, NEW B \in SUBSET Statuses, NEW a \in Statuses,
           B # {} => LastOf(B, f), A \subseteq B \cup {a}, B \subseteq A, A # {}
    PROVE  LastOf(A, f)
<1>1. CASE a \notin A
  <2>1. A = B
    BY <1>1
  <2>. QED  BY <2>1
<1>2. CASE a \in A /\ B = {}
  <2>1. A = {a} /\ f[a] \in Nat
    BY <1>2
  <2>. QED  BY <2>1 DEF LastOf
<1>3. CASE a \in A /\ B # {}
  <2>1. PICK t \in B : \A u \in B : f[u] <= f[t]
    BY <1>3 DEF LastOf
  <2>2. f[a] \in Nat /\ f[t] \in Nat /\ \A u \in B : f[u] \in Nat
    OBVIOUS
  <2>3. CASE f[a] <= f[t]
    BY <2>1, <2>3 DEF LastOf
  <2>4. CASE ~ (f[a] <= f[t])
    <3>1. \A u \in A : f[u] <= f[a]
      BY <2>1, <2>2, <2>4
    <3>. QED  BY <1>3, <3>1 DEF LastOf
  <2>. QED  BY <2>3, <2>4
<1>. QED  BY <1>1, <1>2, <1>3

LEMMA SomeIsLast ==
    ASSUME NEW f \in [Statuses -> Nat], NEW A \in SUBSET Statuses, A # {}
    PROVE  LastOf(A, f)
<1> DEFINE Of(B) == A \cap B # {} => LastOf(A \cap B, f)
<1>1. Of({"new"})
  <2>. SUFFICES ASSUME A \cap {"new"} # {} PROVE LastOf(A \cap {"new"}, f)
    OBVIOUS
  <2>1. A \cap {"new"} = {"new"} /\ f["new"] \in Nat
    BY DEF Statuses
  <2>. QED  BY <2>1 DEF LastOf
<1>2. Of({"new", "in_progress"})
  BY <1>1, LastOfMore DEF Statuses
<1>3. Of({"new", "in_progress", "paid"})
  BY <1>2, LastOfMore DEF Statuses
<1>4. Of({"new", "in_progress", "paid", "success"})
  BY <1>3, LastOfMore DEF Statuses
<1>5. Of(Statuses)
  BY <1>4, LastOfMore DEF Statuses
<1>6. A \cap Statuses = A
  OBVIOUS
<1>. QED  BY <1>5, <1>6

\* get_active_card_message finds an active row, if there is one.
LEMMA ActiveCardIsActive ==
    ASSUME CardsInv
    PROVE  /\ Active = {} => ActiveCard = NoCard
           /\ Active # {} => ActiveCard \in Active
           /\ ActiveCard \in Statuses \cup {NoCard} /\ NoCard \notin Statuses
<1>1. NoCard \notin Statuses /\ Active \subseteq Statuses /\ Len(began) \in Nat
  BY CardsAssumption DEF Active, CardsInv, TypeOK
<1>2. \A t \in Active : Began(t) \in Nat
  BY <1>1 DEF CardsInv, RowOK, Ordered, Began, Active
<1>3. ASSUME Active # {} PROVE ActiveCard \in Active
  <2> DEFINE f == [t \in Statuses |-> IF t \in Active THEN Began(t) ELSE 0]
  <2>1. f \in [Statuses -> Nat]
    BY <1>2
  <2>2. LastOf(Active, f)
    BY <1>1, <1>3, <2>1, SomeIsLast
  <2>3. \A t \in Active : f[t] = Began(t)
    BY <1>1
  <2> HIDE DEF f
  <2>4. \E t \in Active : \A u \in Active : Began(u) <= Began(t)
    BY <2>2, <2>3 DEF LastOf
  <2>. QED  BY <1>3, <2>4 DEF ActiveCard
<1>. QED  BY <1>1, <1>3 DEF ActiveCard

-----------------------------------------------------------------------------
(* Types                                                                   *)

LEMMA TypeInit == Init => TypeOK
<1>1. Init => began \in Seq(Statuses)
  BY DEF Init
<1>2. Init => seen \in [Statuses -> Statuses] /\ pc \in [Statuses -> Labels]
  BY DEF Init, Statuses, Labels
<1>3. Init => /\ cur \in [Statuses -> Statuses \cup {NoCard}] /\ want \in [Statuses -> SUBSET Statuses]
              /\ off \in [Statuses -> SUBSET Statuses]
  BY DEF Init
<1>4. Init => /\ card \in [Statuses -> {"none", "active", "inactive"}]
              /\ tg \in [Statuses -> {"none", "live", "archived"}]
  BY DEF Init
<1>5. Init => /\ status \in Statuses \cup {"absent"} /\ passed \subseteq Statuses
              /\ refresh \in Statuses \cup {NoCard} /\ overlapped \in BOOLEAN /\ failed \in BOOLEAN
  BY DEF Init
<1>. QED  BY <1>1, <1>2, <1>3, <1>4, <1>5 DEF TypeOK, Labels

LEMMA TypeStep == ASSUME CardsInv, [Next]_vars PROVE TypeOK'
<1>. TypeOK
  BY DEF CardsInv
<1>1. ASSUME NEW t \in Statuses, Transition(t) PROVE TypeOK'
  <2>1. status \in Statuses \cup {"absent"} /\ passed' \subseteq Statuses
    BY <1>1 DEF Transition, TypeOK
  <2>2. seen' \in [Statuses -> Statuses]
    BY <1>1 DEF Transition, Stale, TypeOK
  <2>3. overlapped' \in BOOLEAN
    BY <1>1 DEF Transition, Starts, Quiet, TypeOK
  <2>. QED  BY <1>1, <2>1, <2>2, <2>3 DEF Transition, TypeOK
<1>2. ASSUME NEW t \in Statuses, Close(t)
      PROVE  /\ pc' \in [Statuses -> Labels] /\ cur' \in [Statuses -> Statuses \cup {NoCard}]
             /\ want' \in [Statuses -> SUBSET Statuses] /\ off' \in [Statuses -> SUBSET Statuses]
             /\ began' \in Seq(Statuses)
  BY <1>2 DEF Close, Goto, TypeOK, Labels
<1>3. ASSUME NEW t \in Statuses, Begin(t) PROVE TypeOK'
  <2>1. UNCHANGED <<status, passed, seen, card, tg, refresh, overlapped, failed>>
    BY <1>3 DEF Begin
  <2>2. CASE Close(t)
    BY <1>2, <2>1, <2>2 DEF TypeOK, Labels
  <2>3. CASE ~ Close(t)
    <3>1. /\ began' = Append(began, t) /\ cur' = [cur EXCEPT ![t] = ActiveCard] /\ UNCHANGED <<want, off>>
          /\ pc' = [pc EXCEPT ![t] = IF ActiveCard = NoCard THEN "post" ELSE "archive"]
      BY <1>3, <2>3 DEF Begin, Goto
    <3>2. began' \in Seq(Statuses)
      BY <3>1 DEF TypeOK
    <3>3. cur' \in [Statuses -> Statuses \cup {NoCard}]
      BY <3>1, ActiveCardIsActive DEF TypeOK
    <3>. QED  BY <2>1, <3>1, <3>2, <3>3 DEF TypeOK
  <2>. QED  BY <2>2, <2>3
<1>4. ASSUME NEW t \in Statuses, ArchiveOld(t) \/ PostCard(t) PROVE TypeOK'
  <2>1. CASE ArchiveOld(t)
    BY <2>1 DEF ArchiveOld, Goto, TypeOK
  <2>2. CASE PostCard(t)
    BY <2>2 DEF PostCard, Goto, TypeOK
  <2>. QED  BY <1>4, <2>1, <2>2
<1>5. ASSUME NEW t \in Statuses, SelectActive(t) \/ Deactivate(t) \/ InsertActive(t) PROVE TypeOK'
  <2>1. CASE SelectActive(t)
    BY <2>1 DEF SelectActive, Active, Goto, TypeOK
  <2>2. CASE Deactivate(t)
    BY <2>2 DEF Deactivate, Active, Goto, TypeOK
  <2>3. CASE InsertActive(t)
    BY <2>3 DEF InsertActive, Goto, TypeOK
  <2>. QED  BY <1>5, <2>1, <2>2, <2>3
<1>6. ASSUME NEW t \in Statuses, CommitCards(t) PROVE TypeOK'
  <2>1. card' \in [Statuses -> {"none", "active", "inactive"}]
    <3>1. \A u \in Statuses : u = t /\ u \in off[t] => FALSE
      BY <1>6 DEF CommitCards, CardsInv, SyncOK, RowOK
    <3>. QED  BY <1>6, <3>1 DEF CommitCards, TypeOK
  <2>2. Close(t) /\ UNCHANGED <<status, passed, seen, tg, refresh, overlapped, failed>>
    BY <1>6 DEF CommitCards
  <2>. QED  BY <1>2, <2>1, <2>2 DEF TypeOK, Labels
<1>7. ASSUME NEW t \in Statuses, PostFails(t) \/ SyncFails(t) PROVE TypeOK'
  <2>1. Close(t) /\ failed' = TRUE /\ UNCHANGED <<status, passed, seen, card, tg, refresh, overlapped>>
    BY <1>7 DEF PostFails, SyncFails
  <2>. QED  BY <1>2, <2>1 DEF TypeOK, Labels
<1>8. ASSUME RefreshRead PROVE TypeOK'
  <2>1. overlapped' \in BOOLEAN
    BY <1>8 DEF RefreshRead, Starts, Quiet, TypeOK
  <2>2. refresh' \in Statuses
    BY <1>8, ActiveCardIsActive DEF RefreshRead
  <2>. QED  BY <1>8, <2>1, <2>2 DEF RefreshRead, syncs, TypeOK
<1>9. ASSUME RefreshEdit PROVE TypeOK'
  BY <1>9 DEF RefreshEdit, syncs, TypeOK
<1>10. ASSUME UNCHANGED vars PROVE TypeOK'
  BY <1>10 DEF vars, syncs, TypeOK
<1>. QED  BY <1>1, <1>3, <1>4, <1>5, <1>6, <1>7, <1>8, <1>9, <1>10 DEF Next, Sync

-----------------------------------------------------------------------------
(* Rows and messages                                                       *)

\* The sync of t is over: it had no row, and has none.
LEMMA CloseFacts ==
    ASSUME TypeOK, NEW t \in Statuses, Close(t)
    PROVE  /\ began' = began /\ pc'[t] = "done" /\ cur'[t] = NoCard /\ want'[t] = {} /\ off'[t] = {}
           /\ \A u \in Statuses \ {t} : /\ pc'[u] = pc[u] /\ cur'[u] = cur[u] /\ want'[u] = want[u]
                                        /\ off'[u] = off[u]
BY DEF Close, Goto, TypeOK

\* What a step leaves as it is.
LEMMA CardsStay ==
    ASSUME CardsInv, UNCHANGED <<status, passed, card, refresh>>,
           \A u \in Statuses : SyncOK(u)' /\ RowOK(u)'
    PROVE  /\ ActiveCardIsNotLost' /\ Before(status, passed)'
           /\ (refresh # NoCard => card[refresh] # "none")'
           /\ \A u \in Statuses : SyncOK(u)' /\ RowOK(u)'
BY DEF CardsInv, ActiveCardIsNotLost, Active

LEMMA CardsStep == ASSUME CardsInv, [Next]_vars PROVE CardsInv'
<1>0. TypeOK'
  BY TypeStep
<1>1. /\ TypeOK /\ ActiveCardIsNotLost /\ Before(status, passed)
      /\ \A t \in Statuses : SyncOK(t) /\ RowOK(t)
  BY DEF CardsInv
<1> DEFINE Kept == /\ ActiveCardIsNotLost' /\ Before(status, passed)'
                   /\ (refresh # NoCard => card[refresh] # "none")'
                   /\ \A u \in Statuses : SyncOK(u)' /\ RowOK(u)'
<1>2. ASSUME NEW t \in Statuses, Transition(t) PROVE Kept
  <2>1. /\ status' = t /\ passed' = passed \cup ({status} \ {"absent"}) /\ status \in Enters[t]
        /\ pc' = [pc EXCEPT ![t] = "ready"] /\ UNCHANGED <<cur, want, off, began, card, tg, refresh, failed>>
    BY <1>2 DEF Transition
  <2>2. t \notin passed \cup {status} /\ Before(t, passed')
    BY <1>1, <2>1, EntersOnce
  <2>3. pc[t] = "idle" /\ pc'[t] = "ready" /\ \A u \in Statuses \ {t} : pc'[u] = pc[u]
    BY <1>1, <2>1, <2>2 DEF SyncOK, TypeOK
  <2>4. \A u \in passed \cup {status} : u \in Statuses => u \in passed' \cup {status'}
    BY <2>1 DEF Statuses
  <2>5. ASSUME NEW u \in Statuses PROVE SyncOK(u)' /\ RowOK(u)'
    <3>1. CASE u = t
      BY <1>1, <2>1, <2>3, <3>1 DEF SyncOK, RowOK, Ordered
    <3>2. CASE u # t
      BY <1>1, <2>1, <2>3, <2>4, <3>2 DEF SyncOK, RowOK, Ordered
    <3>. QED  BY <3>1, <3>2
  <2>. QED  BY <2>1, <2>2, <2>5 DEF CardsInv, ActiveCardIsNotLost, Active
<1>3. ASSUME NEW t \in Statuses, Begin(t) PROVE Kept
  <2>1. pc[t] = "ready" /\ UNCHANGED <<status, passed, card, tg, refresh, failed>>
    BY <1>3 DEF Begin
  <2>2. CASE Close(t)
    <3>1. ASSUME NEW u \in Statuses PROVE SyncOK(u)' /\ RowOK(u)'
      BY <1>1, <2>1, <2>2, CloseFacts DEF SyncOK, RowOK, Ordered
    <3>. QED  BY <2>1, <3>1, CardsStay
  <2>3. CASE ~ Close(t)
    <3>1. /\ began' = Append(began, t) /\ cur' = [cur EXCEPT ![t] = ActiveCard] /\ UNCHANGED <<want, off>>
          /\ pc' = [pc EXCEPT ![t] = IF ActiveCard = NoCard THEN "post" ELSE "archive"]
      BY <1>3, <2>3 DEF Begin, Goto
    <3>2. ASSUME NEW u \in Statuses PROVE Ordered(u) \/ u = t => Ordered(u)'
      <4>1. Len(began') = Len(began) + 1 /\ Len(began) \in Nat /\ began'[Len(began) + 1] = t
            /\ \A i \in 1 .. Len(began) : began'[i] = began[i]
        BY <1>1, <3>1 DEF TypeOK
      <4>. QED  BY <4>1 DEF Ordered
    <3>3. ActiveCard # NoCard => card[ActiveCard] # "none"
      BY ActiveCardIsActive DEF Active
    <3>4. /\ pc'[t] = IF ActiveCard = NoCard THEN "post" ELSE "archive"
          /\ cur'[t] = ActiveCard
          /\ \A u \in Statuses \ {t} : pc'[u] = pc[u] /\ cur'[u] = cur[u]
      BY <1>1, <3>1 DEF TypeOK
    <3>5. ASSUME NEW u \in Statuses PROVE SyncOK(u)' /\ RowOK(u)'
      <4>1. CASE u = t
        BY <1>1, <2>1, <3>1, <3>2, <3>3, <3>4, <4>1 DEF SyncOK, RowOK
      <4>2. CASE u # t
        BY <1>1, <2>1, <3>1, <3>2, <3>4, <4>2 DEF SyncOK, RowOK
      <4>. QED  BY <4>1, <4>2
    <3>. QED  BY <2>1, <3>5, CardsStay
  <2>. QED  BY <2>2, <2>3
<1>4. ASSUME NEW t \in Statuses, ArchiveOld(t) PROVE Kept
  <2>1. /\ pc[t] = "archive" /\ pc' = [pc EXCEPT ![t] = "post"]
        /\ tg' = [tg EXCEPT ![cur[t]] = "archived"] \/ UNCHANGED tg
        /\ failed' = failed \/ failed'
        /\ UNCHANGED <<status, passed, cur, want, off, began, card, refresh>>
    BY <1>4 DEF ArchiveOld, Goto
  <2>2. card[cur[t]] # "none" /\ cur[t] \in Statuses
    BY <1>1, <2>1 DEF SyncOK, TypeOK
  <2>3. \A u \in Statuses : /\ card[u] = "none" => tg'[u] = tg[u]
                            /\ tg[u] # "none" <=> tg'[u] # "none"
    BY <1>1, <2>1, <2>2 DEF RowOK, TypeOK
  <2>4. pc'[t] = "post" /\ \A u \in Statuses \ {t} : pc'[u] = pc[u]
    BY <1>1, <2>1 DEF TypeOK
  <2>5. ASSUME NEW u \in Statuses PROVE SyncOK(u)' /\ RowOK(u)'
    <3>1. CASE u = t
      BY <1>1, <2>1, <2>3, <2>4, <3>1 DEF SyncOK, RowOK, Ordered
    <3>2. CASE u # t
      BY <1>1, <2>1, <2>3, <2>4, <3>2 DEF SyncOK, RowOK, Ordered
    <3>. QED  BY <3>1, <3>2
  <2>. QED  BY <2>1, <2>5, CardsStay
<1>5. ASSUME NEW t \in Statuses, PostCard(t) PROVE Kept
  <2>1. /\ pc[t] = "post" /\ pc' = [pc EXCEPT ![t] = "posted"] /\ tg' = [tg EXCEPT ![t] = "live"]
        /\ UNCHANGED <<status, passed, cur, want, off, began, card, refresh, failed>>
    BY <1>5 DEF PostCard, Goto
  <2>2. /\ pc'[t] = "posted" /\ tg'[t] = "live"
        /\ \A u \in Statuses \ {t} : pc'[u] = pc[u] /\ tg'[u] = tg[u]
    BY <1>1, <2>1 DEF TypeOK
  <2>3. ASSUME NEW u \in Statuses PROVE SyncOK(u)' /\ RowOK(u)'
    <3>1. CASE u = t
      BY <1>1, <2>1, <2>2, <3>1 DEF SyncOK, RowOK, Ordered
    <3>2. CASE u # t
      BY <1>1, <2>1, <2>2, <3>2 DEF SyncOK, RowOK, Ordered
    <3>. QED  BY <3>1, <3>2
  <2>. QED  BY <2>1, <2>3, CardsStay
<1>6. ASSUME NEW t \in Statuses, SelectActive(t) \/ Deactivate(t) \/ InsertActive(t) PROVE Kept
  <2>1. /\ UNCHANGED <<status, passed, cur, began, card, tg, refresh, failed>>
        /\ pc[t] \in {"posted", "updating", "updated"}
    BY <1>6 DEF SelectActive, Deactivate, InsertActive
  <2>2. PICK p \in {"updating", "updated", "inserted"} : pc' = [pc EXCEPT ![t] = p]
    BY <1>6 DEF SelectActive, Deactivate, InsertActive, Goto
  <2>3. pc'[t] \in {"updating", "updated", "inserted"} /\ \A u \in Statuses \ {t} : pc'[u] = pc[u]
    BY <1>1, <2>2 DEF TypeOK
  <2>4. UNCHANGED off \/ off' = [off EXCEPT ![t] = want[t] \cap Active]
    BY <1>6 DEF SelectActive, Deactivate, InsertActive
  <2>5. \A u \in Statuses : \A v \in off'[u] : v \in off[u] \/ v \in Active
    BY <1>1, <2>4 DEF TypeOK
  <2>6. ASSUME NEW u \in Statuses PROVE SyncOK(u)' /\ RowOK(u)'
    <3>1. \A v \in off'[u] : card'[v] # "none"
      BY <1>1, <2>1, <2>5 DEF SyncOK, Active
    <3>2. CASE u = t
      BY <1>1, <2>1, <2>3, <3>1, <3>2 DEF SyncOK, RowOK, Ordered
    <3>3. CASE u # t
      BY <1>1, <2>1, <2>3, <3>1, <3>3 DEF SyncOK, RowOK, Ordered
    <3>. QED  BY <3>2, <3>3
  <2>. QED  BY <2>1, <2>6, CardsStay
<1>7. ASSUME NEW t \in Statuses, CommitCards(t) PROVE Kept
  <2>1. pc[t] = "inserted" /\ Close(t) /\ UNCHANGED <<status, passed, tg, refresh, failed>>
    BY <1>7 DEF CommitCards
  <2>2. t \notin off[t]
    BY <1>1, <2>1 DEF SyncOK, RowOK
  <2>3. /\ card'[t] = "active" /\ \A u \in off[t] : u \in Statuses => card'[u] = "inactive"
        /\ \A u \in Statuses \ {t} : u \notin off[t] => card'[u] = card[u]
    BY <1>7, <2>2 DEF CommitCards
  <2>4. \A u \in Statuses : card[u] # "none" => card'[u] # "none"
    BY <2>3
  <2>5. \A u \in Statuses \ {t} : card[u] = "none" => card'[u] = "none"
    BY <1>1, <2>3 DEF SyncOK
  <2>6. ASSUME NEW u \in Statuses PROVE SyncOK(u)' /\ RowOK(u)'
    <3>1. /\ cur'[u] # NoCard => card'[cur'[u]] # "none"
          /\ \A v \in off'[u] : card'[v] # "none"
      <4>1. cur'[u] \in {cur[u], NoCard} /\ off'[u] \in {off[u], {}}
        BY <1>1, <2>1, CloseFacts
      <4>2. cur[u] \in Statuses \cup {NoCard} /\ off[u] \subseteq Statuses
        BY <1>1 DEF TypeOK
      <4>3. /\ cur[u] # NoCard => card[cur[u]] # "none"
            /\ \A v \in off[u] : card[v] # "none"
        BY <1>1 DEF SyncOK
      <4>. QED  BY <2>4, <4>1, <4>2, <4>3
    <3>2. CASE u = t
      BY <1>1, <2>1, <2>3, <3>1, <3>2, CloseFacts DEF SyncOK, RowOK, Ordered
    <3>3. CASE u # t
      BY <1>1, <2>1, <2>4, <2>5, <3>1, <3>3, CloseFacts DEF SyncOK, RowOK, Ordered
    <3>. QED  BY <3>2, <3>3
  <2>7. ActiveCardIsNotLost'
    BY <2>3 DEF ActiveCardIsNotLost, Active
  <2>8. refresh' # NoCard => card'[refresh'] # "none"
    BY <1>1, <2>1, <2>4 DEF CardsInv, TypeOK
  <2>. QED  BY <1>1, <2>1, <2>6, <2>7, <2>8
<1>8. ASSUME NEW t \in Statuses, PostFails(t) \/ SyncFails(t) PROVE Kept
  <2>1. /\ Close(t) /\ failed' /\ UNCHANGED <<status, passed, card, tg, refresh>> /\ t \in Running
    BY <1>8 DEF PostFails, SyncFails, Running
  <2>2. ASSUME NEW u \in Statuses PROVE SyncOK(u)' /\ RowOK(u)'
    <3>1. CASE u = t
      BY <1>1, <2>1, <3>1, CloseFacts DEF SyncOK, RowOK, Ordered, Running
    <3>2. CASE u # t
      BY <1>1, <2>1, <3>2, CloseFacts DEF SyncOK, RowOK, Ordered
    <3>. QED  BY <3>1, <3>2
  <2>. QED  BY <2>1, <2>2, CardsStay
<1>9. ASSUME RefreshRead PROVE Kept
  <2>1. UNCHANGED <<status, passed, syncs, card, tg, failed>> /\ refresh' = ActiveCard /\ ActiveCard # NoCard
    BY <1>9 DEF RefreshRead
  <2>2. card[ActiveCard] # "none"
    BY <2>1, ActiveCardIsActive DEF Active
  <2>. QED  BY <1>1, <2>1, <2>2 DEF syncs, SyncOK, RowOK, Ordered, ActiveCardIsNotLost, Active
<1>10. ASSUME RefreshEdit PROVE Kept
  <2>1. /\ UNCHANGED <<status, passed, syncs, card, failed>> /\ refresh' = NoCard
        /\ tg' = tg \/ tg' = [tg EXCEPT ![refresh] = "live"]
        /\ refresh \in Statuses /\ card[refresh] # "none"
    BY <1>1, <1>10 DEF RefreshEdit, CardsInv, TypeOK
  <2>2. \A u \in Statuses : tg[u] # "none" <=> tg'[u] # "none"
    BY <1>1, <2>1 DEF RowOK, TypeOK
  <2>. QED  BY <1>1, <2>1, <2>2 DEF syncs, SyncOK, RowOK, Ordered, ActiveCardIsNotLost, Active
<1>11. ASSUME UNCHANGED vars PROVE Kept
  BY <1>1, <1>11 DEF vars, syncs, SyncOK, RowOK, Ordered, ActiveCardIsNotLost, Active, CardsInv
<1>12. Kept
  BY <1>2, <1>3, <1>4, <1>5, <1>6, <1>7, <1>8, <1>9, <1>10, <1>11 DEF Next, Sync
<1>. QED  BY <1>0, <1>12 DEF CardsInv

LEMMA CardsInit == Init => CardsInv
<1>. SUFFICES ASSUME Init PROVE CardsInv
  OBVIOUS
<1>1. TypeOK
  BY TypeInit
<1>2. \A t \in Statuses : /\ pc[t] = "idle" /\ tg[t] = "none" /\ card[t] = "none" /\ cur[t] = NoCard
                          /\ off[t] = {}
  BY DEF Init
<1>3. Before(status, passed) /\ refresh = NoCard
  BY DEF Init, Before
<1>. QED  BY <1>1, <1>2, <1>3 DEF CardsInv, SyncOK, RowOK, ActiveCardIsNotLost

-----------------------------------------------------------------------------
(* One sync at a time                                                      *)

\* Of one sync at a time, none is under way but that of the last transition.
LEMMA OnlyOne ==
    ASSUME SerialInv, ~ overlapped, ~ failed, NEW t \in Running
    PROVE  t = status /\ Alone(t) /\ Running = {t} /\ refresh = NoCard
BY DEF SerialInv

\* A sync goes on, and then it is the only one still.
LEMMA AloneGoesOn ==
    ASSUME CardsInv, SerialInv, NEW t \in Running, ~ overlapped, ~ failed,
           UNCHANGED <<status, seen, refresh>>,
           pc'[t] \notin {"idle", "done"}, \A u \in Statuses \ {t} : pc'[u] = pc[u],
           Alone(t)'
    PROVE  SerialInv'
<1>1. t = status /\ Running = {t} /\ refresh = NoCard /\ t \in Statuses
  BY OnlyOne DEF Running
<1>2. Running' = {t}
  BY <1>1 DEF Running
<1>3. \A u \in Statuses : pc'[u] # "idle" => pc[u] # "idle"
  BY <1>1 DEF Running
<1>. QED  BY <1>1, <1>2, <1>3 DEF SerialInv

LEMMA SerialStep == ASSUME CardsInv, SerialInv, [Next]_vars PROVE SerialInv'
<1>. SUFFICES ASSUME ~ overlapped', ~ failed' PROVE SerialInv'
  BY DEF SerialInv
<1>0. /\ TypeOK /\ \A t \in Statuses : SyncOK(t) /\ RowOK(t)
      /\ Before(status, passed) /\ "absent" \notin Statuses /\ NoCard \notin Statuses
  BY CardsAssumption DEF CardsInv, Statuses
<1>1. ASSUME NEW t \in Statuses, Transition(t) PROVE SerialInv'
  <2>1. /\ status' = t /\ status \in Enters[t] /\ Quiet /\ ~ overlapped /\ ~ failed
        /\ pc' = [pc EXCEPT ![t] = "ready"] /\ seen' = [seen EXCEPT ![t] = t]
        /\ UNCHANGED <<card, tg, refresh>>
    BY <1>1 DEF Transition, Starts, Quiet
  <2>2. t \notin passed \cup {status}
    BY <1>0, <2>1, EntersOnce
  <2>3. /\ pc'[t] = "ready" /\ seen'[t] = t
        /\ \A u \in Statuses \ {t} : pc'[u] = pc[u] /\ seen'[u] = seen[u]
    BY <1>0, <2>1 DEF TypeOK
  <2>4. Running = {} /\ refresh = NoCard
    BY <2>1 DEF Quiet
  <2>5. Running' = {t}
    BY <2>3, <2>4 DEF Running
  <2>6. Live' = Live /\ Active' = Active
    BY <2>1 DEF Live, Active
  <2>7. Live = Active /\ Active = {status} \ {"absent"}
    BY <2>1, <2>4 DEF SerialInv
  <2>8. t = "new" => status = "absent"
    BY <2>1, EntersFacts
  <2>9. Alone(t)'
    <3>1. status \in Statuses \cup {"absent"}
      BY <1>0 DEF TypeOK
    <3>2. Active = {} \/ \E c \in Statuses : Active = {c}
      BY <2>7, <3>1
    <3>. QED  BY <2>3, <2>6, <2>7, <2>8, <3>2 DEF Alone
  <2>10. \A u \in Statuses : pc'[u] # "idle" => seen'[u] = u
    BY <2>1, <2>3 DEF SerialInv
  <2>. QED  BY <2>1, <2>3, <2>4, <2>5, <2>9, <2>10 DEF SerialInv
<1>2. ASSUME NEW t \in Statuses, Begin(t) PROVE SerialInv'
  <2>1. pc[t] = "ready" /\ UNCHANGED <<status, passed, seen, card, tg, refresh, overlapped, failed>>
    BY <1>2 DEF Begin
  <2>2. t \in Running /\ ~ overlapped /\ ~ failed
    BY <2>1 DEF Running
  <2>3. t = status /\ Alone(t)
    BY <2>2, OnlyOne
  <2>4. /\ Live = Active /\ (t = "new" => Active = {})
        /\ Active = {} \/ \E c \in Statuses : Active = {c}
    BY <2>1, <2>3 DEF Alone
  <2>5. Active # {} => ActiveCard # NoCard /\ Active = {ActiveCard}
    BY <2>4, ActiveCardIsActive
  <2>6. Active = {} <=> ActiveCard = NoCard
    BY <2>5, ActiveCardIsActive
  <2>7. ActiveCard # NoCard => t # "new" /\ seen[ActiveCard] # seen[t]
    <3>. SUFFICES ASSUME ActiveCard # NoCard PROVE t # "new" /\ seen[ActiveCard] # seen[t]
      OBVIOUS
    <3>1. ActiveCard \in Active /\ ActiveCard \in Statuses
      BY <2>6, ActiveCardIsActive DEF Active
    <3>2. pc[ActiveCard] = "done"
      BY <1>0, <3>1 DEF RowOK, Active
    <3>3. seen[ActiveCard] = ActiveCard /\ seen[t] = t
      BY <2>1, <2>2, <3>1, <3>2 DEF SerialInv
    <3>. QED  BY <2>1, <2>4, <2>6, <3>2, <3>3
  <2>8. /\ cur' = [cur EXCEPT ![t] = ActiveCard]
        /\ pc' = [pc EXCEPT ![t] = IF ActiveCard = NoCard THEN "post" ELSE "archive"]
    BY <1>2, <2>7 DEF Begin, Goto
  <2>9. /\ cur'[t] = ActiveCard /\ pc'[t] = IF ActiveCard = NoCard THEN "post" ELSE "archive"
        /\ \A u \in Statuses \ {t} : pc'[u] = pc[u]
    BY <1>0, <2>8 DEF TypeOK
  <2>10. Live' = Live
    BY <2>1 DEF Live
  <2>11. Alone(t)'
    BY <2>4, <2>5, <2>6, <2>9, <2>10 DEF Alone
  <2>. QED  BY <2>1, <2>2, <2>9, <2>11, AloneGoesOn
<1>3. ASSUME NEW t \in Statuses, ArchiveOld(t) PROVE SerialInv'
  <2>1. /\ pc[t] = "archive" /\ pc' = [pc EXCEPT ![t] = "post"] /\ tg' = [tg EXCEPT ![cur[t]] = "archived"]
        /\ UNCHANGED <<status, seen, card, refresh, overlapped, failed>>
    BY <1>3 DEF ArchiveOld, Goto
  <2>2. t \in Running /\ ~ overlapped /\ ~ failed
    BY <2>1 DEF Running
  <2>3. Live = {cur[t]}
    BY <2>1, <2>2, OnlyOne DEF Alone
  <2>4. pc'[t] = "post" /\ \A u \in Statuses \ {t} : pc'[u] = pc[u]
    BY <1>0, <2>1 DEF TypeOK
  <2>5. Live' = {}
    BY <1>0, <2>1, <2>3 DEF Live, TypeOK
  <2>6. Alone(t)'
    BY <2>4, <2>5 DEF Alone
  <2>. QED  BY <2>1, <2>2, <2>4, <2>6, AloneGoesOn
<1>4. ASSUME NEW t \in Statuses, PostCard(t) PROVE SerialInv'
  <2>1. /\ pc[t] = "post" /\ pc' = [pc EXCEPT ![t] = "posted"] /\ tg' = [tg EXCEPT ![t] = "live"]
        /\ UNCHANGED <<status, seen, card, refresh, overlapped, failed>>
    BY <1>4 DEF PostCard, Goto
  <2>2. t \in Running /\ ~ overlapped /\ ~ failed
    BY <2>1 DEF Running
  <2>3. Live = {}
    BY <2>1, <2>2, OnlyOne DEF Alone
  <2>4. pc'[t] = "posted" /\ \A u \in Statuses \ {t} : pc'[u] = pc[u]
    BY <1>0, <2>1 DEF TypeOK
  <2>5. Live' = {t}
    BY <1>0, <2>1, <2>3 DEF Live, TypeOK
  <2>6. Alone(t)'
    BY <2>4, <2>5 DEF Alone
  <2>. QED  BY <2>1, <2>2, <2>4, <2>6, AloneGoesOn
<1>5. ASSUME NEW t \in Statuses, SelectActive(t) \/ Deactivate(t) \/ InsertActive(t) PROVE SerialInv'
  <2>1. /\ pc[t] \in {"posted", "updating", "updated"}
        /\ UNCHANGED <<status, seen, card, tg, refresh, overlapped, failed>>
    BY <1>5 DEF SelectActive, Deactivate, InsertActive
  <2>2. t \in Running /\ ~ overlapped /\ ~ failed
    BY <2>1 DEF Running
  <2>3. Alone(t) /\ Live' = Live /\ Active' = Active
    BY <2>1, <2>2, OnlyOne DEF Live, Active
  <2>4. CASE SelectActive(t)
    <3>1. pc[t] = "posted" /\ pc' = [pc EXCEPT ![t] = "updating"] /\ want' = [want EXCEPT ![t] = Active]
      BY <2>4 DEF SelectActive, Goto
    <3>2. pc'[t] = "updating" /\ want'[t] = Active /\ \A u \in Statuses \ {t} : pc'[u] = pc[u]
      BY <1>0, <3>1 DEF TypeOK
    <3>3. Alone(t)'
      BY <2>3, <3>1, <3>2 DEF Alone
    <3>. QED  BY <2>1, <2>2, <3>2, <3>3, AloneGoesOn
  <2>5. CASE Deactivate(t)
    <3>1. /\ pc[t] = "updating" /\ pc' = [pc EXCEPT ![t] = "updated"]
          /\ off' = [off EXCEPT ![t] = want[t] \cap Active]
      BY <2>5 DEF Deactivate, Goto
    <3>2. /\ pc'[t] = "updated" /\ off'[t] = want[t] \cap Active
          /\ \A u \in Statuses \ {t} : pc'[u] = pc[u]
      BY <1>0, <3>1 DEF TypeOK
    <3>3. Alone(t)'
      BY <2>3, <3>1, <3>2 DEF Alone
    <3>. QED  BY <2>1, <2>2, <3>2, <3>3, AloneGoesOn
  <2>6. CASE InsertActive(t)
    <3>1. pc[t] = "updated" /\ pc' = [pc EXCEPT ![t] = "inserted"] /\ UNCHANGED off
      BY <2>6 DEF InsertActive, Goto
    <3>2. pc'[t] = "inserted" /\ \A u \in Statuses \ {t} : pc'[u] = pc[u]
      BY <1>0, <3>1 DEF TypeOK
    <3>3. Alone(t)'
      BY <2>3, <3>1, <3>2 DEF Alone
    <3>. QED  BY <2>1, <2>2, <3>2, <3>3, AloneGoesOn
  <2>. QED  BY <1>5, <2>4, <2>5, <2>6
<1>6. ASSUME NEW t \in Statuses, CommitCards(t) PROVE SerialInv'
  <2>1. /\ pc[t] = "inserted" /\ Close(t) /\ UNCHANGED <<status, seen, tg, refresh, overlapped, failed>>
    BY <1>6 DEF CommitCards
  <2>2. t \in Running /\ ~ overlapped /\ ~ failed
    BY <2>1 DEF Running
  <2>3. t = status /\ Running = {t} /\ refresh = NoCard /\ Live = {t} /\ off[t] = Active
    BY <2>1, <2>2, OnlyOne DEF Alone
  <2>4. t \notin off[t]
    BY <1>0, <2>1 DEF SyncOK, RowOK
  <2>5. \A u \in Statuses : card'[u] = "active" <=> u = t
    <3>1. /\ card'[t] = "active" /\ \A u \in off[t] : u \in Statuses => card'[u] = "inactive"
          /\ \A u \in Statuses \ {t} : u \notin off[t] => card'[u] = card[u]
      BY <1>6, <2>4 DEF CommitCards
    <3>. QED  BY <2>3, <2>4, <3>1 DEF Active
  <2>6. Live' = {t} /\ Active' = {t}
    BY <2>1, <2>3, <2>5 DEF Live, Active
  <2>7. Running' = {}
    BY <1>0, <2>1, <2>3, CloseFacts DEF Running
  <2>8. pc'[t] = "done" /\ \A u \in Statuses : pc'[u] # "idle" => pc[u] # "idle"
    BY <1>0, <2>1, CloseFacts
  <2>. QED  BY <1>0, <2>1, <2>2, <2>3, <2>6, <2>7, <2>8 DEF SerialInv
<1>7. ASSUME NEW t \in Statuses PROVE ~ PostFails(t) /\ ~ SyncFails(t)
  BY DEF PostFails, SyncFails
<1>8. ASSUME RefreshRead PROVE SerialInv'
  <2>1. /\ Quiet /\ ~ overlapped /\ ~ failed /\ ActiveCard # NoCard /\ refresh' = ActiveCard
        /\ UNCHANGED <<status, syncs, card, tg>>
    BY <1>8 DEF RefreshRead, Starts
  <2>2. Running = {} /\ Running' = {} /\ Live' = Live /\ Active' = Active
    BY <2>1 DEF Quiet, Running, Live, Active, syncs
  <2>3. ActiveCard = status
    BY <2>1, <2>2, ActiveCardIsActive DEF SerialInv
  <2>. QED  BY <2>1, <2>2, <2>3 DEF SerialInv, syncs
<1>9. ASSUME RefreshEdit PROVE SerialInv'
  <2>1. /\ refresh # NoCard /\ refresh' = NoCard /\ ~ overlapped /\ ~ failed
        /\ UNCHANGED <<status, syncs, card>> /\ (tg' = tg \/ tg' = [tg EXCEPT ![refresh] = "live"])
    BY <1>9 DEF RefreshEdit
  <2>2. Running = {} /\ refresh = status /\ Live = Active /\ Active = {status} \ {"absent"}
    BY <2>1 DEF SerialInv
  <2>3. Live' = Live /\ Active' = Active /\ Running' = {}
    BY <1>0, <2>1, <2>2 DEF Live, Active, Running, syncs, TypeOK
  <2>. QED  BY <2>1, <2>2, <2>3 DEF SerialInv, syncs
<1>10. ASSUME UNCHANGED vars PROVE SerialInv'
  BY <1>10 DEF vars, syncs, SerialInv, Alone, Running, Live, Active
<1>. QED  BY <1>1, <1>2, <1>3, <1>4, <1>5, <1>6, <1>7, <1>8, <1>9, <1>10 DEF Next, Sync

LEMMA SerialInit == Init => SerialInv
<1>. SUFFICES ASSUME Init PROVE SerialInv
  OBVIOUS
<1>1. Running = {} /\ Live = {} /\ Active = {} /\ status = "absent" /\ refresh = NoCard
  BY DEF Init, Running, Live, Active
<1>2. \A t \in Statuses : pc[t] = "idle"
  BY DEF Init
<1>. QED  BY <1>1, <1>2 DEF SerialInv

-----------------------------------------------------------------------------
(* Theorems                                                                *)

\* For any number of syncs and refreshes at the same time and any failures: what a sync has
\* read is of rows that are there, and every row is of a sync that has ended.
THEOREM CardsInvariant == Spec => []CardsInv
BY CardsInit, CardsStep, PTL DEF Spec

\* Inv: a lead that has had an active card has one, whichever syncs overlap or fail, and
\* every row its message (set_active_card_message, _move_card).
THEOREM ActiveCardStays == Spec => []Inv
<1>1. CardsInv => Inv
  <2>. SUFFICES ASSUME CardsInv PROVE RowsMatchMessages
    BY DEF CardsInv, Inv
  <2>1. ASSUME NEW t \in Statuses, Quiet, ~ failed, tg[t] # "none" PROVE card[t] # "none"
    <3>1. pc[t] = "idle" \/ pc[t] = "done"
      BY <2>1 DEF Quiet, Running
    <3>. QED  BY <2>1, <3>1 DEF CardsInv, SyncOK, RowOK
  <2>. QED  BY <2>1 DEF CardsInv, RowOK, RowsMatchMessages
<1>. QED  BY <1>1, CardsInvariant, PTL

\* SerialCardInPlace: as long as syncs and refreshes do not overlap and nothing fails, the
\* one card with buttons is in the topic of the status and is the active row
\* (sync_lead_after_transition, refresh_card).
THEOREM CardIsInPlace == Spec => []SerialCardInPlace
<1>1. SerialInv /\ CardsInv => SerialCardInPlace
  <2>. SUFFICES ASSUME SerialInv, CardsInv, Quiet, status # "absent", ~ overlapped, ~ failed PROVE CardInPlace
    BY DEF SerialCardInPlace
  <2>1. Live = {status} /\ Active = {status} /\ status \in Statuses
    BY DEF SerialInv, Quiet, CardsInv, TypeOK
  <2>2. seen[status] = status
    BY <2>1 DEF SerialInv
  <2>. QED  BY <2>1, <2>2 DEF CardInPlace, Live
<1>. QED  BY <1>1, CardsInit, CardsStep, SerialInit, SerialStep, PTL DEF Spec

-----------------------------------------------------------------------------
(* The form of a manual lead                                               *)

Places == {"idle", "clear", "begin", "guard", "check", "store", "advance", "forget", "post",
           "remember", "offer", "read", "create", "cancel", "leave"}
Values == {NoField} \cup Forms
Data   == [Fields -> Values]
Ops    == [at : Places, field : Fields \cup {"none"}, form : Values,
           prompt : Prompts \cup {NoPrompt}, data : Data, offer : Data]

\* Where a handler fills the form in, and where the context is between two of its states.
Filling == {"begin", "store", "advance", "forget", "post", "remember"}
Between == Filling \cup {"offer", "leave"}

\* What a handler has at a place, whatever runs beside it.
Sound(h) ==
    /\ op[h].at = "idle" => op[h] = Idle
    /\ op[h].at = "guard" => /\ op[h].prompt \in Prompts
                             /\ op[h].field # "none" => op[h].form = op[h].prompt[1]
    /\ op[h].at \in {"check", "store", "advance", "forget"} =>
          op[h].field \in Fields /\ op[h].form \in Forms
    /\ op[h].at \in {"clear", "begin"} => op[h].field = "none"
    /\ op[h].at = "begin" => op[h].form \in Forms
    /\ op[h].at \in {"post", "remember"} => op[h].form \in Forms /\ op[h].field # Last(Asks)
    /\ op[h].at = "remember" => Question(h) \in asked
    /\ op[h].at = "create" => Complete(op[h].data)
    /\ op[h].offer # NoData => op[h].at \in {"read", "create", "cancel", "leave"}

Clearing == {h \in Handlers : op[h].at = "clear"}

FormTypeInv ==
    /\ FormTypeOK
    /\ op \in [Handlers -> Ops]
    /\ \A h \in Handlers : Sound(h) /\ op[h].form <= forms
    /\ \A p \in asked : p[1] <= forms
    /\ forms + Cardinality(Clearing) <= MaxForms
    /\ count \in [Forms -> Nat]

\* All that was typed was typed for one form.
OneForm(d) == d \in Data /\ \E f \in Forms : d["name"] = f /\ \A x \in Fields : d[x] \in {NoField, f}

\* A handler works on the form begun last, and knows what the state is.
Current(h) ==
    /\ op[h].data["name"] \in 0 .. forms
    /\ op[h].at \in Filling \cup {"check"} => op[h].form = forms
    /\ op[h].at = "create" => OneForm(op[h].data)
    /\ op[h].at = "forget" => step = After(op[h].field)
    /\ op[h].at \in {"post", "remember"} => step = Question(h)[2]
    /\ op[h].at = "offer" => step = "confirm"

FormSerialInv ==
    overlap # "any" =>
        /\ \A g \in Handlers, h \in Handlers :
              g # h /\ op[g] # Idle /\ op[h] # Idle => overlap = "presses" /\ op[g].offer # NoData
        /\ \A x \in Fields : data[x] \in {NoField, forms}
        /\ prompt # NoPrompt => prompt[1] = forms
        /\ \A h \in Handlers : Current(h)
        /\ \A l \in leads : OneForm(l.data)

\* The handlers that are about to create a lead of a form, and those that may have.
Creating(f) == {h \in Handlers : op[h].at = "create" /\ op[h].data["name"] = f}
Created(f)  == {h \in Handlers : op[h].at \in {"cancel", "leave"} /\ op[h].data["name"] = f}

\* The context holds a form, or may come to.
Open(f) ==
    \/ f > forms \/ data["name"] = f
    \/ f = forms /\ (step \in Fields \/ prompt # NoPrompt \/ \E h \in Handlers : op[h].at \in Filling)

\* The leads that a form may make.
Bound == IF overlap = "none" THEN 1 ELSE Cardinality(Handlers)

\* Who has created a lead of an open form is still busy with clearing the context.
CountInv ==
    overlap # "any" /\ fails = 0 =>
        \A f \in Forms : /\ count[f] + Cardinality(Creating(f)) <= Bound
                         /\ Open(f) => count[f] <= Cardinality(Created(f))

Awaited ==
    /\ step \in Fields => prompt[2] = step
    /\ step = "confirm" => data \in offers

AskedInv ==
    overlap # "any" /\ fails = 0 /\ (\A h \in Handlers : op[h].at \notin Between) => Awaited

FormIInv == FormTypeInv /\ FormSerialInv /\ CountInv /\ AskedInv

-----------------------------------------------------------------------------
(* The fields                                                              *)

LEMMA FieldFacts ==
    /\ Fields = {"name", "phone", "email", "service", "comment"}
    /\ Last(Asks) = "comment" /\ Head(Asks) = "name" /\ After("comment") = "confirm"
    /\ \A f \in Fields \ {"comment"} : After(f) \in Fields
    /\ Optional \subseteq Fields /\ "name" \notin Optional /\ "comment" \notin Optional
    /\ "confirm" \notin Fields /\ "none" \notin Fields /\ "other" \notin Fields
<1>1. Len(Asks) = 5 /\ Asks[1] = "name" /\ Asks[2] = "phone" /\ Asks[3] = "email"
      /\ Asks[4] = "service" /\ Asks[5] = "comment" /\ DOMAIN Asks = 1 .. 5
  BY DEF Asks
<1>2. Fields = {"name", "phone", "email", "service", "comment"}
  BY <1>1 DEF Fields, Range
<1>3. Last(Asks) = "comment" /\ Head(Asks) = "name"
  BY <1>1 DEF Last, Asks
<1>4. ASSUME NEW f \in Fields \ {"comment"} PROVE After(f) \in Fields
  <2>1. \E i \in 2 .. Len(Asks) : Asks[i - 1] = f
    <3>1. f = Asks[2 - 1] \/ f = Asks[3 - 1] \/ f = Asks[4 - 1] \/ f = Asks[5 - 1]
      BY <1>1, <1>2
    <3>. QED  BY <1>1, <3>1
  <2> DEFINE i == CHOOSE i \in 2 .. Len(Asks) : Asks[i - 1] = f
  <2>2. i \in 2 .. 5
    BY <1>1, <2>1
  <2>3. After(f) = Asks[i]
    BY <1>3 DEF After
  <2> HIDE DEF i
  <2>. QED  BY <1>1, <2>2, <2>3 DEF Fields, Range
<1>5. After("comment") = "confirm"
  BY <1>3 DEF After
<1>. QED  BY <1>2, <1>3, <1>4, <1>5 DEF Optional

LEMMA ValueFacts ==
    /\ NoPrompt \notin Prompts /\ NoData \in Data /\ \A f \in Fields : NoData[f] = NoField
    /\ \A p \in Prompts : p[1] \in Forms /\ p[2] \in Fields /\ p = <<p[1], p[2]>>
    /\ NoField \notin Forms /\ NoField \in Values /\ Forms \subseteq Values /\ Values \subseteq Nat
    /\ Forms \subseteq Nat
BY FormAssumption, FieldFacts DEF NoPrompt, Prompts, NoData, Data, Values, Forms, NoField

LEMMA NoName == ASSUME NEW n \in Nat PROVE NoData["name"] \in 0 .. n
BY FieldFacts DEF NoData, NoField

LEMMA IdleFacts ==
    /\ Idle \in Ops /\ Idle.at = "idle" /\ Idle.field = "none" /\ Idle.form = 0
    /\ Idle.prompt = NoPrompt /\ Idle.data = NoData /\ Idle.offer = NoData
BY ValueFacts DEF Idle, Ops, Places, NoField

-----------------------------------------------------------------------------
(* What a step does to the handlers                                        *)

OthersStay(h) == \A g \in Handlers \ {h} : op'[g] = op[g]

\* A handler moves on with what it has.
Moves(h, at) ==
    /\ op'[h].at = at /\ op'[h].field = op[h].field /\ op'[h].form = op[h].form
    /\ op'[h].prompt = op[h].prompt /\ op'[h].data = op[h].data /\ op'[h].offer = op[h].offer

LEMMA GoesFacts ==
    ASSUME op \in [Handlers -> Ops], NEW h \in Handlers, NEW at \in Places, Goes(h, at)
    PROVE  op' \in [Handlers -> Ops] /\ OthersStay(h) /\ Moves(h, at)
<1>1. op[h] \in Ops
  OBVIOUS
<1> DEFINE o == [op[h] EXCEPT !.at = at]
<1>2. o \in Ops /\ o.at = at /\ o.field = op[h].field /\ o.form = op[h].form
      /\ o.prompt = op[h].prompt /\ o.data = op[h].data /\ o.offer = op[h].offer
  BY <1>1 DEF Ops
<1>3. op' = [op EXCEPT ![h] = o]
  BY DEF Goes
<1> HIDE DEF o
<1>. QED  BY <1>2, <1>3 DEF OthersStay, Moves

LEMMA EndsFacts ==
    ASSUME op \in [Handlers -> Ops], NEW h \in Handlers, Ends(h)
    PROVE  op' \in [Handlers -> Ops] /\ OthersStay(h) /\ op'[h] = Idle
BY IdleFacts DEF Ends, OthersStay

LEMMA BeginsFacts ==
    ASSUME op \in [Handlers -> Ops], NEW h \in Handlers, NEW o \in Ops, Begins(h, o)
    PROVE  /\ op' \in [Handlers -> Ops] /\ OthersStay(h) /\ op[h] = Idle /\ op'[h] = o
           /\ overlap \in {"none", "presses", "any"} => overlap' \in {"none", "presses", "any"}
           /\ overlap' # "any" =>
                 /\ overlap # "any"
                 /\ \/ overlap' = overlap /\ \A g \in Handlers : op[g] = Idle
                    \/ overlap' = "presses" /\ \A g \in Handlers : op'[g] = Idle \/ op'[g].offer # NoData
<1>1. op' = [op EXCEPT ![h] = o] /\ op[h] = Idle
  BY DEF Begins
<1>2. op' \in [Handlers -> Ops] /\ OthersStay(h) /\ op'[h] = o
  BY <1>1 DEF OthersStay
<1>. QED  BY <1>1, <1>2 DEF Begins

LEMMA ClearFacts ==
    ASSUME op \in [Handlers -> Ops], NEW h \in Handlers, Clear(h), forms' \in Forms
    PROVE  /\ op' \in [Handlers -> Ops] /\ OthersStay(h) /\ op'[h].at = "begin" /\ op'[h].form = forms'
           /\ op'[h].field = op[h].field /\ op'[h].offer = op[h].offer /\ op'[h].data = op[h].data
<1> DEFINE o == [op[h] EXCEPT !.at = "begin", !.form = forms']
<1>1. o \in Ops /\ o.at = "begin" /\ o.form = forms' /\ o.field = op[h].field
      /\ o.offer = op[h].offer /\ o.data = op[h].data
  BY ValueFacts DEF Ops, Places
<1>2. op' = [op EXCEPT ![h] = o]
  BY DEF Clear
<1> HIDE DEF o
<1>. QED  BY <1>1, <1>2 DEF OthersStay

LEMMA SkipFacts ==
    ASSUME op \in [Handlers -> Ops], NEW h \in Handlers, CheckSkip(h), ~ Ends(h)
    PROVE  /\ op' \in [Handlers -> Ops] /\ OthersStay(h) /\ op'[h].at = "store" /\ step = op[h].field
           /\ op'[h].field = op[h].field /\ op'[h].form = op[h].form
           /\ op'[h].offer = op[h].offer /\ op'[h].data = op[h].data
<1> DEFINE o == [op[h] EXCEPT !.at = "store", !.prompt = NoPrompt]
<1>1. o \in Ops /\ o.at = "store" /\ o.field = op[h].field /\ o.form = op[h].form
      /\ o.offer = op[h].offer /\ o.data = op[h].data
  BY DEF Ops, Places
<1>2. op' = [op EXCEPT ![h] = o] /\ step = op[h].field
  BY DEF CheckSkip
<1> HIDE DEF o
<1>. QED  BY <1>1, <1>2 DEF OthersStay

LEMMA ReadFacts ==
    ASSUME op \in [Handlers -> Ops], data \in Data, NEW h \in Handlers, Read(h)
    PROVE  /\ op' \in [Handlers -> Ops] /\ OthersStay(h) /\ op'[h].data = data
           /\ op'[h].at = (IF Complete(data) THEN "create" ELSE "cancel")
           /\ op'[h].form = op[h].form /\ op'[h].offer = op[h].offer
<1> DEFINE o == [op[h] EXCEPT !.at = IF Complete(data) THEN "create" ELSE "cancel", !.data = data]
<1>1. o \in Ops /\ o.at = (IF Complete(data) THEN "create" ELSE "cancel") /\ o.data = data
      /\ o.form = op[h].form /\ o.offer = op[h].offer
  BY DEF Ops, Places
<1>2. op' = [op EXCEPT ![h] = o]
  BY DEF Read
<1> HIDE DEF o
<1>. QED  BY <1>1, <1>2 DEF OthersStay

\* What each handler begins with.
LEMMA BeginnersAreOps ==
    /\ [Idle EXCEPT !.at = "clear"] \in Ops /\ [Idle EXCEPT !.at = "cancel"] \in Ops
    /\ \A p \in Prompts : [Idle EXCEPT !.at = "guard", !.prompt = p] \in Ops
    /\ \A p \in Prompts, f \in Fields :
          [Idle EXCEPT !.at = "guard", !.field = f, !.form = p[1], !.prompt = p] \in Ops
    /\ \A n \in Forms, f \in Fields : [Idle EXCEPT !.at = "check", !.field = f, !.form = n] \in Ops
    /\ \A d \in Data : [Idle EXCEPT !.at = "read", !.offer = d] \in Ops
BY IdleFacts, ValueFacts DEF Ops, Places, Idle

-----------------------------------------------------------------------------
(* Types                                                                   *)

LEMMA ClearingFacts ==
    ASSUME FormTypeInv, NEW h \in Handlers, OthersStay(h), op'[h].at # "clear"
    PROVE  /\ Cardinality(Clearing) \in Nat /\ Cardinality(Clearing') \in Nat
           /\ Cardinality(Clearing') <= Cardinality(Clearing)
           /\ op[h].at = "clear" => Cardinality(Clearing') = Cardinality(Clearing) - 1
<1>1. IsFiniteSet(Clearing)
  BY FormAssumption, FS_Subset DEF Clearing
<1>2. Clearing' = Clearing \ {h} /\ (h \in Clearing <=> op[h].at = "clear")
  BY DEF Clearing, OthersStay
<1>3. /\ IsFiniteSet(Clearing \ {h}) /\ Cardinality(Clearing \ {h}) \in Nat /\ Cardinality(Clearing) \in Nat
      /\ Cardinality(Clearing \ {h}) = IF h \in Clearing THEN Cardinality(Clearing) - 1 ELSE Cardinality(Clearing)
  BY <1>1, FS_RemoveElement, FS_CardinalityType
<1>. QED  BY <1>2, <1>3

LEMMA TypeKept ==
    ASSUME FormTypeInv, NEW h \in Handlers, op' \in [Handlers -> Ops], OthersStay(h), Sound(h)',
           op'[h].form <= forms',
           asked \subseteq asked', \A p \in asked' : p[1] <= forms',
           step' \in Fields \cup {"none", "confirm", "other"}, data' \in Data,
           prompt' \in asked' \cup {NoPrompt}, asked' \subseteq Prompts, offers' \subseteq Data,
           forms' \in 0 .. MaxForms, fails' \in 0 .. MaxFails,
           overlap' \in {"none", "presses", "any"}, count' \in [Forms -> Nat],
           forms <= forms', forms' + Cardinality(Clearing') <= MaxForms
    PROVE  FormTypeInv'
<1>1. ASSUME NEW g \in Handlers PROVE Sound(g)'
  BY <1>1 DEF FormTypeInv, Sound, OthersStay, Question
<1>2. ASSUME NEW g \in Handlers PROVE op'[g].form <= forms'
  <2>1. CASE g # h
    <3>1. op'[g] = op[g] /\ op[g].form \in Nat /\ op[g].form <= forms
      BY <2>1, ValueFacts DEF OthersStay, FormTypeInv, Ops
    <3>2. forms \in Nat /\ forms' \in Nat
      BY FormAssumption DEF FormTypeInv, FormTypeOK
    <3>. QED  BY <3>1, <3>2
  <2>. QED  BY <2>1
<1>3. ASSUME NEW g \in Handlers, op'[g] # Idle
      PROVE  op'[g].at \in {"clear", "begin", "guard", "check", "store", "advance", "forget", "post",
                            "remember", "offer", "read", "create", "cancel", "leave"}
  BY <1>1, <1>3 DEF Ops, Places, Sound
<1>4. FormTypeOK'
  BY <1>3 DEF FormTypeOK, Data, Values
<1>. QED  BY <1>1, <1>2, <1>4 DEF FormTypeInv

\* A handler moves on without clearing.
LEMMA TypeMoves ==
    ASSUME FormTypeInv, NEW h \in Handlers, op' \in [Handlers -> Ops], OthersStay(h), Sound(h)',
           op'[h].form <= forms',
           op'[h].at # "clear", asked \subseteq asked', \A p \in asked' : p[1] <= forms,
           step' \in Fields \cup {"none", "confirm", "other"}, data' \in Data,
           prompt' \in asked' \cup {NoPrompt}, asked' \subseteq Prompts, offers' \subseteq Data,
           fails' \in 0 .. MaxFails, overlap' \in {"none", "presses", "any"}, count' \in [Forms -> Nat],
           UNCHANGED forms
    PROVE  FormTypeInv'
<1>1. forms' + Cardinality(Clearing') <= MaxForms
  BY ClearingFacts, FormAssumption DEF FormTypeInv, FormTypeOK
<1>. QED  BY <1>1, TypeKept DEF FormTypeInv, FormTypeOK

LEMMA TypeFacts ==
    ASSUME FormTypeInv
    PROVE  /\ \A h \in Handlers : op[h].form <= forms /\ 0 <= forms
           /\ step \in Fields \cup {"none", "confirm", "other"} /\ data \in Data
           /\ prompt \in asked \cup {NoPrompt} /\ asked \subseteq Prompts /\ offers \subseteq Data
           /\ forms \in 0 .. MaxForms /\ fails \in 0 .. MaxFails
           /\ overlap \in {"none", "presses", "any"} /\ count \in [Forms -> Nat]
           /\ op \in [Handlers -> Ops] /\ \A p \in asked : p[1] \in Forms /\ p[1] <= forms
           /\ forms \in Nat
BY ValueFacts, FormAssumption DEF FormTypeInv, FormTypeOK, Data, Values

\* Another form may begin.
LEMMA ClearedIsForm ==
    ASSUME FormTypeInv, NEW h \in Handlers, Clear(h)
    PROVE  forms' \in Forms /\ forms' = forms + 1 /\ op[h].at = "clear"
<1>1. h \in Clearing /\ IsFiniteSet(Clearing) /\ forms' = forms + 1 /\ op[h].at = "clear"
  BY FormAssumption, FS_Subset DEF Clearing, Clear
<1>2. Cardinality(Clearing) \in Nat \ {0}
  BY <1>1, FS_EmptySet, FS_CardinalityType
<1>3. forms + Cardinality(Clearing) <= MaxForms
  BY DEF FormTypeInv
<1>. QED  BY <1>1, <1>2, <1>3, TypeFacts, FormAssumption DEF Forms

LEMMA FormTypeInit == FormInit => FormTypeInv
<1>. SUFFICES ASSUME FormInit PROVE FormTypeInv
  OBVIOUS
<1>1. Clearing = {} /\ Cardinality({}) = 0
  BY FS_EmptySet, IdleFacts DEF Clearing, FormInit
<1>2. \A h \in Handlers : Sound(h)
  BY IdleFacts DEF FormInit, Sound
<1>3. FormTypeOK
  BY ValueFacts, FormAssumption DEF FormInit, FormTypeOK, Data, Values
<1>4. op \in [Handlers -> Ops]
  BY IdleFacts DEF FormInit
<1>5. \A h \in Handlers : op[h].form <= forms
  BY IdleFacts DEF FormInit
<1>. QED  BY <1>1, <1>2, <1>3, <1>4, <1>5, ValueFacts, FormAssumption DEF FormInit, FormTypeInv

LEMMA TypeUpdates == ASSUME FormTypeInv, NEW h \in Handlers, Updates(h) PROVE FormTypeInv'
<1>. op \in [Handlers -> Ops]
  BY TypeFacts
<1>1. CASE PressCreate(h)
  <2> DEFINE o == [Idle EXCEPT !.at = "clear"]
  <2>1. o \in Ops /\ o.at = "clear" /\ o.offer = NoData /\ o.field = "none" /\ o.form = 0
    BY BeginnersAreOps, IdleFacts DEF Ops
  <2>2. Begins(h, o) /\ UNCHANGED <<forms, step, data, prompt, asked, offers, count, fails>>
    BY <1>1 DEF PressCreate, Begins, context, chat, made
  <2> HIDE DEF o
  <2>3. op' \in [Handlers -> Ops] /\ OthersStay(h) /\ op[h] = Idle /\ op'[h] = o
    BY <2>1, <2>2, BeginsFacts
  <2>4. Sound(h)'
    BY <2>1, <2>3 DEF Sound
  <2>5. Clearing' = Clearing \cup {h} /\ h \notin Clearing
    BY <2>1, <2>3, IdleFacts DEF Clearing, OthersStay
  <2>6. IsFiniteSet(Clearing) /\ Cardinality(Clearing') = Cardinality(Clearing) + 1
        /\ Cardinality(Clearing) \in Nat
    BY <2>5, FormAssumption, FS_Subset, FS_AddElement, FS_CardinalityType DEF Clearing
  <2>7. forms + Cardinality(Clearing) < MaxForms
    BY <1>1 DEF PressCreate, Clearing
  <2>8. forms' + Cardinality(Clearing') <= MaxForms
    BY <2>2, <2>6, <2>7, TypeFacts, FormAssumption
  <2>9. overlap' \in {"none", "presses", "any"}
    BY <2>1, <2>2, BeginsFacts, TypeFacts
  <2>10. op'[h].form <= forms' /\ forms <= forms'
    BY <2>1, <2>2, <2>3, TypeFacts
  <2>. QED  BY <2>2, <2>3, <2>4, <2>8, <2>9, <2>10, TypeFacts, TypeKept
<1>2. ASSUME NEW o \in Ops, Begins(h, o), UNCHANGED forms, o.at # "clear", o.form <= forms,
             op'[h] = o => Sound(h)'
      PROVE  FormTypeInv'
  <2>1. UNCHANGED <<step, data, prompt, asked, offers, count, fails>>
    BY <1>2 DEF Begins, context, chat, made
  <2>2. op' \in [Handlers -> Ops] /\ OthersStay(h) /\ op'[h] = o
        /\ overlap' \in {"none", "presses", "any"}
    BY <1>2, BeginsFacts, TypeFacts
  <2>. QED  BY <1>2, <2>1, <2>2, TypeFacts, TypeMoves
<1>3. CASE Cancels(h)
  <2> DEFINE o == [Idle EXCEPT !.at = "cancel"]
  <2>1. o \in Ops /\ o.at = "cancel" /\ o.offer = NoData /\ o.form = 0
    BY BeginnersAreOps, IdleFacts DEF Ops
  <2>2. Begins(h, o) /\ UNCHANGED forms
    BY <1>3 DEF Cancels
  <2> HIDE DEF o
  <2>3. op'[h] = o => Sound(h)'
    BY <2>1 DEF Sound
  <2>. QED  BY <1>2, <2>1, <2>2, <2>3, TypeFacts
<1>4. ASSUME NEW p \in Prompts, Reply(h, p) PROVE FormTypeInv'
  <2>1. CASE Begins(h, [Idle EXCEPT !.at = "guard", !.prompt = p])
    <3> DEFINE o == [Idle EXCEPT !.at = "guard", !.prompt = p]
    <3>1. o \in Ops /\ o.at = "guard" /\ o.offer = NoData /\ o.field = "none" /\ o.prompt = p /\ o.form = 0
      BY BeginnersAreOps, IdleFacts DEF Ops
    <3>2. Begins(h, o) /\ UNCHANGED forms
      BY <1>4, <2>1 DEF Reply
    <3> HIDE DEF o
    <3>3. op'[h] = o => Sound(h)'
      BY <3>1 DEF Sound
    <3>. QED  BY <1>2, <3>1, <3>2, <3>3, TypeFacts
  <2>2. CASE Begins(h, [Idle EXCEPT !.at = "guard", !.field = step, !.form = p[1], !.prompt = p])
    <3> DEFINE o == [Idle EXCEPT !.at = "guard", !.field = step, !.form = p[1], !.prompt = p]
    <3>1. step \in Fields
      BY <1>4 DEF Reply
    <3>2. o \in Ops /\ o.at = "guard" /\ o.offer = NoData /\ o.form = p[1] /\ o.prompt = p
      BY <3>1, BeginnersAreOps, IdleFacts DEF Ops
    <3>3. Begins(h, o) /\ UNCHANGED forms
      BY <1>4, <2>2 DEF Reply
    <3> HIDE DEF o
    <3>4. op'[h] = o => Sound(h)'
      BY <3>2 DEF Sound
    <3>5. p[1] <= forms
      BY <1>4, TypeFacts DEF Reply
    <3>. QED  BY <1>2, <3>2, <3>3, <3>4, <3>5
  <2>. QED  BY <1>4, <2>1, <2>2 DEF Reply
<1>5. ASSUME NEW p \in Prompts, PressSkip(h, p) PROVE FormTypeInv'
  <2> DEFINE o == [Idle EXCEPT !.at = "check", !.field = p[2], !.form = forms]
  <2>1. p[2] \in Fields /\ forms \in Forms
    <3>1. p[1] \in Forms /\ p[1] <= forms /\ forms \in 0 .. MaxForms
      BY <1>5, TypeFacts DEF PressSkip
    <3>. QED  BY <3>1, ValueFacts, FormAssumption DEF Forms
  <2>2. o \in Ops /\ o.at = "check" /\ o.offer = NoData /\ o.field = p[2] /\ o.form = forms
    BY <2>1, BeginnersAreOps, IdleFacts DEF Ops
  <2>3. Begins(h, o) /\ UNCHANGED forms
    BY <1>5 DEF PressSkip
  <2> HIDE DEF o
  <2>4. op'[h] = o => Sound(h)'
    BY <2>1, <2>2, <2>3 DEF Sound
  <2>. QED  BY <1>2, <2>2, <2>3, <2>4, TypeFacts
<1>6. ASSUME NEW d \in offers, PressConfirm(h, d) PROVE FormTypeInv'
  <2> DEFINE o == [Idle EXCEPT !.at = "read", !.offer = d]
  <2>1. d \in Data
    BY TypeFacts
  <2>2. o \in Ops /\ o.at = "read" /\ o.form = 0
    BY <2>1, BeginnersAreOps, IdleFacts DEF Ops
  <2>3. Begins(h, o) /\ UNCHANGED forms
    BY <1>6 DEF PressConfirm
  <2> HIDE DEF o
  <2>4. op'[h] = o => Sound(h)'
    BY <2>2 DEF Sound
  <2>. QED  BY <1>2, <2>2, <2>3, <2>4, TypeFacts
<1>. QED  BY <1>1, <1>3, <1>4, <1>5, <1>6 DEF Updates


LEMMA TypeHandle == ASSUME FormTypeInv, NEW h \in Handlers, Handle(h) PROVE FormTypeInv'
<1>. op \in [Handlers -> Ops] /\ Sound(h) /\ op[h] \in Ops
  BY TypeFacts DEF FormTypeInv
<1> USE DEF context, chat, made
<1>1. CASE Clear(h)
  <2>1. op[h].at = "clear" /\ forms' = forms + 1 /\ step' = "none" /\ data' = NoData /\ prompt' = NoPrompt
        /\ UNCHANGED <<asked, offers, count, overlap, fails>>
    BY <1>1 DEF Clear
  <2>5. forms' \in Forms /\ forms' \in 0 .. MaxForms
    BY ClearedIsForm, <1>1, FormAssumption DEF Forms
  <2>6. op' \in [Handlers -> Ops] /\ OthersStay(h) /\ op'[h].at = "begin" /\ op'[h].form = forms'
        /\ op'[h].field = op[h].field /\ op'[h].offer = op[h].offer
    BY <1>1, <2>5, ClearFacts
  <2>7. Sound(h)'
    BY <2>1, <2>5, <2>6 DEF Sound
  <2>8. forms' + Cardinality(Clearing') <= MaxForms
    <3>1. Cardinality(Clearing') = Cardinality(Clearing) - 1
      BY <2>1, <2>6, ClearingFacts
    <3>2. Cardinality(Clearing) \in Nat /\ forms + Cardinality(Clearing) <= MaxForms
      BY <2>6, ClearingFacts DEF FormTypeInv
    <3>. QED  BY <2>1, <3>1, <3>2, TypeFacts, FormAssumption
  <2>9. \A p \in asked' : p[1] <= forms'
    BY <2>1, TypeFacts, ValueFacts
  <2>10. op'[h].form <= forms' /\ forms <= forms'
    BY <2>1, <2>6, TypeFacts
  <2>. QED  BY <2>1, <2>5, <2>6, <2>7, <2>8, <2>9, <2>10, TypeFacts, ValueFacts, TypeKept
<1>2. CASE BeginForm(h)
  <2>1. op' \in [Handlers -> Ops] /\ OthersStay(h) /\ Moves(h, "post") /\ op[h].at = "begin"
    BY <1>2, GoesFacts DEF BeginForm, Places
  <2>2. Sound(h)'
    BY <2>1, FieldFacts DEF Sound, Moves
  <2>. QED  BY <1>2, <2>1, <2>2, FieldFacts, TypeFacts, TypeMoves DEF BeginForm, Moves
<1>3. ASSUME Ends(h), UNCHANGED <<forms, count, overlap, fails>>, step' \in Fields \cup {"none", "confirm", "other"},
             data' \in Data, prompt' \in asked \cup {NoPrompt}, offers' \subseteq Data, UNCHANGED asked
      PROVE  FormTypeInv'
  <2>1. op' \in [Handlers -> Ops] /\ OthersStay(h) /\ op'[h] = Idle
    BY <1>3, EndsFacts
  <2>2. Sound(h)'
    BY <2>1, IdleFacts DEF Sound
  <2>. QED  BY <1>3, <2>1, <2>2, IdleFacts, TypeFacts, TypeMoves
<1>4. CASE Guard(h)
  <2>0. op[h].at = "guard" /\ UNCHANGED <<context, chat, forms, made, overlap, fails>>
    BY <1>4 DEF Guard
  <2>1. CASE Ends(h)
    BY <2>0, <2>1, <1>3, TypeFacts
  <2>2. CASE op[h].field = "none" /\ Goes(h, "cancel")
    <3>1. op' \in [Handlers -> Ops] /\ OthersStay(h) /\ Moves(h, "cancel")
      BY <2>2, GoesFacts DEF Places
    <3>2. Sound(h)'
      BY <2>0, <3>1 DEF Sound, Moves
    <3>. QED  BY <2>0, <3>1, <3>2, TypeFacts, TypeMoves DEF Moves
  <2>3. CASE op[h].field # "none" /\ Goes(h, "store")
    <3>1. op' \in [Handlers -> Ops] /\ OthersStay(h) /\ Moves(h, "store")
      BY <2>3, GoesFacts DEF Places
    <3>2. op[h].field \in Fields /\ op[h].form \in Forms /\ op[h].offer = NoData
      BY <2>0, <2>3, ValueFacts DEF Sound, Ops
    <3>3. Sound(h)'
      BY <3>1, <3>2 DEF Sound, Moves
    <3>. QED  BY <2>0, <3>1, <3>3, TypeFacts, TypeMoves DEF Moves
  <2>. QED  BY <1>4, <2>1, <2>2, <2>3 DEF Guard
<1>5. CASE CheckSkip(h)
  <2>0. op[h].at = "check" /\ UNCHANGED <<context, chat, forms, made, overlap, fails>>
    BY <1>5 DEF CheckSkip
  <2>1. CASE Ends(h)
    BY <2>0, <2>1, <1>3, TypeFacts
  <2>2. CASE ~ Ends(h)
    <3>1. op' \in [Handlers -> Ops] /\ OthersStay(h) /\ op'[h].at = "store" /\ op'[h].field = op[h].field
          /\ op'[h].form = op[h].form /\ op'[h].offer = op[h].offer
      BY <1>5, <2>2, SkipFacts
    <3>2. Sound(h)'
      BY <2>0, <3>1 DEF Sound
    <3>. QED  BY <2>0, <3>1, <3>2, TypeFacts, TypeMoves
  <2>. QED  BY <2>1, <2>2
<1>6. CASE Store(h)
  <2>1. op' \in [Handlers -> Ops] /\ OthersStay(h) /\ Moves(h, "advance") /\ op[h].at = "store"
    BY <1>6, GoesFacts DEF Store, Places
  <2>2. Sound(h)'
    BY <2>1 DEF Sound, Moves
  <2>3. op[h].form \in Values /\ NoField \in Values
    BY ValueFacts DEF Ops
  <2>4. data' \in Data
    <3>1. PICK v \in Values : data' = [data EXCEPT ![op[h].field] = v]
      BY <1>6, <2>3 DEF Store
    <3>. QED  BY <3>1, TypeFacts DEF Data
  <2>. QED  BY <1>6, <2>1, <2>2, <2>4, TypeFacts, TypeMoves DEF Store, Moves
<1>7. CASE Advance(h)
  <2>1. op' \in [Handlers -> Ops] /\ OthersStay(h) /\ Moves(h, "forget") /\ op[h].at = "advance"
    BY <1>7, GoesFacts DEF Advance, Places
  <2>2. Sound(h)'
    BY <2>1 DEF Sound, Moves
  <2>3. After(op[h].field) \in Fields \cup {"confirm"}
    BY <2>1, FieldFacts DEF Sound
  <2>. QED  BY <1>7, <2>1, <2>2, <2>3, TypeFacts, TypeMoves DEF Advance, Moves
<1>8. CASE Forget(h)
  <2> DEFINE at == IF op[h].field = Last(Asks) THEN "offer" ELSE "post"
  <2>1. op' \in [Handlers -> Ops] /\ OthersStay(h) /\ Moves(h, at) /\ op[h].at = "forget"
    BY <1>8, GoesFacts DEF Forget, Places
  <2>2. Sound(h)'
    BY <2>1 DEF Sound, Moves
  <2>. QED  BY <1>8, <2>1, <2>2, TypeFacts, TypeMoves DEF Forget, Moves
<1>9. CASE Post(h)
  <2>1. op' \in [Handlers -> Ops] /\ OthersStay(h) /\ Moves(h, "remember") /\ op[h].at = "post"
    BY <1>9, GoesFacts DEF Post, Places
  <2>2. Question(h)' = Question(h) /\ asked' = asked \cup {Question(h)}
    BY <1>9, <2>1 DEF Question, Moves, Post
  <2>3. Sound(h)'
    BY <2>1, <2>2 DEF Sound, Moves
  <2>4. op[h].form \in Forms /\ op[h].field # "comment" /\ op[h].field \in Fields \cup {"none"}
    BY <2>1, FieldFacts DEF Sound, Ops
  <2>5. Question(h) \in Prompts
    BY <2>4, FieldFacts DEF Question, Prompts
  <2>6. op[h].form <= forms
    BY TypeFacts
  <2>. QED  BY <1>9, <2>1, <2>2, <2>3, <2>5, <2>6, TypeFacts, TypeMoves DEF Post, Moves, Question
<1>10. CASE Remember(h)
  <2>1. Question(h) \in asked
    BY <1>10 DEF Sound, Remember
  <2>. QED  BY <1>10, <2>1, <1>3, TypeFacts DEF Remember
<1>11. CASE Offer(h)
  BY <1>11, <1>3, TypeFacts DEF Offer
<1>12. CASE Read(h)
  <2>1. op' \in [Handlers -> Ops] /\ OthersStay(h) /\ op'[h].data = data
        /\ op'[h].at = (IF Complete(data) THEN "create" ELSE "cancel") /\ op'[h].form = op[h].form
        /\ op'[h].offer = op[h].offer
    BY <1>12, TypeFacts, ReadFacts
  <2>2. Sound(h)'
    BY <2>1 DEF Sound
  <2>. QED  BY <1>12, <2>1, <2>2, TypeFacts, TypeMoves DEF Read
<1>13. CASE CreateLead(h)
  <2>1. op' \in [Handlers -> Ops] /\ OthersStay(h) /\ Moves(h, "cancel")
    BY <1>13, GoesFacts DEF CreateLead, Places
  <2>2. Sound(h)'
    BY <2>1 DEF Sound, Moves
  <2>3. count' \in [Forms -> Nat]
    BY <1>13, TypeFacts DEF CreateLead
  <2>. QED  BY <1>13, <2>1, <2>2, <2>3, TypeFacts, TypeMoves DEF CreateLead, Moves
<1>14. CASE CancelFlow(h)
  <2>1. op' \in [Handlers -> Ops] /\ OthersStay(h) /\ Moves(h, "leave")
    BY <1>14, GoesFacts DEF CancelFlow, Places
  <2>2. Sound(h)'
    BY <2>1 DEF Sound, Moves
  <2>3. offers' \subseteq Data
    BY <1>14, TypeFacts DEF CancelFlow
  <2>. QED  BY <1>14, <2>1, <2>2, <2>3, TypeFacts, TypeMoves DEF CancelFlow, Moves
<1>15. CASE Leave(h)
  BY <1>15, <1>3, TypeFacts, ValueFacts DEF Leave
<1>. QED  BY <1>1, <1>2, <1>4, <1>5, <1>6, <1>7, <1>8, <1>9, <1>10, <1>11, <1>12, <1>13, <1>14, <1>15 DEF Handle

LEMMA FormTypeStep == ASSUME FormTypeInv, [FormNext]_formVars PROVE FormTypeInv'
<1>1. CASE OtherDialog
  <2>1. UNCHANGED <<asked, offers, op, forms, count, overlap, fails>>
    BY <1>1 DEF OtherDialog, chat, made
  <2>2. step' \in Fields \cup {"none", "confirm", "other"} /\ data' \in Data /\ prompt' = NoPrompt
    BY <1>1, TypeFacts, ValueFacts DEF OtherDialog
  <2>3. FormTypeOK'
    BY <2>1, <2>2 DEF FormTypeInv, FormTypeOK, Data, Values
  <2>. QED  BY <2>1, <2>3 DEF FormTypeInv, Sound, Question, Clearing
<1>2. ASSUME NEW h \in Handlers, Fails(h) PROVE FormTypeInv'
  <2>1. op \in [Handlers -> Ops] /\ op' \in [Handlers -> Ops] /\ OthersStay(h) /\ op'[h] = Idle
    BY <1>2, TypeFacts, EndsFacts DEF Fails
  <2>2. Sound(h)'
    BY <2>1, IdleFacts DEF Sound
  <2>3. fails' \in 0 .. MaxFails
    BY <1>2, TypeFacts, FormAssumption DEF Fails
  <2>. QED  BY <1>2, <2>1, <2>2, <2>3, IdleFacts, TypeFacts, TypeMoves DEF Fails, context, chat, made
<1>3. CASE UNCHANGED formVars
  BY <1>3 DEF formVars, FormTypeInv, FormTypeOK, Sound, Question, Clearing
<1>. QED  BY <1>1, <1>2, <1>3, TypeUpdates, TypeHandle DEF FormNext


-----------------------------------------------------------------------------
(* As long as only presses of a confirmation overlap                       *)

\* Who fills the form in is alone.
LEMMA AloneFacts ==
    ASSUME FormTypeInv, FormSerialInv, overlap # "any", NEW h \in Handlers,
           op[h].at \notin {"idle", "read", "create", "cancel", "leave"}
    PROVE  \A g \in Handlers \ {h} : op[g] = Idle
<1>1. op[h].offer = NoData /\ op[h] # Idle
  BY IdleFacts DEF FormTypeInv, Sound
<1>. QED  BY <1>1 DEF FormSerialInv

\* Beside a handler, others only confirm or cancel.
LEMMA OthersCurrent ==
    ASSUME FormTypeInv, FormSerialInv, overlap # "any", NEW h \in Handlers, op[h] # Idle, OthersStay(h),
           forms' \in {forms, forms + 1}, NEW g \in Handlers \ {h}
    PROVE  Current(g)'
<1>1. op'[g] = op[g]
  BY DEF OthersStay
<1>2. op[g].at \in {"idle", "read", "create", "cancel", "leave"}
  BY AloneFacts
<1>3. op[g].at = "create" => OneForm(op[g].data)
  BY DEF FormSerialInv, Current
<1>4. op[g].data["name"] \in 0 .. forms'
  BY TypeFacts DEF FormSerialInv, Current
<1>. QED  BY <1>1, <1>2, <1>3, <1>4 DEF Current, Filling, OneForm

LEMMA SerialKept ==
    ASSUME FormTypeInv, FormSerialInv, NEW h \in Handlers, op[h] # Idle, OthersStay(h), UNCHANGED overlap,
           forms' \in {forms, forms + 1}, op'[h] = Idle \/ op'[h].offer = op[h].offer,
           overlap # "any" => /\ \A x \in Fields : data'[x] \in {NoField, forms'}
                              /\ prompt' # NoPrompt => prompt'[1] = forms'
                              /\ Current(h)' /\ \A l \in leads' : OneForm(l.data)
    PROVE  FormSerialInv'
<1>. SUFFICES ASSUME overlap # "any" PROVE FormSerialInv'
  BY DEF FormSerialInv
<1>1. ASSUME NEW g \in Handlers, NEW k \in Handlers, g # k, op'[g] # Idle, op'[k] # Idle
      PROVE  overlap' = "presses" /\ op'[g].offer # NoData
  BY <1>1 DEF FormSerialInv, OthersStay
<1>2. \A g \in Handlers : Current(g)'
  BY OthersCurrent
<1>. QED  BY <1>1, <1>2 DEF FormSerialInv, OneForm

\* The context stays one form's, and so do the leads.
LEMMA SerialSame ==
    ASSUME FormTypeInv, FormSerialInv, NEW h \in Handlers, op[h] # Idle, OthersStay(h),
           UNCHANGED <<data, prompt, forms, leads, overlap>>,
           op'[h] = Idle \/ op'[h].offer = op[h].offer, overlap # "any" => Current(h)'
    PROVE  FormSerialInv'
BY SerialKept DEF FormSerialInv

LEMMA IdleIsCurrent == ASSUME NEW h \in Handlers, op'[h] = Idle, forms' \in Nat PROVE Current(h)'
BY IdleFacts, NoName DEF Current, Filling

\* An update reaches a handler with nothing done, and everyone else alone.
Started(h) ==
    /\ op[h] = Idle /\ op' \in [Handlers -> Ops] /\ OthersStay(h) /\ op'[h].data = NoData
    /\ op'[h].at \in {"clear", "cancel", "guard", "check", "read"}
    /\ op'[h].at = "check" => op'[h].form = forms
    /\ UNCHANGED <<step, data, prompt, offers, forms, leads, count, fails>>
    /\ overlap' # "any" =>
          /\ overlap # "any"
          /\ \/ overlap' = overlap /\ \A g \in Handlers : op[g] = Idle
             \/ overlap' = "presses" /\ \A g \in Handlers : op'[g] = Idle \/ op'[g].offer # NoData

LEMMA UpdatesFacts == ASSUME FormTypeInv, NEW h \in Handlers, Updates(h) PROVE Started(h)
<1>1. ASSUME NEW o \in Ops, Begins(h, o), UNCHANGED forms, o.data = NoData,
             o.at \in {"clear", "cancel", "guard", "check", "read"}, o.at = "check" => o.form = forms
      PROVE  Started(h)
  <2>1. UNCHANGED <<step, data, prompt, offers, leads, count, fails>>
    BY <1>1 DEF Begins, context, chat, made
  <2>. QED  BY <1>1, <2>1, BeginsFacts, TypeFacts DEF Started
<1>2. CASE PressCreate(h) \/ Cancels(h)
  <2>1. PICK at \in {"clear", "cancel"} : Begins(h, [Idle EXCEPT !.at = at]) /\ UNCHANGED forms
    BY <1>2 DEF PressCreate, Cancels
  <2> DEFINE o == [Idle EXCEPT !.at = at]
  <2>2. o \in Ops /\ o.at = at /\ o.data = NoData
    BY BeginnersAreOps, IdleFacts DEF Ops
  <2> HIDE DEF o
  <2>3. Begins(h, o)
    BY <2>1 DEF o
  <2>. QED  BY <1>1, <2>1, <2>2, <2>3
<1>3. ASSUME NEW p \in Prompts, Reply(h, p) PROVE Started(h)
  <2>1. CASE Begins(h, [Idle EXCEPT !.at = "guard", !.prompt = p])
    <3> DEFINE o == [Idle EXCEPT !.at = "guard", !.prompt = p]
    <3>1. o \in Ops /\ o.at = "guard" /\ o.data = NoData
      BY BeginnersAreOps, IdleFacts DEF Ops
    <3>. QED  BY <1>1, <1>3, <2>1, <3>1 DEF Reply
  <2>2. CASE Begins(h, [Idle EXCEPT !.at = "guard", !.field = step, !.form = p[1], !.prompt = p])
    <3> DEFINE o == [Idle EXCEPT !.at = "guard", !.field = step, !.form = p[1], !.prompt = p]
    <3>1. o \in Ops /\ o.at = "guard" /\ o.data = NoData
      BY <1>3, BeginnersAreOps, IdleFacts DEF Ops, Reply
    <3>. QED  BY <1>1, <1>3, <2>2, <3>1 DEF Reply
  <2>. QED  BY <1>3, <2>1, <2>2 DEF Reply
<1>4. ASSUME NEW p \in Prompts, PressSkip(h, p) PROVE Started(h)
  <2> DEFINE o == [Idle EXCEPT !.at = "check", !.field = p[2], !.form = forms]
  <2>1. forms \in Forms
    <3>1. p[1] \in Forms /\ p[1] <= forms /\ forms \in 0 .. MaxForms
      BY <1>4, TypeFacts DEF PressSkip
    <3>. QED  BY <3>1, ValueFacts, FormAssumption DEF Forms
  <2>2. o \in Ops /\ o.at = "check" /\ o.form = forms /\ o.data = NoData
    <3>1. p[2] \in Fields
      BY ValueFacts
    <3>2. o \in Ops
      BY <2>1, <3>1, BeginnersAreOps
    <3>. QED  BY <3>2, IdleFacts DEF Ops
  <2>3. Begins(h, o) /\ UNCHANGED forms
    BY <1>4 DEF PressSkip
  <2> HIDE DEF o
  <2>. QED  BY <1>1, <2>2, <2>3
<1>5. ASSUME NEW d \in offers, PressConfirm(h, d) PROVE Started(h)
  <2> DEFINE o == [Idle EXCEPT !.at = "read", !.offer = d]
  <2>1. o \in Ops /\ o.at = "read" /\ o.data = NoData
    BY TypeFacts, BeginnersAreOps, IdleFacts DEF Ops
  <2>2. Begins(h, o) /\ UNCHANGED forms
    BY <1>5 DEF PressConfirm
  <2> HIDE DEF o
  <2>. QED  BY <1>1, <2>1, <2>2
<1>. QED  BY <1>2, <1>3, <1>4, <1>5 DEF Updates

LEMMA SerialUpdates == ASSUME FormTypeInv, FormSerialInv, NEW h \in Handlers, Updates(h) PROVE FormSerialInv'
<1>1. Started(h)
  BY UpdatesFacts
<1>. SUFFICES ASSUME overlap' # "any" PROVE FormSerialInv'
  BY DEF FormSerialInv
<1>2. ASSUME NEW g \in Handlers, NEW k \in Handlers, g # k, op'[g] # Idle, op'[k] # Idle
      PROVE  overlap' = "presses" /\ op'[g].offer # NoData
  BY <1>1, <1>2 DEF Started, OthersStay
<1>3. ASSUME NEW g \in Handlers, g # h PROVE Current(g)'
  <2>1. Current(g) /\ op'[g] = op[g]
    BY <1>1, <1>3 DEF FormSerialInv, Started, OthersStay
  <2>. QED  BY <1>1, <2>1 DEF Current, OneForm, Question, Started
<1>4. Current(h)'
  BY <1>1, NoName, TypeFacts DEF Current, Filling, Started
<1>. QED  BY <1>1, <1>2, <1>3, <1>4 DEF FormSerialInv, OneForm, Started

LEMMA SerialHandle == ASSUME FormTypeInv, FormSerialInv, NEW h \in Handlers, Handle(h) PROVE FormSerialInv'
<1>. op \in [Handlers -> Ops] /\ Sound(h) /\ op[h] \in Ops
  BY TypeFacts DEF FormTypeInv
<1>. /\ overlap # "any" => Current(h) /\ (\A x \in Fields : data[x] \in {NoField, forms})
                          /\ (prompt # NoPrompt => prompt[1] = forms) /\ \A l \in leads : OneForm(l.data)
  BY DEF FormSerialInv
<1>0. op[h] # Idle
  BY IdleFacts DEF Handle, Clear, BeginForm, Guard, CheckSkip, Store, Advance, Forget, Post, Remember,
                   Offer, Read, CreateLead, CancelFlow, Leave
<1> USE DEF context, chat, made
<1>1. CASE Clear(h)
  <2>1. data' = NoData /\ prompt' = NoPrompt /\ UNCHANGED <<leads, overlap>>
    BY <1>1 DEF Clear
  <2>2. OthersStay(h) /\ op'[h].at = "begin" /\ op'[h].form = forms' /\ op'[h].offer = op[h].offer
        /\ op'[h].data = op[h].data
    BY <1>1, ClearedIsForm, ClearFacts, TypeFacts
  <2>3. overlap # "any" => Current(h)'
    BY <1>1, <2>2, ClearedIsForm, TypeFacts DEF Current, Filling
  <2>. QED  BY <1>0, <1>1, <2>1, <2>2, <2>3, ValueFacts, ClearedIsForm, SerialKept
<1>2. CASE BeginForm(h)
  <2>1. OthersStay(h) /\ Moves(h, "post") /\ op[h].at = "begin"
    BY <1>2, GoesFacts DEF BeginForm, Places
  <2>2. op[h].field = "none"
    BY <2>1 DEF Sound
  <2>3. step' = Question(h)'[2]
    BY <1>2, <2>1, <2>2 DEF BeginForm, Question, Moves
  <2>4. overlap # "any" => Current(h)'
    BY <1>2, <2>1, <2>3 DEF Current, Filling, Moves, BeginForm
  <2>. QED  BY <1>0, <1>2, <2>1, <2>4, SerialSame DEF BeginForm, Moves
<1>3. ASSUME Ends(h), UNCHANGED <<forms, leads, overlap>>,
             overlap # "any" => /\ \A x \in Fields : data'[x] \in {NoField, forms}
                                /\ prompt' # NoPrompt => prompt'[1] = forms
      PROVE  FormSerialInv'
  <2>1. OthersStay(h) /\ op'[h] = Idle
    BY <1>3, EndsFacts
  <2>. QED  BY <1>0, <1>3, <2>1, IdleIsCurrent, TypeFacts, SerialKept
<1>4. CASE Guard(h)
  <2>0. op[h].at = "guard" /\ UNCHANGED <<context, chat, forms, made, overlap, fails>>
    BY <1>4 DEF Guard
  <2>1. CASE Ends(h)
    BY <2>0, <2>1, <1>3
  <2>2. CASE op[h].field = "none" /\ Goes(h, "cancel")
    <3>1. OthersStay(h) /\ Moves(h, "cancel")
      BY <2>2, GoesFacts DEF Places
    <3>2. overlap # "any" => Current(h)'
      BY <2>0, <3>1 DEF Current, Filling, Moves
    <3>. QED  BY <1>0, <2>0, <3>1, <3>2, SerialSame DEF Moves
  <2>3. CASE op[h].prompt = prompt /\ op[h].field # "none" /\ Goes(h, "store")
    <3>1. OthersStay(h) /\ Moves(h, "store")
      BY <2>3, GoesFacts DEF Places
    <3>2. op[h].form = prompt[1] /\ prompt # NoPrompt
      BY <2>0, <2>3, ValueFacts DEF Sound
    <3>3. overlap # "any" => Current(h)'
      BY <2>0, <3>1, <3>2 DEF Current, Filling, Moves
    <3>. QED  BY <1>0, <2>0, <3>1, <3>3, SerialSame DEF Moves
  <2>. QED  BY <1>4, <2>1, <2>2, <2>3 DEF Guard
<1>5. CASE CheckSkip(h)
  <2>0. op[h].at = "check" /\ UNCHANGED <<context, chat, forms, made, overlap, fails>>
    BY <1>5 DEF CheckSkip
  <2>1. CASE Ends(h)
    BY <2>0, <2>1, <1>3
  <2>2. CASE ~ Ends(h)
    <3>1. OthersStay(h) /\ op'[h].at = "store" /\ op'[h].form = op[h].form /\ op'[h].offer = op[h].offer
          /\ op'[h].data = op[h].data
      BY <1>5, <2>2, SkipFacts
    <3>2. overlap # "any" => Current(h)'
      BY <2>0, <3>1 DEF Current, Filling
    <3>. QED  BY <1>0, <2>0, <3>1, <3>2, SerialSame
  <2>. QED  BY <2>1, <2>2
<1>6. CASE Store(h)
  <2>1. OthersStay(h) /\ Moves(h, "advance") /\ op[h].at = "store"
    BY <1>6, GoesFacts DEF Store, Places
  <2>2. overlap # "any" => Current(h)' /\ op[h].form = forms
    BY <1>6, <2>1 DEF Current, Filling, Moves, Store
  <2>3. overlap # "any" => \A x \in Fields : data'[x] \in {NoField, forms}
    BY <1>6, <2>2, TypeFacts DEF Store, Data
  <2>. QED  BY <1>0, <1>6, <2>1, <2>2, <2>3, SerialKept DEF Store, Moves
<1>7. CASE Advance(h)
  <2>1. OthersStay(h) /\ Moves(h, "forget") /\ op[h].at = "advance"
    BY <1>7, GoesFacts DEF Advance, Places
  <2>2. overlap # "any" => Current(h)'
    BY <1>7, <2>1 DEF Current, Filling, Moves, Advance
  <2>. QED  BY <1>0, <1>7, <2>1, <2>2, SerialSame DEF Advance, Moves
<1>8. CASE Forget(h)
  <2> DEFINE at == IF op[h].field = Last(Asks) THEN "offer" ELSE "post"
  <2>1. OthersStay(h) /\ Moves(h, at) /\ op[h].at = "forget"
    BY <1>8, GoesFacts DEF Forget, Places
  <2>2. op[h].field \in Fields
    BY <2>1 DEF Sound
  <2>3. overlap # "any" => step = After(op[h].field) /\ op[h].form = forms
    BY <2>1 DEF Current, Filling
  <2>4. overlap # "any" => Current(h)'
    <3>1. CASE op[h].field = "comment"
      BY <1>8, <2>1, <2>3, <3>1, FieldFacts DEF Current, Filling, Moves, Forget
    <3>2. CASE op[h].field # "comment"
      BY <1>8, <2>1, <2>2, <2>3, <3>2, FieldFacts DEF Current, Filling, Moves, Forget, Question
    <3>. QED  BY <3>1, <3>2
  <2>. QED  BY <1>0, <1>8, <2>1, <2>4, SerialKept DEF Forget, Moves
<1>9. CASE Post(h)
  <2>1. OthersStay(h) /\ Moves(h, "remember") /\ op[h].at = "post"
    BY <1>9, GoesFacts DEF Post, Places
  <2>2. overlap # "any" => Current(h)'
    BY <1>9, <2>1 DEF Current, Filling, Moves, Post, Question
  <2>. QED  BY <1>0, <1>9, <2>1, <2>2, SerialSame DEF Post, Moves
<1>10. CASE Remember(h)
  <2>1. overlap # "any" => Question(h)[1] = forms
    BY <1>10 DEF Remember, Current, Filling, Question
  <2>. QED  BY <1>10, <2>1, <1>3 DEF Remember
<1>11. CASE Offer(h)
  BY <1>11, <1>3 DEF Offer
<1>12. CASE Read(h)
  <2>1. OthersStay(h) /\ op'[h].at = (IF Complete(data) THEN "create" ELSE "cancel") /\ op'[h].data = data
        /\ op'[h].offer = op[h].offer
    BY <1>12, TypeFacts, ReadFacts
  <2>2. overlap # "any" /\ Complete(data) => OneForm(data)
    BY FieldFacts, TypeFacts, ValueFacts DEF Complete, OneForm, Data, Values
  <2>3. overlap # "any" => data["name"] \in 0 .. forms
    BY FieldFacts, TypeFacts DEF NoField
  <2>4. overlap # "any" => Current(h)'
    BY <1>12, <2>1, <2>2, <2>3 DEF Current, Filling, OneForm, Read
  <2>. QED  BY <1>0, <1>12, <2>1, <2>4, SerialSame DEF Read
<1>13. CASE CreateLead(h)
  <2>1. OthersStay(h) /\ Moves(h, "cancel") /\ op[h].at = "create"
    BY <1>13, GoesFacts DEF CreateLead, Places
  <2>2. overlap # "any" => Current(h)'
    BY <1>13, <2>1 DEF Current, Filling, Moves, CreateLead
  <2>3. overlap # "any" => OneForm(op[h].data)
    BY <2>1 DEF Current
  <2>4. overlap # "any" => \A l \in leads' : OneForm(l.data)
    BY <1>13, <2>3 DEF CreateLead
  <2>. QED  BY <1>0, <1>13, <2>1, <2>2, <2>4, SerialKept DEF CreateLead, Moves
<1>14. CASE CancelFlow(h)
  <2>1. OthersStay(h) /\ Moves(h, "leave")
    BY <1>14, GoesFacts DEF CancelFlow, Places
  <2>2. overlap # "any" => Current(h)'
    BY <1>14, <2>1 DEF Current, Filling, Moves, CancelFlow
  <2>. QED  BY <1>0, <1>14, <2>1, <2>2, SerialKept DEF CancelFlow, Moves
<1>15. CASE Leave(h)
  BY <1>15, <1>3, ValueFacts DEF Leave
<1>. QED  BY <1>1, <1>2, <1>4, <1>5, <1>6, <1>7, <1>8, <1>9, <1>10, <1>11, <1>12, <1>13, <1>14, <1>15 DEF Handle

LEMMA FormSerialStep == ASSUME FormTypeInv, FormSerialInv, [FormNext]_formVars PROVE FormSerialInv'
<1>1. CASE OtherDialog
  <2>1. UNCHANGED <<op, forms, leads, overlap>> /\ \A h \in Handlers : op[h] = Idle
    BY <1>1 DEF OtherDialog, made
  <2>2. prompt' = NoPrompt /\ (data' = data \/ data' = NoData)
    BY <1>1 DEF OtherDialog
  <2>3. \A h \in Handlers : Current(h)'
    BY <2>1, IdleIsCurrent, TypeFacts
  <2>. QED  BY <2>1, <2>2, <2>3, ValueFacts DEF FormSerialInv
<1>2. ASSUME NEW h \in Handlers, Fails(h) PROVE FormSerialInv'
  <2>1. OthersStay(h) /\ op'[h] = Idle /\ op[h] # Idle
    BY <1>2, TypeFacts, EndsFacts DEF Fails
  <2>. QED  BY <1>2, <2>1, IdleIsCurrent, TypeFacts, SerialSame DEF Fails, context, made
<1>3. CASE UNCHANGED formVars
  BY <1>3 DEF formVars, FormSerialInv, Current, OneForm, Question
<1>. QED  BY <1>1, <1>2, <1>3, SerialUpdates, SerialHandle DEF FormNext


-----------------------------------------------------------------------------
(* The leads of a form                                                     *)

LEMMA Apart ==
    ASSUME NEW S, IsFiniteSet(S), NEW A \in SUBSET S, NEW B \in SUBSET S, A \cap B = {}
    PROVE  /\ IsFiniteSet(A) /\ Cardinality(A) \in Nat /\ IsFiniteSet(B) /\ Cardinality(B) \in Nat
           /\ Cardinality(S) \in Nat /\ Cardinality(A) + Cardinality(B) <= Cardinality(S)
<1>1. IsFiniteSet(A) /\ IsFiniteSet(B)
  BY FS_Subset
<1>2. /\ Cardinality(A) \in Nat /\ Cardinality(B) \in Nat /\ Cardinality(S) \in Nat
  BY <1>1, FS_CardinalityType
<1>3. Cardinality(A \cup B) = Cardinality(A) + Cardinality(B) - Cardinality(A \cap B)
  BY <1>1, FS_Union
<1>4. Cardinality(A \cap B) = 0
  BY FS_EmptySet
<1>5. Cardinality(A \cup B) <= Cardinality(S)
  <2>1. A \cup B \subseteq S
    OBVIOUS
  <2>. QED  BY <2>1, FS_Subset
<1>. QED  BY <1>1, <1>2, <1>3, <1>4, <1>5

LEMMA BoundFacts ==
    ASSUME NEW h \in Handlers
    PROVE  Cardinality(Handlers) \in Nat \ {0} /\ Bound \in Nat \ {0} /\ Bound <= Cardinality(Handlers)
<1>1. IsFiniteSet(Handlers) /\ Handlers # {}
  BY FormAssumption
<1>2. Cardinality(Handlers) \in Nat \ {0}
  BY <1>1, FS_EmptySet, FS_CardinalityType
<1>. QED  BY <1>2 DEF Bound

LEMMA CountFacts ==
    ASSUME FormTypeInv, NEW f \in Forms
    PROVE  /\ IsFiniteSet(Creating(f)) /\ Cardinality(Creating(f)) \in Nat
           /\ IsFiniteSet(Created(f)) /\ Cardinality(Created(f)) \in Nat
           /\ Cardinality(Handlers) \in Nat /\ count[f] \in Nat
           /\ Cardinality(Creating(f)) + Cardinality(Created(f)) <= Cardinality(Handlers)
<1>1. IsFiniteSet(Handlers) /\ Creating(f) \in SUBSET Handlers /\ Created(f) \in SUBSET Handlers
      /\ Creating(f) \cap Created(f) = {}
  BY FormAssumption DEF Creating, Created
<1>2. count[f] \in Nat
  BY TypeFacts
<1>. QED  BY <1>1, <1>2, Apart

\* A step that creates no lead, reads no form and opens none, and leaves who has created one
\* at work as long as the form is open.
LEMMA CountKept ==
    ASSUME FormTypeInv, FormTypeInv', CountInv, UNCHANGED count, Bound <= Bound', Bound \in Nat, Bound' \in Nat,
           overlap' # "any" /\ fails' = 0 => /\ overlap # "any" /\ fails = 0
                                             /\ \A f \in Forms : Creating(f)' \subseteq Creating(f)
                                             /\ \A f \in Forms : Open(f)' => Open(f) /\ Created(f) \subseteq Created(f)'
    PROVE  CountInv'
<1>. SUFFICES ASSUME overlap' # "any", fails' = 0, NEW f \in Forms
              PROVE  /\ count[f] + Cardinality(Creating(f)') <= Bound'
                     /\ Open(f)' => count[f] <= Cardinality(Created(f)')
  BY DEF CountInv
<1>1. /\ count[f] + Cardinality(Creating(f)) <= Bound
      /\ Open(f) => count[f] <= Cardinality(Created(f))
  BY DEF CountInv
<1>2. Cardinality(Creating(f)') <= Cardinality(Creating(f)) /\ Cardinality(Creating(f)') \in Nat
  BY CountFacts, FS_Subset, FS_CardinalityType
<1>3. IsFiniteSet(Created(f)') /\ Cardinality(Created(f)') \in Nat
  BY FormAssumption, FS_Subset, FS_CardinalityType DEF Created
<1>4. Open(f)' => Cardinality(Created(f)) <= Cardinality(Created(f)')
  BY <1>3, FS_Subset
<1>. QED  BY <1>1, <1>2, <1>3, <1>4, CountFacts

\* A handler that creates no lead moves on.
LEMMA CountMoves ==
    ASSUME FormTypeInv, FormTypeInv', CountInv, NEW h \in Handlers, OthersStay(h), UNCHANGED <<count, overlap, fails>>,
           op'[h].at # "create",
           \/ op[h].at \notin {"cancel", "leave"}
           \/ op'[h].at \in {"cancel", "leave"} /\ op'[h].data = op[h].data,
           overlap # "any" => \A f \in Forms : Open(f)' => Open(f)
    PROVE  CountInv'
<1>1. \A f \in Forms : Creating(f)' \subseteq Creating(f) /\ Created(f) \subseteq Created(f)'
  BY DEF Creating, Created, OthersStay
<1>2. Bound' = Bound /\ Bound \in Nat
  BY BoundFacts DEF Bound
<1>. QED  BY <1>1, <1>2, CountKept

LEMMA CountUpdates ==
    ASSUME FormTypeInv, FormTypeInv', CountInv, NEW h \in Handlers, Updates(h)
    PROVE  CountInv'
<1>1. Started(h)
  BY UpdatesFacts
<1>2. \A f \in Forms : Creating(f)' \subseteq Creating(f) /\ Created(f) \subseteq Created(f)'
  BY <1>1, IdleFacts DEF Creating, Created, Started, OthersStay
<1>3. \A f \in Forms : Open(f)' => Open(f)
  BY <1>1 DEF Open, Filling, Started, OthersStay
<1>4. overlap' # "any" => Bound <= Bound' /\ Bound \in Nat /\ Bound' \in Nat
  BY <1>1, BoundFacts DEF Bound, Started
<1>5. CASE overlap' # "any"
  BY <1>1, <1>2, <1>3, <1>4, <1>5, CountKept DEF Started
<1>. QED  BY <1>5 DEF CountInv

LEMMA CountHandle ==
    ASSUME FormTypeInv, FormTypeInv', FormSerialInv, CountInv, NEW h \in Handlers, Handle(h)
    PROVE  CountInv'
<1>. op \in [Handlers -> Ops] /\ Sound(h) /\ op[h] \in Ops /\ Forms \subseteq Nat
  BY TypeFacts, ValueFacts DEF FormTypeInv
<1>. Bound \in Nat
  BY BoundFacts
<1>. overlap # "any" => Current(h) /\ (\A x \in Fields : data[x] \in {NoField, forms})
                        /\ (prompt # NoPrompt => prompt[1] = forms)
  BY DEF FormSerialInv
<1> USE DEF context, chat, made
<1>1. CASE Clear(h)
  <2>1. step' = "none" /\ data' = NoData /\ prompt' = NoPrompt /\ UNCHANGED <<count, overlap, fails>>
    BY <1>1 DEF Clear
  <2>2. /\ forms' = forms + 1 /\ op[h].at = "clear" /\ OthersStay(h) /\ op'[h].at = "begin"
        /\ op'[h].data = op[h].data
    BY <1>1, ClearedIsForm, ClearFacts
  <2>3. \A f \in Forms : f > forms' \/ f = forms' => f > forms
    BY <2>2, TypeFacts
  <2>4. \A f \in Forms : data'["name"] # f
    BY <2>1, ValueFacts, FieldFacts
  <2>5. \A f \in Forms : Open(f)' => Open(f)
    BY <2>3, <2>4 DEF Open
  <2>. QED  BY <2>1, <2>2, <2>5, CountMoves
<1>2. CASE BeginForm(h)
  <2>1. OthersStay(h) /\ Moves(h, "post") /\ op[h].at = "begin"
    BY <1>2, GoesFacts DEF BeginForm, Places
  <2>2. \A f \in Forms : Open(f)' => Open(f)
    BY <1>2, <2>1 DEF BeginForm, Open, Filling, Moves, OthersStay
  <2>. QED  BY <1>2, <2>1, <2>2, CountMoves DEF BeginForm, Moves
<1>3. CASE Guard(h)
  <2>0. op[h].at = "guard" /\ UNCHANGED <<context, chat, forms, made, overlap, fails>>
    BY <1>3 DEF Guard
  <2>1. CASE Ends(h)
    <3>1. OthersStay(h) /\ op'[h] = Idle
      BY <2>1, EndsFacts
    <3>2. \A f \in Forms : Open(f)' => Open(f)
      BY <2>0, <3>1, IdleFacts DEF Open, Filling, OthersStay
    <3>. QED  BY <2>0, <3>1, <3>2, IdleFacts, CountMoves
  <2>2. CASE op[h].field = "none" /\ Goes(h, "cancel")
    <3>1. OthersStay(h) /\ Moves(h, "cancel")
      BY <2>2, GoesFacts DEF Places
    <3>2. \A f \in Forms : Open(f)' => Open(f)
      BY <2>0, <3>1 DEF Open, Filling, OthersStay, Moves
    <3>. QED  BY <2>0, <3>1, <3>2, CountMoves DEF Moves
  <2>3. CASE op[h].prompt = prompt /\ op[h].field # "none" /\ Goes(h, "store")
    <3>1. OthersStay(h) /\ Moves(h, "store")
      BY <2>3, GoesFacts DEF Places
    <3>2. prompt # NoPrompt
      BY <2>0, <2>3, ValueFacts DEF Sound
    <3>3. \A f \in Forms : Open(f)' => Open(f)
      BY <2>0, <3>2 DEF Open
    <3>. QED  BY <2>0, <3>1, <3>3, CountMoves DEF Moves
  <2>. QED  BY <1>3, <2>1, <2>2, <2>3 DEF Guard
<1>4. CASE CheckSkip(h)
  <2>0. op[h].at = "check" /\ UNCHANGED <<context, chat, forms, made, overlap, fails>>
    BY <1>4 DEF CheckSkip
  <2>1. CASE Ends(h)
    <3>1. OthersStay(h) /\ op'[h] = Idle
      BY <2>1, EndsFacts
    <3>2. \A f \in Forms : Open(f)' => Open(f)
      BY <2>0, <3>1, IdleFacts DEF Open, Filling, OthersStay
    <3>. QED  BY <2>0, <3>1, <3>2, IdleFacts, CountMoves
  <2>2. CASE ~ Ends(h)
    <3>1. OthersStay(h) /\ op'[h].at = "store" /\ step = op[h].field
      BY <1>4, <2>2, SkipFacts
    <3>2. step \in Fields
      BY <2>0, <3>1 DEF Sound
    <3>3. \A f \in Forms : Open(f)' => Open(f)
      BY <2>0, <3>2 DEF Open
    <3>. QED  BY <2>0, <3>1, <3>3, CountMoves
  <2>. QED  BY <2>1, <2>2
<1>5. CASE Store(h)
  <2>1. OthersStay(h) /\ Moves(h, "advance") /\ op[h].at = "store"
    BY <1>5, GoesFacts DEF Store, Places
  <2>2. overlap # "any" => op[h].form = forms
    BY <2>1 DEF Current, Filling
  <2>3. ASSUME overlap # "any", NEW f \in Forms, Open(f)' PROVE Open(f)
    <3>1. data'["name"] = f => data["name"] = f \/ f = forms
      BY <1>5, <2>2, <2>3, TypeFacts, ValueFacts DEF Store, Data
    <3>. QED  BY <1>5, <2>1, <2>3, <3>1 DEF Open, Filling, Store
  <2>. QED  BY <1>5, <2>1, <2>3, CountMoves DEF Store, Moves
<1>6. CASE Advance(h)
  <2>1. OthersStay(h) /\ Moves(h, "forget") /\ op[h].at = "advance"
    BY <1>6, GoesFacts DEF Advance, Places
  <2>2. \A f \in Forms : Open(f)' => Open(f)
    BY <1>6, <2>1 DEF Open, Filling, Advance
  <2>. QED  BY <1>6, <2>1, <2>2, CountMoves DEF Advance, Moves
<1>7. CASE Forget(h)
  <2> DEFINE at == IF op[h].field = Last(Asks) THEN "offer" ELSE "post"
  <2>1. OthersStay(h) /\ Moves(h, at) /\ op[h].at = "forget"
    BY <1>7, GoesFacts DEF Forget, Places
  <2>2. \A f \in Forms : Open(f)' => Open(f)
    BY <1>7, <2>1 DEF Open, Filling, Forget
  <2>. QED  BY <1>7, <2>1, <2>2, CountMoves DEF Forget, Moves
<1>8. CASE Post(h)
  <2>1. OthersStay(h) /\ Moves(h, "remember") /\ op[h].at = "post"
    BY <1>8, GoesFacts DEF Post, Places
  <2>2. \A f \in Forms : Open(f)' => Open(f)
    BY <1>8, <2>1 DEF Open, Filling, Post
  <2>. QED  BY <1>8, <2>1, <2>2, CountMoves DEF Post, Moves
<1>9. CASE Remember(h)
  <2>1. OthersStay(h) /\ op'[h] = Idle /\ op[h].at = "remember"
    BY <1>9, EndsFacts DEF Remember
  <2>2. \A f \in Forms : Open(f)' => Open(f)
    BY <1>9, <2>1 DEF Open, Filling, Remember
  <2>. QED  BY <1>9, <2>1, <2>2, IdleFacts, CountMoves DEF Remember
<1>10. CASE Offer(h)
  <2>1. OthersStay(h) /\ op'[h] = Idle /\ op[h].at = "offer"
    BY <1>10, EndsFacts DEF Offer
  <2>2. \A f \in Forms : Open(f)' => Open(f)
    BY <1>10, <2>1, IdleFacts DEF Open, Filling, Offer, OthersStay
  <2>. QED  BY <1>10, <2>1, <2>2, IdleFacts, CountMoves DEF Offer
<1>11. CASE Read(h)
  <2>1. /\ OthersStay(h) /\ op'[h].at = (IF Complete(data) THEN "create" ELSE "cancel") /\ op'[h].data = data
        /\ op[h].at = "read" /\ UNCHANGED <<step, data, prompt, forms, count, overlap, fails>>
    BY <1>11, TypeFacts, ReadFacts DEF Read
  <2>2. \A f \in Forms : Open(f)' => Open(f)
    BY <2>1 DEF Open, Filling, OthersStay
  <2>3. \A f \in Forms : Created(f) \subseteq Created(f)'
    BY <2>1 DEF Created, OthersStay
  <2>. SUFFICES ASSUME overlap # "any", fails = 0, NEW f \in Forms
                PROVE  /\ count[f] + Cardinality(Creating(f)') <= Bound
                       /\ Open(f)' => count[f] <= Cardinality(Created(f)')
    BY <2>1 DEF CountInv, Bound
  <2>4. Open(f)' => count[f] <= Cardinality(Created(f)')
    <3>1. IsFiniteSet(Created(f)') /\ Cardinality(Created(f)') \in Nat
      BY FormAssumption, FS_Subset, FS_CardinalityType DEF Created
    <3>2. Cardinality(Created(f)) <= Cardinality(Created(f)')
      BY <2>3, <3>1, FS_Subset
    <3>3. Open(f) => count[f] <= Cardinality(Created(f))
      BY DEF CountInv
    <3>4. Cardinality(Created(f)) \in Nat /\ count[f] \in Nat
      BY CountFacts
    <3>. QED  BY <2>2, <3>1, <3>2, <3>3, <3>4
  <2>5. CASE data["name"] = f
    <3>1. Open(f)'
      BY <2>1, <2>5 DEF Open
    <3>2. count'[f] \in Nat /\ Cardinality(Creating(f)') \in Nat /\ Cardinality(Created(f)') \in Nat
          /\ Cardinality(Creating(f)') + Cardinality(Created(f)') <= Bound
      <4>1. IsFiniteSet(Handlers) /\ Creating(f)' \in SUBSET Handlers /\ Created(f)' \in SUBSET Handlers
            /\ Creating(f)' \cap Created(f)' = {}
        BY FormAssumption DEF Creating, Created
      <4>2. count'[f] \in Nat
        BY <2>1, CountFacts
      <4>3. CASE overlap # "none"
        BY <4>1, <4>2, <4>3, Apart DEF Bound
      <4>4. CASE overlap = "none"
        <5>1. \A g \in Handlers \ {h} : op[g] = Idle /\ op'[g] = op[g]
          BY <2>1, <4>4, IdleFacts DEF FormSerialInv, OthersStay
        <5>2. Creating(f)' \in SUBSET {h} /\ Created(f)' \in SUBSET {h} /\ Cardinality({h}) = 1 /\ IsFiniteSet({h})
          BY <5>1, IdleFacts, FS_Singleton DEF Creating, Created
        <5>. QED  BY <4>1, <4>2, <4>4, <5>2, Apart DEF Bound
      <4>. QED  BY <4>3, <4>4
    <3>3. count'[f] <= Cardinality(Created(f)') /\ count'[f] = count[f]
      BY <2>1, <2>4, <3>1
    <3>. QED  BY <2>4, <3>2, <3>3
  <2>6. CASE data["name"] # f
    <3>1. Creating(f)' \subseteq Creating(f)
      BY <2>1, <2>6 DEF Creating, OthersStay
    <3>2. Cardinality(Creating(f)') <= Cardinality(Creating(f)) /\ Cardinality(Creating(f)') \in Nat
      BY <3>1, CountFacts, FS_Subset, FS_CardinalityType
    <3>3. count[f] + Cardinality(Creating(f)) <= Bound
      BY DEF CountInv
    <3>4. count[f] + Cardinality(Creating(f)') <= Bound
      BY <3>2, <3>3, CountFacts
    <3>. QED  BY <2>4, <3>4
  <2>. QED  BY <2>5, <2>6
<1>12. CASE CreateLead(h)
  <2>1. OthersStay(h) /\ Moves(h, "cancel") /\ op[h].at = "create"
    BY <1>12, GoesFacts DEF CreateLead, Places
  <2> DEFINE n == op[h].data["name"]
  <2>2. \A f \in Forms : Open(f)' => Open(f)
    BY <1>12, <2>1 DEF Open, Filling, OthersStay, Moves, CreateLead
  <2>3. CASE UNCHANGED made
    BY <1>12, <2>1, <2>2, <2>3, CountMoves DEF CreateLead, Moves
  <2>4. CASE count' = [count EXCEPT ![n] = @ + 1]
    <3>. SUFFICES ASSUME overlap # "any", fails = 0, NEW f \in Forms
                  PROVE  /\ count'[f] + Cardinality(Creating(f)') <= Bound
                         /\ Open(f)' => count'[f] <= Cardinality(Created(f)')
      BY <1>12 DEF CountInv, CreateLead, Bound
    <3>1. /\ count[f] + Cardinality(Creating(f)) <= Bound
          /\ Open(f) => count[f] <= Cardinality(Created(f))
      BY DEF CountInv
    <3>2. CASE f # n
      <4>1. Creating(f)' = Creating(f) /\ Created(f)' = Created(f) /\ count'[f] = count[f]
        BY <2>1, <2>4, <3>2, TypeFacts DEF Creating, Created, OthersStay, Moves
      <4>. QED  BY <2>2, <3>1, <4>1
    <3>3. CASE f = n
      <4>1. Creating(f)' = Creating(f) \ {h} /\ h \in Creating(f)
            /\ Created(f)' = Created(f) \cup {h} /\ h \notin Created(f) /\ count'[f] = count[f] + 1
        BY <2>1, <2>4, <3>3, TypeFacts DEF Creating, Created, OthersStay, Moves
      <4>2. Cardinality(Creating(f) \ {h}) = Cardinality(Creating(f)) - 1
        BY <4>1, CountFacts, FS_RemoveElement
      <4>3. Cardinality(Created(f) \cup {h}) = Cardinality(Created(f)) + 1
        BY <4>1, CountFacts, FS_AddElement
      <4>4. count'[f] + Cardinality(Creating(f)') <= Bound
        BY <3>1, <4>1, <4>2, CountFacts
      <4>5. Open(f) => count'[f] <= Cardinality(Created(f)')
        BY <3>1, <4>1, <4>3, CountFacts
      <4>. QED  BY <2>2, <4>4, <4>5
    <3>. QED  BY <3>2, <3>3
  <2>. QED  BY <1>12, <2>3, <2>4 DEF CreateLead
<1>13. CASE CancelFlow(h)
  <2>1. OthersStay(h) /\ Moves(h, "leave") /\ op[h].at = "cancel"
    BY <1>13, GoesFacts DEF CancelFlow, Places
  <2>2. \A f \in Forms : Open(f)' => Open(f)
    BY <1>13, <2>1 DEF Open, Filling, CancelFlow, Moves, OthersStay
  <2>. QED  BY <1>13, <2>1, <2>2, CountMoves DEF CancelFlow, Moves
<1>14. CASE Leave(h)
  <2>1. /\ OthersStay(h) /\ op'[h] = Idle /\ op[h].at = "leave"
        /\ step' = "none" /\ data' = NoData /\ prompt' = NoPrompt
        /\ UNCHANGED <<forms, count, overlap, fails>>
    BY <1>14, EndsFacts DEF Leave
  <2>2. \A f \in Forms : Creating(f)' \subseteq Creating(f)
    BY <2>1, IdleFacts DEF Creating, OthersStay
  <2>3. ASSUME overlap # "any", NEW f \in Forms, Open(f)' PROVE Open(f) /\ Created(f) \subseteq Created(f)'
    <3>1. \A g \in Handlers : op'[g].at \notin Filling
      <4>1. ASSUME NEW g \in Handlers \ {h}, op[g].at \in Filling PROVE FALSE
        <5>1. op[h] = Idle
          BY <2>3, <4>1, AloneFacts DEF Filling
        <5>. QED  BY <2>1, <5>1, IdleFacts
      <4>. QED  BY <2>1, <4>1, IdleFacts DEF OthersStay, Filling
    <3>2. f > forms
      BY <2>1, <2>3, <3>1, FieldFacts, ValueFacts DEF Open
    <3>3. h \notin Created(f)
      BY <2>3, <3>2, TypeFacts DEF Created, Current
    <3>4. Created(f) \subseteq Created(f)'
      BY <2>1, <3>3 DEF Created, OthersStay
    <3>. QED  BY <3>2, <3>4 DEF Open
  <2>4. Bound' = Bound /\ Bound \in Nat
    BY <2>1, BoundFacts DEF Bound
  <2>. QED  BY <2>1, <2>2, <2>3, <2>4, CountKept
<1>. QED  BY <1>1, <1>2, <1>3, <1>4, <1>5, <1>6, <1>7, <1>8, <1>9, <1>10, <1>11, <1>12, <1>13, <1>14 DEF Handle

LEMMA CountStep ==
    ASSUME FormTypeInv, FormSerialInv, CountInv, [FormNext]_formVars
    PROVE  CountInv'
<1>0. FormTypeInv'
  BY FormTypeStep
<1>1. CASE OtherDialog
  <2>1. UNCHANGED <<op, forms, count, overlap, fails>> /\ \A h \in Handlers : op[h] = Idle
    BY <1>1 DEF OtherDialog, made
  <2>2. prompt' = NoPrompt /\ (data' = data \/ data' = NoData) /\ step' \notin Fields
    BY <1>1, FieldFacts DEF OtherDialog
  <2>3. \A f \in Forms : Open(f)' => Open(f)
    BY <2>1, <2>2, IdleFacts, ValueFacts, FieldFacts DEF Open, Filling
  <2>4. Bound' = Bound /\ Bound \in Nat
    BY <2>1, FormAssumption, FS_CardinalityType DEF Bound
  <2>. QED  BY <1>0, <2>1, <2>3, <2>4, CountKept DEF Creating, Created
<1>2. ASSUME NEW h \in Handlers, Fails(h) PROVE CountInv'
  BY <1>2, TypeFacts DEF CountInv, Fails
<1>3. CASE UNCHANGED formVars
  BY <1>3 DEF formVars, CountInv, Creating, Created, Open, Bound
<1>. QED  BY <1>0, <1>1, <1>2, <1>3, CountUpdates, CountHandle DEF FormNext

-----------------------------------------------------------------------------
(* What is awaited was asked                                               *)

\* A step beside the form leaves what is awaited alone.
LEMMA AskedKept ==
    ASSUME AskedInv, NEW h \in Handlers, OthersStay(h), UNCHANGED <<step, data, prompt, offers, fails>>,
           op[h].at \notin Between, overlap' # "any" => overlap # "any"
    PROVE  AskedInv'
BY DEF AskedInv, Awaited, OthersStay

LEMMA AskedBetween == ASSUME NEW h \in Handlers, op'[h].at \in Between PROVE AskedInv'
BY DEF AskedInv

LEMMA AskedStep ==
    ASSUME FormTypeInv, FormSerialInv, AskedInv, [FormNext]_formVars
    PROVE  AskedInv'
<1>. op \in [Handlers -> Ops]
  BY TypeFacts
<1> USE DEF context, chat, made
<1>1. ASSUME NEW h \in Handlers, Updates(h) PROVE AskedInv'
  <2>1. Started(h)
    BY <1>1, UpdatesFacts
  <2>. QED  BY <2>1, IdleFacts, AskedKept DEF Between, Filling, Started
<1>2. ASSUME NEW h \in Handlers, Handle(h) PROVE AskedInv'
  <2>1. CASE Clear(h)
    <3>1. op'[h].at = "begin"
      BY <2>1, ClearedIsForm, ClearFacts
    <3>. QED  BY <3>1, AskedBetween DEF Between, Filling
  <2>2. CASE BeginForm(h)
    BY <2>2, GoesFacts, AskedBetween DEF BeginForm, Places, Between, Filling, Moves
  <2>3. CASE Guard(h)
    <3>0. op[h].at = "guard" /\ UNCHANGED <<step, data, prompt, offers, overlap, fails>>
      BY <2>3 DEF Guard
    <3>1. CASE Ends(h)
      BY <3>0, <3>1, EndsFacts, AskedKept DEF Between, Filling
    <3>2. CASE Goes(h, "cancel")
      BY <3>0, <3>2, GoesFacts, AskedKept DEF Places, Between, Filling
    <3>3. CASE Goes(h, "store")
      BY <3>3, GoesFacts, AskedBetween DEF Places, Between, Filling, Moves
    <3>. QED  BY <2>3, <3>1, <3>2, <3>3 DEF Guard
  <2>4. CASE CheckSkip(h)
    <3>0. op[h].at = "check" /\ UNCHANGED <<step, data, prompt, offers, overlap, fails>>
      BY <2>4 DEF CheckSkip
    <3>1. CASE Ends(h)
      BY <3>0, <3>1, EndsFacts, AskedKept DEF Between, Filling
    <3>2. CASE ~ Ends(h)
      BY <2>4, <3>2, SkipFacts, AskedBetween DEF Between, Filling
    <3>. QED  BY <3>1, <3>2
  <2>5. CASE Store(h)
    BY <2>5, GoesFacts, AskedBetween DEF Store, Places, Between, Filling, Moves
  <2>6. CASE Advance(h)
    BY <2>6, GoesFacts, AskedBetween DEF Advance, Places, Between, Filling, Moves
  <2>7. CASE Forget(h)
    <3>1. Goes(h, "offer") \/ Goes(h, "post")
      BY <2>7 DEF Forget
    <3>. QED  BY <3>1, GoesFacts, AskedBetween DEF Places, Between, Filling, Moves
  <2>8. CASE Post(h)
    BY <2>8, GoesFacts, AskedBetween DEF Post, Places, Between, Filling, Moves
  <2>9. CASE Remember(h)
    <3>1. Question(h) \in Prompts /\ op[h].at = "remember"
      BY <2>9, TypeFacts DEF FormTypeInv, Sound, Remember
    <3>2. overlap # "any" => step = Question(h)[2]
      BY <3>1 DEF FormSerialInv, Current
    <3>3. overlap # "any" => Awaited'
      BY <2>9, <3>1, <3>2, ValueFacts, FieldFacts DEF Remember, Awaited
    <3>. QED  BY <2>9, <3>3 DEF AskedInv, Remember
  <2>10. CASE Offer(h)
    <3>1. overlap # "any" => step = "confirm"
      BY <2>10 DEF FormSerialInv, Current, Offer
    <3>2. overlap # "any" => Awaited'
      BY <2>10, <3>1, FieldFacts DEF Offer, Awaited
    <3>. QED  BY <2>10, <3>2 DEF AskedInv, Offer
  <2>11. CASE Read(h)
    <3>1. OthersStay(h) /\ op[h].at = "read" /\ UNCHANGED <<step, data, prompt, offers, overlap, fails>>
      BY <2>11, TypeFacts, ReadFacts DEF Read
    <3>. QED  BY <3>1, AskedKept DEF Between, Filling
  <2>12. CASE CreateLead(h)
    <3>1. Goes(h, "cancel") /\ op[h].at = "create" /\ UNCHANGED <<step, data, prompt, offers, overlap, fails>>
      BY <2>12 DEF CreateLead
    <3>. QED  BY <3>1, GoesFacts, AskedKept DEF Places, Between, Filling
  <2>13. CASE CancelFlow(h)
    BY <2>13, GoesFacts, AskedBetween DEF CancelFlow, Places, Between, Filling, Moves
  <2>14. CASE Leave(h)
    BY <2>14, FieldFacts DEF Leave, AskedInv, Awaited
  <2>. QED  BY <1>2, <2>1, <2>2, <2>3, <2>4, <2>5, <2>6, <2>7, <2>8, <2>9, <2>10, <2>11, <2>12,
               <2>13, <2>14 DEF Handle
<1>3. ASSUME NEW h \in Handlers, Fails(h) PROVE AskedInv'
  BY <1>3, TypeFacts DEF AskedInv, Fails
<1>4. CASE OtherDialog
  BY <1>4, FieldFacts DEF OtherDialog, AskedInv, Awaited
<1>5. CASE UNCHANGED formVars
  BY <1>5 DEF formVars, AskedInv, Awaited
<1>. QED  BY <1>1, <1>2, <1>3, <1>4, <1>5 DEF FormNext

-----------------------------------------------------------------------------
(* The invariant, and what it says                                         *)

LEMMA InvInit == FormInit => FormIInv
<1>. SUFFICES ASSUME FormInit PROVE FormIInv
  OBVIOUS
<1>1. FormTypeInv
  BY FormTypeInit
<1>2. FormSerialInv
  <2>1. \A h \in Handlers : Current(h)
    BY IdleFacts, NoName DEF FormInit, Current, Filling
  <2>. QED  BY <2>1, IdleFacts, ValueFacts DEF FormInit, FormSerialInv
<1>3. CountInv
  <2>. SUFFICES ASSUME NEW f \in Forms
                PROVE  /\ count[f] + Cardinality(Creating(f)) <= Bound
                       /\ count[f] <= Cardinality(Created(f))
    BY DEF CountInv
  <2>1. count[f] = 0 /\ Creating(f) = {}
    BY IdleFacts DEF FormInit, Creating
  <2>2. Cardinality(Creating(f)) = 0
    BY <2>1, FS_EmptySet
  <2>3. Bound \in Nat
    BY FormAssumption, FS_CardinalityType DEF Bound
  <2>. QED  BY <1>1, <2>1, <2>2, <2>3, CountFacts
<1>4. AskedInv
  BY FieldFacts DEF FormInit, AskedInv, Awaited
<1>. QED  BY <1>1, <1>2, <1>3, <1>4 DEF FormIInv

LEMMA InvStep == FormIInv /\ [FormNext]_formVars => FormIInv'
<1>. SUFFICES ASSUME FormIInv, [FormNext]_formVars PROVE FormIInv'
  OBVIOUS
<1>1. FormTypeInv /\ FormSerialInv /\ CountInv /\ AskedInv
  BY DEF FormIInv
<1>. QED  BY <1>1, FormTypeStep, FormSerialStep, CountStep, AskedStep DEF FormIInv

\* The inductive invariant: the handlers are sound, whatever runs beside them; and as long as
\* only presses of a confirmation overlap, whoever fills the form in is alone with it, a form
\* that may still be confirmed has made no more leads than there are handlers that will clear
\* it, and what is awaited was asked unless a handler is about to ask it.
THEOREM FormInvariant == FormSpec => []FormIInv
BY InvInit, InvStep, PTL DEF FormSpec

\* The state is sound, and a lead is made of what was typed for one form
\* (handle_create_lead, handle_create_confirm), for any number of handlers and forms.
THEOREM FormsAreNotMixed == FormSpec => []FormInv
<1>1. ASSUME NEW d \in Data, OneForm(d) PROVE Cardinality(Range(d) \ {NoField}) = 1
  <2>1. PICK f \in Forms : d["name"] = f /\ \A x \in Fields : d[x] \in {NoField, f}
    BY <1>1 DEF OneForm
  <2>2. Range(d) \ {NoField} = {f}
    BY <2>1, FieldFacts, ValueFacts DEF Data, Range
  <2>. QED  BY <2>2, FS_Singleton
<1>2. FormIInv => FormInv
  <2>. SUFFICES ASSUME FormIInv PROVE FormInv
    OBVIOUS
  <2>1. FormTypeOK
    BY DEF FormIInv, FormTypeInv
  <2>2. MadeOfOneForm
    BY <1>1 DEF FormIInv, FormSerialInv, MadeOfOneForm, OneForm
  <2>. QED  BY <2>1, <2>2 DEF FormInv
<1>. QED  BY <1>2, FormInvariant, PTL

\* A form makes one lead for each press of its button at most, and one if presses do not
\* overlap: handle_create_confirm creates the lead, and clears the context last.
THEOREM OneLeadForEachPress == FormSpec => []OneLeadPerForm
<1>1. FormIInv => OneLeadPerForm
  <2>. SUFFICES ASSUME FormIInv, overlap # "any", fails = 0, NEW f \in Forms PROVE count[f] <= Bound
    BY DEF OneLeadPerForm, Bound
  <2>1. FormTypeInv /\ count[f] + Cardinality(Creating(f)) <= Bound
    BY DEF FormIInv, CountInv
  <2>2. Bound \in Nat
    BY FormAssumption, FS_CardinalityType DEF Bound
  <2>. QED  BY <2>1, <2>2, CountFacts
<1>. QED  BY <1>1, FormInvariant, PTL

\* For a manager who waits for the bot but to press a confirmation again, the prompt that may
\* be answered asks for the field that is awaited, and a confirmation in the chat shows the
\* data that awaits it (start_force_reply, show_create_confirmation).
THEOREM AwaitedWasAsked == FormSpec => []AwaitedIsAsked
<1>1. FormIInv => AwaitedIsAsked
  BY IdleFacts DEF FormIInv, AskedInv, Awaited, AwaitedIsAsked, Between, Filling
<1>. QED  BY <1>1, FormInvariant, PTL
=============================================================================
