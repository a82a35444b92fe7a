------------------------- MODULE TenantLimits_proofs -------------------------
(***************************************************************************)
(* What the plan of a tenant limits: its managers and its monthly leads.   *)
(*                                                                         *)
(* Managers, for any users, handlers and limits, however the limit changes *)
(* meanwhile: what a handler relies on holds, a handler alone makes a      *)
(* manager of whom it is asked to, and the limit is passed by the handlers *)
(* that count together at most.                                            *)
(*                                                                         *)
(* LeadQuota, for any requests, limits and number of months: the counter   *)
(* is exact, the quota holds and no request is refused without reason.     *)
(* The argument is RowLocked: since the row stays locked from the UPDATE   *)
(* to the commit, what a transaction has computed is still what the row    *)
(* asks for when it commits.                                               *)
(***************************************************************************)
EXTENDS TenantLimits, FiniteSetTheorems, TLAPS

Ops == [kind : Kinds, user : Users, at : {"count", "look", "write"}, limit : Limits,
        row : Rows, alone : BOOLEAN]

\* The users need not be finitely many: the managers are.
IInv == Inv /\ LimitBounded /\ IsFiniteSet(Active)

-----------------------------------------------------------------------------
(* Steps in which only op changes                                          *)

\* A handler that is over, or has none, has read nothing and waits for nothing.
LEMMA FreeFacts ==
    /\ Free.at = "idle" /\ Free.kind = "none" /\ Free.row = NoRow /\ Free.alone = FALSE
    /\ Free \notin Ops /\ NoRow.active = FALSE
BY DEF Free, Ops, NoRow, Row

\* A handler at work is an operation.
LEMMA AtWork ==
    ASSUME TypeOK, NEW h \in Handlers, op[h].at \in {"count", "look", "write"}
    PROVE  op[h] \in Ops
BY FreeFacts DEF TypeOK, Ops

\* The sets that LimitBounded counts are finite.
LEMMA Counted ==
    ASSUME IInv
    PROVE  /\ IsFiniteSet(Active \ exempt) /\ Cardinality(Active \ exempt) \in Nat
           /\ Cardinality(Active \ exempt) <= Cardinality(Active) /\ Cardinality(Active) \in Nat
           /\ IsFiniteSet(Admitted) /\ Cardinality(Admitted) \in Nat
           /\ Cardinality(Handlers) \in Nat
           /\ ceiling # Unlimited => ceiling \in Nat
<1>1. IsFiniteSet(Admitted)
  BY FS_Subset, ManagersAssumption DEF Admitted
<1>2. IsFiniteSet(Active \ exempt) /\ Cardinality(Active \ exempt) <= Cardinality(Active)
  BY FS_Subset DEF IInv
<1>3. ceiling # Unlimited => ceiling \in Nat
  BY ManagersAssumption DEF IInv, Inv, TypeOK
<1>. QED  BY <1>1, <1>2, <1>3, FS_CardinalityType, ManagersAssumption DEF IInv

\* A handler ends.
LEMMA EndsKeeps ==
    ASSUME IInv, NEW h \in Handlers, Ends(h), UNCHANGED <<limit, manager, exempt, ceiling>>
    PROVE  IInv'
<1>1. /\ op' \in [Handlers -> {Free} \cup Ops] /\ op'[h] = Free
      /\ \A g \in Handlers : g # h => op'[g] = op[g]
  BY DEF IInv, Inv, TypeOK, Ends, Ops
<1>2. TypeOK'
  BY <1>1 DEF IInv, Inv, TypeOK, Ops
<1>3. Known'
  BY <1>1, FreeFacts DEF IInv, Inv, Known, Found, AnyRow, ActiveRow
<1>4. Active' = Active /\ Admitted' \subseteq Admitted
  BY <1>1, FreeFacts DEF Active, Admitted
<1>6. LimitBounded'
  <2>1. IsFiniteSet(Admitted') /\ Cardinality(Admitted') <= Cardinality(Admitted)
    BY <1>4, Counted, FS_Subset
  <2>2. Cardinality(Admitted') \in Nat
    BY <2>1, FS_CardinalityType
  <2>. QED  BY <1>4, <2>1, <2>2, Counted DEF IInv, LimitBounded
<1>. QED  BY <1>2, <1>3, <1>4, <1>6 DEF IInv, Inv

\* A handler goes on: nothing but its own operation changes, and it is not one of those
\* that have counted unless it was, or has just counted.
LEMMA GoesOnKeeps ==
    ASSUME IInv, NEW h \in Handlers, NEW o \in Ops, op[h] \in Ops,
           op' = [op EXCEPT ![h] = o], UNCHANGED <<limit, manager, exempt>>,
           o.user = op[h].user, o.kind = op[h].kind, o.alone = op[h].alone,
           o.row # NoRow => manager[o.user] # NoRow,
           o.at = "write" => /\ o.kind \in {"add", "owner"} => o.row = NoRow
                             /\ o.kind = "remove" => o.row # NoRow
                             /\ o.row = Found(h),
           \/ ceiling' = ceiling /\ (h \in Admitted \/ o.kind \notin {"add", "contact"})
           \/ ceiling' \in Limits /\ (ceiling' # Unlimited => Cardinality(Active) < ceiling')
    PROVE  IInv'
<1>1. /\ op' \in [Handlers -> {Free} \cup Ops] /\ op'[h] = o
      /\ \A g \in Handlers : g # h => op'[g] = op[g]
  BY DEF IInv, Inv, TypeOK, Ops
<1>2. TypeOK'
  BY <1>1 DEF IInv, Inv, TypeOK, Ops
<1>3. Known'
  <2>1. \A g \in Handlers : op[g] = Free => op'[g] = Free
    BY <1>1, FreeFacts
  <2>2. \A u : AnyRow(u)' = AnyRow(u) /\ ActiveRow(u)' = ActiveRow(u)
    BY DEF AnyRow, ActiveRow
  <2>3. ASSUME NEW g \in Handlers, g # h
        PROVE  /\ op'[g].row # NoRow => manager'[op'[g].user] # NoRow
               /\ op'[g].at = "write" /\ op'[g].kind \in {"add", "owner"} => op'[g].row = NoRow
               /\ op'[g].at = "write" /\ op'[g].kind = "remove" => op'[g].row # NoRow
               /\ op'[g].alone => \A f \in Handlers \ {g} : op'[f] = Free
               /\ op'[g].alone /\ op'[g].at = "write" => op'[g].row = Found(g)'
    BY <1>1, <2>1, <2>2, <2>3 DEF IInv, Inv, Known, Found
  <2>4. /\ o.alone => \A f \in Handlers \ {h} : op'[f] = Free
        /\ Found(h)' = Found(h)
    BY <1>1, <2>2 DEF IInv, Inv, Known, Found
  <2>. QED  BY <1>1, <2>3, <2>4 DEF Known
<1>4. Active' = Active /\ Admitted' \subseteq Admitted \cup {h}
  BY <1>1 DEF Active, Admitted
<1>6. LimitBounded'
  <2>1. IsFiniteSet(Admitted') /\ Cardinality(Admitted') <= Cardinality(Handlers)
        /\ Cardinality(Admitted') \in Nat
    BY FS_Subset, FS_CardinalityType, ManagersAssumption DEF Admitted
  <2>2. CASE ceiling' = ceiling /\ (h \in Admitted \/ o.kind \notin {"add", "contact"})
    <3>1. Admitted' \subseteq Admitted
      BY <1>1, <1>4, <2>2 DEF Admitted
    <3>2. Cardinality(Admitted') <= Cardinality(Admitted)
      BY <3>1, Counted, FS_Subset
    <3>. QED  BY <1>4, <2>1, <2>2, <3>2, Counted DEF IInv, LimitBounded
  <2>3. CASE ceiling' \in Limits /\ (ceiling' # Unlimited => Cardinality(Active) < ceiling')
    BY <1>4, <2>1, <2>3, Counted, ManagersAssumption DEF LimitBounded
  <2>. QED  BY <2>2, <2>3
<1>. QED  BY <1>2, <1>3, <1>4, <1>6 DEF IInv, Inv

\* The steps of a handler that only read: it begins, counts, looks, or fails.
LEMMA CountKeeps == ASSUME IInv, NEW h \in Handlers, Count(h) PROVE IInv'
<1>1. op[h] \in Ops
  BY AtWork DEF Count, IInv, Inv
<1>2. CASE Ends(h) /\ ceiling' = ceiling
  BY <1>2, EndsKeeps DEF Count
<1>3. CASE ~ (Ends(h) /\ ceiling' = ceiling)
  <2> DEFINE o == [op[h] EXCEPT !.at = "look"]
  <2>1. /\ op' = [op EXCEPT ![h] = o] /\ ceiling' = op[h].limit /\ op[h].limit \in Limits
        /\ op[h].limit # Unlimited => Cardinality(Active) < op[h].limit
    BY <1>1, <1>3, Counted, ManagersAssumption DEF Count, Ops
  <2>2. /\ o \in Ops /\ o.user = op[h].user /\ o.kind = op[h].kind /\ o.alone = op[h].alone
        /\ o.row = op[h].row /\ o.at = "look"
    BY <1>1 DEF Ops
  <2>3. o.row # NoRow => manager[o.user] # NoRow
    BY <2>2 DEF IInv, Inv, Known
  <2> HIDE DEF o
  <2>. QED  BY <1>1, <2>1, <2>2, <2>3, GoesOnKeeps DEF Count
<1>. QED  BY <1>2, <1>3

LEMMA LookKeeps == ASSUME IInv, NEW h \in Handlers, Look(h) PROVE IInv'
<1>1. op[h] \in Ops
  BY AtWork DEF Look, IInv, Inv
<1>2. CASE Ends(h)
  BY <1>2, EndsKeeps DEF Look
<1>3. CASE ~ Ends(h)
  <2> DEFINE o == [op[h] EXCEPT !.at = "write", !.row = Found(h)]
  <2>1. /\ op' = [op EXCEPT ![h] = o]
        /\ op[h].kind \in {"add", "owner"} => Found(h) = NoRow
        /\ op[h].kind = "remove" => Found(h) # NoRow
    BY <1>3, FreeFacts DEF Look, Found, ActiveRow
  <2>2. Found(h) \in Rows /\ (Found(h) # NoRow => manager[op[h].user] # NoRow)
    BY <1>1 DEF Found, AnyRow, ActiveRow, IInv, Inv, TypeOK, Rows, Ops
  <2>3. /\ o \in Ops /\ o.user = op[h].user /\ o.kind = op[h].kind /\ o.alone = op[h].alone
        /\ o.row = Found(h) /\ o.at = "write"
    BY <1>1, <2>2 DEF Ops
  <2>4. h \in Admitted \/ o.kind \notin {"add", "contact"}
    BY <2>3 DEF Admitted, Look
  <2> HIDE DEF o
  <2>. QED  BY <1>1, <2>1, <2>2, <2>3, <2>4, GoesOnKeeps DEF Look
<1>. QED  BY <1>2, <1>3

\* A handler that begins has counted nothing, and no other is alone any more.
LEMMA StartKeeps == ASSUME IInv, NEW h \in Handlers, Start(h) PROVE IInv'
<1>1. PICK k \in Kinds, u \in Users :
         op' = [g \in Handlers |->
                  IF g = h
                  THEN [kind |-> k, user |-> u, at |-> IF k \in {"add", "contact"} THEN "count" ELSE "look",
                        limit |-> limit, row |-> NoRow, alone |-> \A f \in Handlers : op[f] = Free]
                  ELSE [op[g] EXCEPT !.alone = FALSE]]
  BY DEF Start
<1>2. /\ op'[h] \in Ops /\ op'[h].kind = k /\ op'[h].row = NoRow /\ op'[h].at # "write"
      /\ k \in {"add", "contact"} => op'[h].at = "count"
      /\ op'[h].alone => \A f \in Handlers : op[f] = Free
  BY <1>1 DEF Ops, Rows, IInv, Inv, TypeOK
<1>3. [Free EXCEPT !.alone = FALSE] = Free
  <2> DEFINE no == FALSE
  <2>1. Free = [kind |-> "none", user |-> "none", at |-> "idle", limit |-> Unlimited,
               row |-> NoRow, alone |-> no]
    BY DEF Free
  <2>2. [Free EXCEPT !.alone = no] = Free
    <3> HIDE DEF no
    <3>. QED  BY <2>1
  <2>. QED  BY <2>2
<1>4. ASSUME NEW g \in Handlers, g # h
      PROVE  /\ op'[g] \in {Free} \cup Ops /\ (op[g] = Free => op'[g] = Free)
             /\ op'[g].kind = op[g].kind /\ op'[g].user = op[g].user /\ op'[g].at = op[g].at
             /\ op'[g].row = op[g].row /\ op'[g].alone = FALSE
  <2>1. op'[g] = [op[g] EXCEPT !.alone = FALSE]
    BY <1>1, <1>4
  <2>2. CASE op[g] = Free
    BY <2>1, <2>2, <1>3, FreeFacts
  <2>3. CASE op[g] \in Ops
    BY <2>1, <2>3, FreeFacts DEF Ops
  <2>. QED  BY <2>2, <2>3 DEF IInv, Inv, TypeOK, Ops
<1>5. TypeOK'
  <2>1. op' \in [Handlers -> {Free} \cup Ops]
    BY <1>1, <1>2, <1>4
  <2>. QED  BY <2>1 DEF IInv, Inv, TypeOK, Ops, Start
<1>6. Known'
  <2>1. ASSUME NEW g \in Handlers, g # h
        PROVE  /\ op'[g].row # NoRow => manager'[op'[g].user] # NoRow
               /\ op'[g].at = "write" /\ op'[g].kind \in {"add", "owner"} => op'[g].row = NoRow
               /\ op'[g].at = "write" /\ op'[g].kind = "remove" => op'[g].row # NoRow
               /\ ~ op'[g].alone
    <3>1. /\ op[g].row # NoRow => manager[op[g].user] # NoRow
          /\ op[g].at = "write" /\ op[g].kind \in {"add", "owner"} => op[g].row = NoRow
          /\ op[g].at = "write" /\ op[g].kind = "remove" => op[g].row # NoRow
      BY DEF IInv, Inv, Known
    <3>2. manager' = manager
      BY DEF Start
    <3>3. /\ op'[g].kind = op[g].kind /\ op'[g].user = op[g].user /\ op'[g].at = op[g].at
          /\ op'[g].row = op[g].row
      BY <1>4, <2>1
    <3>4. ~ op'[g].alone
      BY <1>4, <2>1
    <3>. QED  BY <3>1, <3>2, <3>3, <3>4
  <2>2. op'[h].alone => \A f \in Handlers \ {h} : op'[f] = Free
    BY <1>2, <1>4
  <2>3. ~ (op'[h].at = "write") /\ op'[h].row = NoRow
    BY <1>2
  <2>. QED  BY <2>1, <2>2, <2>3 DEF Known
<1>7. Active' = Active /\ Admitted' \subseteq Admitted
  BY <1>2, <1>4 DEF Start, Active, Admitted
<1>9. LimitBounded'
  <2>1. IsFiniteSet(Admitted') /\ Cardinality(Admitted') <= Cardinality(Admitted)
    BY <1>7, Counted, FS_Subset
  <2>2. Cardinality(Admitted') \in Nat
    BY <2>1, FS_CardinalityType
  <2>. QED  BY <1>7, <2>1, <2>2, Counted DEF IInv, LimitBounded, Start
<1>. QED  BY <1>5, <1>6, <1>7, <1>9 DEF IInv, Inv

-----------------------------------------------------------------------------
(* Steps that write                                                        *)

\* A handler writes the row of its user and is over.  It makes one more manager than the
\* limit was checked for only if it is one of those that have counted.
LEMMA WriteKeeps ==
    ASSUME IInv, NEW h \in Handlers, op[h] \in Ops, Ends(h), limit' = limit,
           NEW m \in Rows \ {NoRow}, manager' = [manager EXCEPT ![op[h].user] = m],
           ceiling' = ceiling, exempt' \subseteq Active',
           Active' \ exempt' \subseteq
               (Active \ exempt) \cup (IF h \in Admitted THEN {op[h].user} ELSE {})
    PROVE  IInv'
<1>1. /\ op' \in [Handlers -> {Free} \cup Ops] /\ op'[h] = Free
      /\ \A g \in Handlers : g # h => op'[g] = op[g]
  BY DEF IInv, Inv, TypeOK, Ends, Ops
<1>2. /\ manager' \in [Users -> Rows]
      /\ \A u \in Users : manager[u] # NoRow => manager'[u] # NoRow
      /\ Active' \subseteq Active \cup {op[h].user}
  BY DEF IInv, Inv, TypeOK, Active, Ops
<1>3. TypeOK'
  BY <1>1, <1>2 DEF IInv, Inv, TypeOK, Ops, Active
<1>4. Known'
  <2>1. ASSUME NEW g \in Handlers, g # h
        PROVE  /\ op'[g].row # NoRow => manager'[op'[g].user] # NoRow
               /\ op'[g].at = "write" /\ op'[g].kind \in {"add", "owner"} => op'[g].row = NoRow
               /\ op'[g].at = "write" /\ op'[g].kind = "remove" => op'[g].row # NoRow
               /\ ~ op'[g].alone
    <3>1. op[g] = Free \/ op[g].user \in Users
      BY DEF IInv, Inv, TypeOK
    <3>2. ~ op[g].alone
      BY <2>1, FreeFacts DEF IInv, Inv, Known
    <3>. QED  BY <1>1, <1>2, <2>1, <3>1, <3>2, FreeFacts DEF IInv, Inv, Known
  <2>. QED  BY <1>1, <2>1, FreeFacts DEF Known
<1>5. IsFiniteSet(Active')
  <2>1. IsFiniteSet(Active \cup {op[h].user})
    BY FS_AddElement DEF IInv
  <2>. QED  BY <1>2, <2>1, FS_Subset
<1>6. LimitBounded'
  <2>1. Admitted' = Admitted \ {h}
    BY <1>1, FreeFacts DEF Admitted
  <2>2. /\ IsFiniteSet(Admitted') /\ Cardinality(Admitted') \in Nat
        /\ Cardinality(Admitted') = IF h \in Admitted THEN Cardinality(Admitted) - 1
                                                     ELSE Cardinality(Admitted)
    BY <2>1, Counted, FS_RemoveElement, FS_CardinalityType
  <2>3. /\ IsFiniteSet(Active' \ exempt') /\ Cardinality(Active' \ exempt') \in Nat
        /\ Cardinality(Active' \ exempt') <= IF h \in Admitted THEN Cardinality(Active \ exempt) + 1
                                                               ELSE Cardinality(Active \ exempt)
    <3>1. CASE h \in Admitted
      <4> DEFINE more == (Active \ exempt) \cup {op[h].user}
      <4>1. /\ IsFiniteSet(more) /\ Cardinality(more) <= Cardinality(Active \ exempt) + 1
            /\ Cardinality(more) \in Nat
        <5>1. IsFiniteSet(Active \ exempt) /\ Cardinality(Active \ exempt) \in Nat
          BY Counted
        <5>2. /\ IsFiniteSet(more)
              /\ Cardinality(more) = IF op[h].user \in Active \ exempt THEN Cardinality(Active \ exempt)
                                                                    ELSE Cardinality(Active \ exempt) + 1
          BY <5>1, FS_AddElement, Zenon
        <5> HIDE DEF more
        <5>. QED  BY <5>1, <5>2
      <4>2. Active' \ exempt' \subseteq more
        BY <3>1
      <4> HIDE DEF more
      <4>3. IsFiniteSet(Active' \ exempt') /\ Cardinality(Active' \ exempt') <= Cardinality(more)
        BY <4>1, <4>2, FS_Subset
      <4>. QED  BY <3>1, <4>1, <4>3, Counted, FS_CardinalityType
    <3>2. CASE h \notin Admitted
      BY <3>2, Counted, FS_Subset, FS_CardinalityType
    <3>. QED  BY <3>1, <3>2
  <2>. QED  BY <2>2, <2>3, Counted DEF IInv, LimitBounded
<1>. QED  BY <1>3, <1>4, <1>5, <1>6 DEF IInv, Inv

\* The rows of managers, and what the statements make of them.
LEMMA ManagerRow ==
    ASSUME NEW a \in BOOLEAN, NEW o \in {"manager", "admin"}
    PROVE  Row(a, o) \in Rows \ {NoRow} /\ Row(a, o).active = a
<1>1. Row(a, o) \in Rows
  BY DEF Rows
<1>2. Row(a, o).role = o /\ NoRow.role = "none"
  BY DEF Row, NoRow
<1>. QED  BY <1>1, <1>2 DEF Row

LEMMA RowsOfManagers ==
    \A r \in Rows \ {NoRow} : \E a \in BOOLEAN, o \in {"manager", "admin"} : r = Row(a, o)
BY DEF Rows

LEMMA NewRow ==
    ASSUME NEW o \in {"manager", "admin"}
    PROVE  Row(TRUE, o) \in Rows \ {NoRow} /\ Row(TRUE, o).active
<1> DEFINE yes == TRUE
<1>1. Row(yes, o) \in Rows \ {NoRow} /\ Row(yes, o).active = yes
  <2>1. yes \in BOOLEAN
    OBVIOUS
  <2> HIDE DEF yes
  <2>. QED  BY <2>1, ManagerRow
<1>. QED  BY <1>1

LEMMA SetActive ==
    ASSUME NEW r \in Rows \ {NoRow}, NEW a \in BOOLEAN
    PROVE  [r EXCEPT !.active = a] \in Rows \ {NoRow} /\ [r EXCEPT !.active = a].active = a
<1>1. PICK b \in BOOLEAN, o \in {"manager", "admin"} : r = Row(b, o)
  BY RowsOfManagers
<1>2. [r EXCEPT !.active = a] = Row(a, o)
  BY <1>1 DEF Row
<1>. QED  BY <1>2, ManagerRow

LEMMA Activated ==
    ASSUME NEW r \in Rows \ {NoRow}
    PROVE  [r EXCEPT !.active = TRUE] \in Rows \ {NoRow} /\ [r EXCEPT !.active = TRUE].active
<1> DEFINE yes == TRUE
<1>1. [r EXCEPT !.active = yes] \in Rows \ {NoRow} /\ [r EXCEPT !.active = yes].active = yes
  <2>1. yes \in BOOLEAN
    OBVIOUS
  <2> HIDE DEF yes
  <2>. QED  BY <2>1, SetActive
<1>. QED  BY <1>1

LEMMA Deactivated ==
    ASSUME NEW r \in Rows \ {NoRow}
    PROVE  [r EXCEPT !.active = FALSE] \in Rows \ {NoRow} /\ ~ [r EXCEPT !.active = FALSE].active
<1> DEFINE no == FALSE
<1>1. [r EXCEPT !.active = no] \in Rows \ {NoRow} /\ [r EXCEPT !.active = no].active = no
  <2>1. no \in BOOLEAN
    OBVIOUS
  <2> HIDE DEF no
  <2>. QED  BY <2>1, SetActive
<1>. QED  BY <1>1

LEMMA Promoted ==
    ASSUME NEW r \in Rows \ {NoRow}
    PROVE  /\ [r EXCEPT !.role = "admin"] \in Rows \ {NoRow}
           /\ [r EXCEPT !.role = "admin"].active = r.active
<1>1. PICK b \in BOOLEAN, o \in {"manager", "admin"} : r = Row(b, o)
  BY RowsOfManagers
<1>2. [r EXCEPT !.role = "admin"] = Row(b, "admin") /\ r.active = b
  BY <1>1 DEF Row
<1>. QED  BY <1>2, ManagerRow

\* A handler that writes has the row of a manager before it, or none.
LEMMA Writing ==
    ASSUME IInv, NEW h \in Handlers, op[h].at = "write"
    PROVE  /\ op[h] \in Ops /\ op[h].user \in Users /\ manager[op[h].user] \in Rows
           /\ op[h].row # NoRow => manager[op[h].user] \in Rows \ {NoRow}
           /\ op[h].kind \in {"add", "contact"} <=> h \in Admitted
<1>1. op[h] \in Ops
  BY AtWork DEF IInv, Inv
<1>. QED  BY <1>1 DEF IInv, Inv, TypeOK, Known, Admitted, Ops

LEMMA CreateKeeps == ASSUME IInv, NEW h \in Handlers, Create(h) PROVE IInv'
<1> DEFINE u == op[h].user
           m == Row(TRUE, IF op[h].kind \in {"add", "contact"} THEN "manager" ELSE "admin")
<1>1. CASE manager[u] # NoRow
  BY <1>1, EndsKeeps DEF Create
<1>2. CASE manager[u] = NoRow
  <2>1. /\ manager' = [manager EXCEPT ![u] = m] /\ u \in Users
        /\ exempt' = IF h \in Admitted THEN exempt ELSE exempt \cup {u}
    BY <1>2, Writing DEF Create
  <2>2. m \in Rows \ {NoRow} /\ m.active
    BY NewRow
  <2> HIDE DEF m
  <2>3. Active' = Active \cup {u}
    BY <2>1, <2>2 DEF Active, IInv, Inv, TypeOK
  <2>4. exempt \subseteq Active
    BY DEF IInv, Inv, TypeOK, Active
  <2>7. /\ exempt' \subseteq Active'
        /\ Active' \ exempt' \subseteq (Active \ exempt) \cup (IF h \in Admitted THEN {u} ELSE {})
    BY <2>1, <2>3, <2>4
  <2>8. op[h] \in Ops /\ Ends(h) /\ limit' = limit /\ ceiling' = ceiling
    BY Writing DEF Create
  <2>. QED  BY <2>1, <2>2, <2>7, <2>8, WriteKeeps
<1>. QED  BY <1>1, <1>2

LEMMA ChangeKeeps == ASSUME IInv, NEW h \in Handlers, Change(h) PROVE IInv'
<1> DEFINE u == op[h].user
<1>1. /\ op[h] \in Ops /\ Ends(h) /\ limit' = limit /\ u \in Users /\ manager[u] \in Rows \ {NoRow}
      /\ ceiling' = ceiling /\ (op[h].kind = "contact" => h \in Admitted)
  BY Writing DEF Change
<1>2. exempt \subseteq Active
  BY DEF IInv, Inv, TypeOK, Active
<1>3. CASE op[h].kind = "contact" /\ ~ op[h].row.active
  <2> DEFINE m == [manager[u] EXCEPT !.active = TRUE]
  <2>1. /\ manager' = [manager EXCEPT ![u] = m]
        /\ exempt' = IF manager[u].active THEN exempt ELSE exempt \ {u}
    BY <1>3 DEF Change
  <2>2. m \in Rows \ {NoRow} /\ m.active
    BY <1>1, Activated
  <2> HIDE DEF m
  <2>3. Active' = Active \cup {u}
    BY <1>1, <2>1, <2>2 DEF Active, IInv, Inv, TypeOK
    <2>5. u \in Active <=> manager[u].active
    BY <1>1 DEF Active
  <2>6. /\ exempt' \subseteq Active'
        /\ Active' \ exempt' \subseteq (Active \ exempt) \cup (IF h \in Admitted THEN {u} ELSE {})
    BY <1>1, <1>2, <1>3, <2>1, <2>3, <2>5
  <2>. QED  BY <1>1, <1>2, <2>1, <2>2, <2>6, WriteKeeps
<1>4. CASE op[h].kind = "contact" /\ op[h].row.active
  BY <1>4, EndsKeeps DEF Change
<1>5. CASE op[h].kind = "make_admin"
  <2> DEFINE m == [manager[u] EXCEPT !.role = "admin"]
  <2>1. manager' = [manager EXCEPT ![u] = m] /\ exempt' = exempt
    BY <1>5 DEF Change
  <2>2. m \in Rows \ {NoRow} /\ m.active = manager[u].active
    BY <1>1, Promoted
  <2> HIDE DEF m
  <2>3. Active' = Active
    BY <1>1, <2>1, <2>2 DEF Active, IInv, Inv, TypeOK
    <2>. QED  BY <1>1, <1>2, <2>1, <2>2, <2>3, WriteKeeps
<1>. QED  BY <1>3, <1>4, <1>5 DEF Change

\* Who is removed is no manager any more.
LEMMA DeactivateKeeps == ASSUME IInv, NEW h \in Handlers, Deactivate(h) PROVE IInv'
<1> DEFINE u == op[h].user
           m == [manager[u] EXCEPT !.active = FALSE]
<1>1. /\ op[h] \in Ops /\ Ends(h) /\ limit' = limit /\ u \in Users /\ manager[u] \in Rows \ {NoRow}
      /\ manager' = [manager EXCEPT ![u] = m] /\ exempt' = exempt \ {u}
      /\ ceiling' = ceiling
  BY Writing DEF Deactivate, IInv, Inv, Known
<1>2. exempt \subseteq Active
  BY DEF IInv, Inv, TypeOK, Active
<1>3. m \in Rows \ {NoRow} /\ ~ m.active
  BY <1>1, Deactivated
<1> HIDE DEF m
<1>4. Active' = Active \ {u}
  BY <1>1, <1>3 DEF Active, IInv, Inv, TypeOK
<1>6. exempt' \subseteq Active' /\ Active' \ exempt' \subseteq Active \ exempt
  BY <1>1, <1>2, <1>4
<1>. QED  BY <1>1, <1>3, <1>6, WriteKeeps

\* Neither a change of plan nor a stuttering step touches managers or handlers.
LEMMA OthersKeep ==
    ASSUME IInv, UNCHANGED <<manager, op, exempt, ceiling>>, limit' \in Limits
    PROVE  IInv'
<1>1. TypeOK'
  BY DEF IInv, Inv, TypeOK
<1>2. Known'
  BY DEF IInv, Inv, Known, Found, AnyRow, ActiveRow
<1>3. Active' = Active /\ Admitted' = Admitted
  BY DEF Active, Admitted
<1>. QED  BY <1>1, <1>2, <1>3 DEF IInv, Inv, LimitBounded

-----------------------------------------------------------------------------
(* The theorems                                                            *)

LEMMA InitIInv == Init => IInv
<1> SUFFICES ASSUME Init PROVE IInv  OBVIOUS
<1>1. TypeOK
  BY DEF Init, TypeOK, Rows
<1>2. Known
  BY FreeFacts DEF Init, Known
<1>4. Active = {} /\ Admitted = {}
  BY FreeFacts DEF Init, Active, Admitted
<1>5. Cardinality(Handlers) \in Nat \ {0}
  BY ManagersAssumption, FS_EmptySet, FS_CardinalityType
<1>6. IsFiniteSet({}) /\ Cardinality({}) = 0
  BY FS_EmptySet
<1>7. LimitBounded
  <2>1. Active \ exempt = {}
    BY <1>4
  <2>2. ceiling = 0
    BY DEF Init
  <2>. QED  BY <1>4, <1>5, <1>6, <2>1, <2>2 DEF LimitBounded
<1>. QED  BY <1>1, <1>2, <1>4, <1>6, <1>7 DEF IInv, Inv

LEMMA NextIInv == IInv /\ [Next]_vars => IInv'
<1> SUFFICES ASSUME IInv, [Next]_vars PROVE IInv'  OBVIOUS
<1>1. ASSUME NEW h \in Handlers, Work(h) PROVE IInv'
  <2>1. CASE Fails(h)
    BY <2>1, EndsKeeps DEF Fails
  <2>. QED  BY <1>1, <2>1, StartKeeps, CountKeeps, LookKeeps, CreateKeeps, ChangeKeeps,
               DeactivateKeeps DEF Work
<1>3. ASSUME NEW l \in Limits, SetTenantLimits(l) PROVE IInv'
  BY <1>3, OthersKeep DEF SetTenantLimits
<1>4. CASE UNCHANGED vars
  <2>1. limit' \in Limits
    BY <1>4 DEF IInv, Inv, TypeOK, vars
  <2>. QED  BY <1>4, <2>1, OthersKeep DEF vars
<1>. QED  BY <1>1, <1>3, <1>4 DEF Next

LEMMA Invariant == Spec => []IInv
BY InitIInv, NextIInv, PTL DEF Spec

\* Inv: for any users and any number of handlers at the same time, what a handler has
\* read still holds as far as it needs it (get_manager_by_tg_id, deactivate_manager).
THEOREM HandlersKnow == Spec => []Inv
<1>1. IInv => Inv
  BY DEF IInv
<1>. QED  BY <1>1, Invariant, PTL

\* LimitBounded: whatever the limits, and however they change, only the handlers that have
\* counted before one of them wrote pass the limit they went by (cmd_add_manager,
\* handle_manager_contact).
THEOREM LimitIsBounded == Spec => []LimitBounded
<1>1. IInv => LimitBounded
  BY DEF IInv
<1>. QED  BY <1>1, Invariant, PTL

\* EnteredIsManager: a handler with no other around makes an active manager of whom it
\* enters, but for a removed one whom a command names (get_manager_by_tg_id).
THEOREM WhoIsEnteredIsManager == Spec => EnteredIsManager
<1> DEFINE Entered ==
      \A h \in Handlers : LET u == op[h].user IN
          /\ Enters(h, {"contact"}) => manager'[u].active
          /\ Enters(h, {"add", "make_admin", "owner"}) =>
                IF manager[u] # NoRow /\ ~ manager[u].active
                THEN manager'[u] = manager[u] ELSE manager'[u].active
<1>1. IInv => Entered
  <2> SUFFICES ASSUME IInv, NEW h \in Handlers, op[h].alone, op[h].at = "write",
                      Create(h) \/ Change(h)
               PROVE  /\ op[h].kind = "contact" => manager'[op[h].user].active
                      /\ op[h].kind \in {"add", "make_admin", "owner"} =>
                            IF manager[op[h].user] # NoRow /\ ~ manager[op[h].user].active
                            THEN manager'[op[h].user] = manager[op[h].user]
                            ELSE manager'[op[h].user].active
    BY DEF Enters
  <2> DEFINE u == op[h].user
  <2>1. op[h].row = Found(h) /\ u \in Users /\ manager \in [Users -> Rows]
    BY Writing DEF IInv, Inv, Known, TypeOK
  <2>2. CASE Create(h)
    <3>1. CASE manager[u] = NoRow
      BY <2>1, <2>2, <3>1 DEF Create, Row
    <3>2. CASE manager[u] # NoRow
      <4>1. op[h].kind # "contact" /\ ~ manager[u].active /\ manager' = manager
        BY <2>1, <2>2, <3>2, FreeFacts DEF Create, Found, AnyRow, ActiveRow
      <4>. QED  BY <3>2, <4>1
    <3>. QED  BY <3>1, <3>2
  <2>3. CASE Change(h)
    <3>1. manager[u] \in Rows \ {NoRow}
      BY <2>3, Writing DEF Change
    <3>2. CASE op[h].kind = "contact" /\ ~ op[h].row.active
      BY <2>1, <2>3, <3>1, <3>2 DEF Change, Rows, Row
    <3>3. CASE op[h].kind = "contact" /\ op[h].row.active
      BY <2>1, <2>3, <3>3 DEF Change, Found, AnyRow
    <3>4. CASE op[h].kind = "make_admin"
      <4>1. manager[u].active
        BY <2>1, <2>3, <3>4 DEF Change, Found, ActiveRow
      <4>2. manager' = [manager EXCEPT ![u].role = "admin"]
        BY <2>3, <3>4 DEF Change
      <4>3. manager'[u].active
        BY <2>1, <3>1, <4>1, <4>2 DEF Rows, Row
      <4>. QED  BY <3>4, <4>1, <4>3
    <3>. QED  BY <2>3, <3>2, <3>3, <3>4 DEF Change
  <2>. QED  BY <2>2, <2>3
<1>2. IInv => [Entered]_vars
  BY <1>1
<1>. QED  BY <1>2, Invariant, PTL DEF EnteredIsManager

-----------------------------------------------------------------------------
(* The monthly leads                                                       *)

\* Before any request the counter is empty.
LEMMA InitQuota == QuotaInit => QuotaInv
BY QuotaAssumption
   DEF QuotaInit, QuotaInv, QuotaTypeOK, CounterIsExact, RowLocked, Asked

\* A stuttering step keeps everything.
LEMMA StutterQuota == QuotaInv /\ UNCHANGED quotaVars => QuotaInv'
BY DEF QuotaInv, QuotaTypeOK, CounterIsExact, RowLocked, Asked, quotaVars, row, draft,
       Fits, CountWith, MonthWith, NeedsReset

\* The steps that leave the row and what the transactions have written alone,
\* and only move a request to a place where it holds no lock.
LEMMA MoveIInv ==
    ASSUME QuotaInv, NEW r \in Requests,
           \/ Authorize(r) \/ Ask(r) \/ Refuse(r) \/ CommitUncounted(r)
           \/ Fail(r) \/ Return(r)
    PROVE  QuotaInv'
<1> USE DEF QuotaInv, Goto
<1>1. UNCHANGED <<now, leadLimit, count, month, counted>>
  BY DEF Authorize, Ask, Refuse, CommitUncounted, Fail, Return, row, draft
<1>2. QuotaTypeOK'
  <2>1. now \in 0 .. now /\ 0 \in 0 .. now
    BY QuotaAssumption DEF QuotaTypeOK
  <2>2. pc' \in [Requests -> {"idle", "authorized", "asked", "reserved", "free",
                              "created", "refused", "failed"}]
    BY DEF QuotaTypeOK, Authorize, Ask, Refuse, CommitUncounted, Fail, Return
  <2>3. stamp' \in [Requests -> 0 .. now]
    BY <2>1 DEF QuotaTypeOK, Authorize, Ask, Refuse, CommitUncounted, Fail, Return, draft
  <2>4. nextCount' \in [Requests -> Nat] /\ nextMonth' \in [Requests -> 0 .. now]
    <3>1. CASE Return(r)
      BY <3>1, <2>1 DEF QuotaTypeOK, Return
    <3>2. CASE UNCHANGED <<nextCount, nextMonth>>
      BY <3>2 DEF QuotaTypeOK
    <3> QED  BY <3>1, <3>2
             DEF Authorize, Ask, Refuse, CommitUncounted, Fail, draft
  <2> QED  BY <1>1, <2>2, <2>3, <2>4 DEF QuotaTypeOK
<1>3. CounterIsExact'
  BY <1>1 DEF CounterIsExact
<1>4. ASSUME NEW q \in Requests, pc'[q] = "reserved"
      PROVE  q # r /\ pc[q] = "reserved" /\ stamp'[q] = stamp[q]
             /\ nextCount'[q] = nextCount[q] /\ nextMonth'[q] = nextMonth[q]
  BY <1>4 DEF QuotaTypeOK, Authorize, Ask, Refuse, CommitUncounted, Fail, Return, row, draft
<1>5. RowLocked'
  BY <1>1, <1>4 DEF RowLocked, Fits, CountWith, MonthWith, NeedsReset
<1>6. Asked'
  BY <1>1 DEF QuotaTypeOK, Asked, Authorize, Ask, Refuse, CommitUncounted, Fail, Return, row, draft
<1> QED  BY <1>2, <1>3, <1>5, <1>6

\* The UPDATE: no other transaction holds the row.
LEMMA ReserveIInv ==
    ASSUME QuotaInv, NEW r \in Requests, Reserve(r)
    PROVE  QuotaInv'
<1> USE DEF QuotaInv, Goto
<1>1. UNCHANGED <<now, leadLimit, count, month, counted, stamp>>
  BY DEF Reserve, row
<1>2. stamp[r] \in 1 .. now
  BY DEF Reserve, Asked
<1>3. CountWith(r) \in Nat /\ MonthWith(r) \in 0 .. now
  BY <1>2 DEF QuotaTypeOK, CountWith, MonthWith
<1>4. QuotaTypeOK'
  BY <1>1, <1>3 DEF QuotaTypeOK, Reserve
<1>5. CounterIsExact'
  BY <1>1 DEF CounterIsExact
<1>6. ASSUME NEW q \in Requests, pc'[q] = "reserved"
      PROVE  q = r
  BY <1>6 DEF Reserve, Locked, QuotaTypeOK
<1>7. nextCount'[r] = CountWith(r) /\ nextMonth'[r] = MonthWith(r) /\ Fits(r)
  BY DEF Reserve, QuotaTypeOK
<1>8. RowLocked'
  BY <1>1, <1>2, <1>6, <1>7 DEF RowLocked, Fits, CountWith, MonthWith, NeedsReset
<1>9. Asked'
  BY <1>1 DEF Asked, Reserve, QuotaTypeOK
<1> QED  BY <1>4, <1>5, <1>8, <1>9

\* What a transaction commits is the next lead of its counter's month.
LEMMA CommitCounts ==
    ASSUME QuotaInv, NEW r \in Requests, CommitCounted(r)
    PROVE  /\ month' \in 1 .. now /\ month' >= month
           /\ count' = counted'[month']
           /\ \A m \in 1 .. MaxMonth : m # month' => counted'[m] = counted[m]
           /\ \A m \in 1 .. MaxMonth : m > month' => counted[m] = 0
           /\ leadLimit = NoLimit \/ count' <= leadLimit
<1> USE DEF QuotaInv, QuotaTypeOK
<1>1. stamp[r] \in 1 .. now /\ nextCount[r] = CountWith(r)
      /\ nextMonth[r] = MonthWith(r) /\ Fits(r)
  BY DEF RowLocked, CommitCounted
<1>2. month' = MonthWith(r) /\ count' = CountWith(r)
      /\ counted' = [counted EXCEPT ![MonthWith(r)] = @ + 1]
  BY <1>1 DEF CommitCounted
<1>3. MonthWith(r) \in 1 .. now /\ MonthWith(r) >= month
  BY <1>1 DEF MonthWith, NeedsReset
<1>4. MonthWith(r) \in 1 .. MaxMonth
  BY <1>3, QuotaAssumption
<1>5. CountWith(r) = counted[MonthWith(r)] + 1
  <2>1. CASE NeedsReset(r)
    <3>1. MonthWith(r) = stamp[r] /\ stamp[r] > month /\ CountWith(r) = 1
      BY <1>1, <2>1 DEF MonthWith, CountWith, NeedsReset
    <3>2. counted[MonthWith(r)] = 0
      BY <3>1, <1>4 DEF CounterIsExact
    <3> QED  BY <3>1, <3>2
  <2>2. CASE ~ NeedsReset(r)
    <3>1. MonthWith(r) = month /\ CountWith(r) = count + 1
      BY <2>2 DEF MonthWith, CountWith
    <3>2. count = counted[month]
      BY <3>1, <1>3 DEF CounterIsExact
    <3> QED  BY <3>1, <3>2
  <2> QED  BY <2>1, <2>2
<1>6. leadLimit = NoLimit \/ CountWith(r) <= leadLimit
  BY <1>1 DEF Fits
<1>7. \A m \in 1 .. MaxMonth : m > MonthWith(r) => counted[m] = 0
  BY <1>3 DEF CounterIsExact
<1> QED  BY <1>2, <1>3, <1>4, <1>5, <1>6, <1>7

\* The commit releases the only lock there is.
LEMMA CommitIInv ==
    ASSUME QuotaInv, NEW r \in Requests, CommitCounted(r)
    PROVE  QuotaInv'
<1> USE DEF QuotaInv, Goto
<1>1. UNCHANGED <<now, leadLimit, stamp, nextCount, nextMonth>>
  BY DEF CommitCounted, draft
<1>2. /\ month' \in 1 .. now /\ month' >= month
      /\ count' = counted'[month']
      /\ \A m \in 1 .. MaxMonth : m # month' => counted'[m] = counted[m]
      /\ \A m \in 1 .. MaxMonth : m > month' => counted[m] = 0
  BY CommitCounts
<1>3. QuotaTypeOK'
  <2>1. nextMonth[r] = month' /\ month' \in 1 .. MaxMonth
    BY <1>2, QuotaAssumption DEF CommitCounted, QuotaTypeOK
  <2>2. counted' \in [1 .. MaxMonth -> Nat]
    BY <2>1 DEF CommitCounted, QuotaTypeOK
  <2>3. count' \in Nat
    BY <1>2, <2>1, <2>2
  <2> QED  BY <1>1, <1>2, <2>2, <2>3 DEF QuotaTypeOK, CommitCounted
<1>4. CounterIsExact'
  <2>1. \A m \in 1 .. MaxMonth : m > month' => m # month'
    BY <1>2 DEF QuotaTypeOK
  <2>2. month' # 0
    BY <1>2 DEF QuotaTypeOK
  <2> QED  BY <2>1, <2>2, <1>2 DEF CounterIsExact
<1>5. \A q \in Requests : pc'[q] # "reserved"
  BY DEF RowLocked, CommitCounted, QuotaTypeOK
<1>6. RowLocked'
  BY <1>5 DEF RowLocked
<1>7. Asked'
  BY <1>1 DEF Asked, CommitCounted, QuotaTypeOK
<1> QED  BY <1>3, <1>4, <1>6, <1>7

\* A plan changes only while no transaction has counted against the old one.
LEMMA ChangePlanIInv ==
    ASSUME QuotaInv, NEW l \in LeadLimits, ChangePlan(l)
    PROVE  QuotaInv'
BY DEF QuotaInv, QuotaTypeOK, CounterIsExact, RowLocked, Asked, ChangePlan, Locked, draft

\* The clock moves under the waiting requests.
LEMMA NextMonthIInv ==
    ASSUME QuotaInv, NextMonth
    PROVE  QuotaInv'
<1>1. UNCHANGED <<leadLimit, count, month, pc, stamp, nextCount, nextMonth, counted>>
      /\ now' = now + 1 /\ now' \in 1 .. MaxMonth
  BY QuotaAssumption DEF NextMonth, row, draft, QuotaInv, QuotaTypeOK
<1>2. QuotaTypeOK' /\ CounterIsExact' /\ Asked'
  BY <1>1 DEF QuotaInv, QuotaTypeOK, CounterIsExact, Asked
<1>3. RowLocked'
  BY <1>1 DEF QuotaInv, QuotaTypeOK, RowLocked, Fits, CountWith, MonthWith, NeedsReset
<1> QED  BY <1>2, <1>3 DEF QuotaInv

\* The invariant is inductive.
LEMMA NextQuota == QuotaInv /\ [QuotaNext]_quotaVars => QuotaInv'
BY MoveIInv, ReserveIInv, CommitIInv, ChangePlanIInv, NextMonthIInv, StutterQuota
   DEF QuotaNext, Request

\* The inductive invariant of the quota holds in every reachable state.
THEOREM QuotaInvariant == QuotaSpec => []QuotaInv
BY InitQuota, NextQuota, PTL DEF QuotaSpec

\* The counter in the tenant's row is the number of leads committed in its month.
THEOREM CounterIsAlwaysExact == QuotaSpec => []CounterIsExact
<1>1. QuotaInv => CounterIsExact
  BY DEF QuotaInv
<1> QED  BY <1>1, QuotaInvariant, PTL

\* A lead is counted only while the month has room for it.
THEOREM QuotaIsNeverExceeded == QuotaSpec => QuotaHolds
<1>1. ASSUME QuotaInv, [QuotaNext]_quotaVars,
             NEW m \in 1 .. MaxMonth, counted'[m] > counted[m]
      PROVE  leadLimit = NoLimit \/ counted'[m] <= leadLimit
  <2>1. counted' # counted
    <3>1. counted[m] \in Nat
      BY <1>1 DEF QuotaInv, QuotaTypeOK
    <3> QED  BY <3>1, <1>1
  <2>2. PICK r \in Requests : CommitCounted(r)
    BY <2>1, <1>1 DEF QuotaNext, Request, quotaVars, Authorize, Ask, Reserve, Refuse, CommitUncounted,
                      Fail, Return, ChangePlan, NextMonth
  <2>3. m = month'
    <3>1. m # month' => counted'[m] = counted[m]
      BY <2>2, <1>1, CommitCounts
    <3>2. counted[m] \in Nat
      BY <1>1 DEF QuotaInv, QuotaTypeOK
    <3> QED  BY <3>1, <3>2, <1>1
  <2> QED  BY <2>2, <2>3, <1>1, CommitCounts
<1>2. QuotaInv /\ [QuotaNext]_quotaVars =>
        [\A m \in 1 .. MaxMonth :
            counted'[m] > counted[m] => leadLimit = NoLimit \/ counted'[m] <= leadLimit]_quotaVars
  BY <1>1
<1> QED  BY <1>2, QuotaInvariant, PTL DEF QuotaSpec, QuotaHolds

\* A request is refused only when the counter's month has used the limit up.
THEOREM NoRequestIsRefusedFalsely == QuotaSpec => NoFalseRefusal
<1>1. ASSUME QuotaInv, [QuotaNext]_quotaVars,
             NEW r \in Requests, pc[r] = "asked", pc'[r] = "refused"
      PROVE  /\ leadLimit # NoLimit
             /\ leadLimit = 0 \/ (month > 0 /\ month >= stamp[r] /\ counted[month] >= leadLimit)
  <2>1. Refuse(r)
    <3>1. pc' # pc
      BY <1>1
    <3>2. PICK q \in Requests :
             \/ Authorize(q) \/ Ask(q) \/ Reserve(q) \/ Refuse(q)
             \/ CommitCounted(q) \/ CommitUncounted(q) \/ Fail(q) \/ Return(q)
      BY <3>1, <1>1 DEF QuotaNext, Request, quotaVars, ChangePlan, NextMonth
    <3>3. \E label \in {"free", "authorized", "asked", "reserved", "refused", "created",
                        "failed", "idle"} :
            pc' = [pc EXCEPT ![q] = label] /\ (label = "refused" => Refuse(q))
      BY <3>2 DEF Authorize, Ask, Reserve, Refuse, CommitCounted, CommitUncounted,
                  Fail, Return, Goto
    <3>4. pc \in [Requests -> {"idle", "authorized", "asked", "reserved", "free",
                               "created", "refused", "failed"}]
      BY <1>1 DEF QuotaInv, QuotaTypeOK
    <3> QED  BY <3>3, <3>4, <1>1
  <2>2. leadLimit # NoLimit /\ leadLimit \in Nat /\ CountWith(r) > leadLimit
    BY <2>1, <1>1, QuotaAssumption DEF Refuse, Fits, CountWith, QuotaInv, QuotaTypeOK
  <2>3. stamp[r] \in 1 .. now
    BY <2>1, <1>1 DEF Refuse, QuotaInv, Asked
  <2>4. CASE NeedsReset(r)
    BY <2>2, <2>4 DEF CountWith
  <2>5. CASE ~ NeedsReset(r)
    <3>1. month >= stamp[r] /\ month > 0
      BY <2>3, <2>5, <1>1 DEF NeedsReset, QuotaInv, QuotaTypeOK
    <3>2. count = counted[month]
      BY <3>1, <1>1 DEF QuotaInv, CounterIsExact
    <3>3. count + 1 > leadLimit
      BY <2>2, <2>5 DEF CountWith
    <3> QED  BY <2>2, <3>1, <3>2, <3>3, <1>1 DEF QuotaInv, QuotaTypeOK
  <2> QED  BY <2>4, <2>5
<1>2. QuotaInv /\ [QuotaNext]_quotaVars =>
        [\A r \in Requests :
            pc[r] = "asked" /\ pc'[r] = "refused" =>
                /\ leadLimit # NoLimit
                /\ leadLimit = 0 \/ (month > 0 /\ month >= stamp[r] /\ counted[month] >= leadLimit)]_quotaVars
  BY <1>1
<1> QED  BY <1>2, QuotaInvariant, PTL DEF QuotaSpec, NoFalseRefusal

-----------------------------------------------------------------------------
(* Both in one row                                                         *)

\* Every step of a tenant, whose plan changes both limits at once (set_tenant_limits), is one
\* of its managers and one of its quota: all that is proved above holds of them together.
THEOREM TenantKeepsBoth == TenantSpec => Spec /\ QuotaSpec
<1>1. TenantInit => Init /\ QuotaInit
  BY DEF TenantInit
<1>2. [TenantNext]_tenantVars => [Next]_vars /\ [QuotaNext]_quotaVars
  <2>1. Plan => Next /\ QuotaNext
    BY TenantLimitsAssumption DEF Plan, SetPlan, Next, QuotaNext
  <2>. QED  BY <2>1 DEF TenantNext, Bot, Api, Next, QuotaNext, tenantVars
<1>. QED  BY <1>1, <1>2, PTL DEF TenantSpec, Spec, QuotaSpec
=============================================================================
