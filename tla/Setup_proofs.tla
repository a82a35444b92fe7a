---------------------------- MODULE Setup_proofs ----------------------------
(***************************************************************************)
(* /setup for any tenants, groups, runs, topics and faults: an onboarded   *)
(* tenant has all its topics, however runs overlap, fail or die; and as    *)
(* long as they do not overlap, /setup makes no second topic, repairs what *)
(* it can, and keeps the cache and the binding.                            *)
(***************************************************************************)
EXTENDS Setup, TLAPS

Pcs == {"idle", "map", "probe", "create", "record", "write", "commit",
        "invalidate", "resolve", "menu", "message", "bind"}

\* The runs, when n topics have been made.
Maps(n) == [Keys -> 0 .. n]
Job(n)  == [pc : Pcs, t : Tenants \cup {Absent}, g : Groups \cup {Unbound}, bind : BOOLEAN,
            i : 1 .. Len(Order) + 1, map : Maps(n), thread : 0 .. n, seen : BOOLEAN,
            writes : Maps(n), err : BOOLEAN, broken : BOOLEAN, shaken : BOOLEAN]

\* Where a run can be, by what it has got to.
Shape(j) ==
    /\ j.pc = "idle" => j = NoJob
    /\ j.pc # "idle" => j.g \in Groups
    /\ j.pc \in {"map", "probe", "commit", "message", "bind"} => ~ InCabinet(j)
    /\ ~ InCabinet(j) =>
          /\ j.pc = "map" => j.i = 1 /\ ~ j.err
          /\ j.pc = "probe" => j.i <= Len(Topics)
          /\ j.pc \in {"create", "record", "write"} => j.i <= Len(Order)
          /\ j.pc \in {"commit", "message"} => j.i = Len(Topics) + 1
          /\ j.pc = "bind" => j.i > Len(Topics)
          /\ j.pc \in {"invalidate", "resolve", "menu"} => j.i \in Len(Topics) + 1 .. Len(Order)
    /\ j.pc = "invalidate" /\ InCabinet(j) => j.thread # 0
    /\ j.pc \in {"record", "write"} => j.thread # 0

\* A topic of a run, of a row or of a transaction was made for that key in that group.
MadeFor(x, g, k, th) == x # 0 => th[x] = [g |-> g, k |-> k]
Own(j, th) ==
    /\ \A k \in Keys : MadeFor(j.map[k], j.g, k, th) /\ MadeFor(j.writes[k], j.g, k, th)
    /\ j.pc \in {"record", "write"} => MadeFor(j.thread, j.g, Key(j), th)

\* A run without an error has written what it has gone through, and then all is recorded.
Complete(g, rw) == \A k \in Keys : rw[g][k] # 0
Recorded(j, rw) ==
    ~ InCabinet(j) /\ ~ j.err =>
        /\ ~ InMenu(j) => \A n \in 1 .. j.i - 1 : j.writes[Topics[n]] # 0
        /\ j.pc = "commit" => \A k \in Keys : j.writes[k] # 0
        /\ InMenu(j) /\ j.pc # "commit" => Complete(j.g, rw)

\* The tenant of a run is registered; when it is not to be bound it has the group already,
\* or by now another one that is complete.
Placed(j, gr, rw) ==
    j.pc # "idle" /\ ~ InCabinet(j) =>
        /\ gr[j.t] # Absent
        /\ ~ j.bind => gr[j.t] \in Groups /\ (gr[j.t] = j.g \/ Complete(gr[j.t], rw))

\* A run, in a state with these topics made, rows and groups.
RunOK(j, th, rw, gr) == Shape(j) /\ Own(j, th) /\ Recorded(j, rw) /\ Placed(j, gr, rw)

RowsMade == \A g \in Groups, k \in Keys : MadeFor(rows[g][k], g, k, threads)
SetupInv == Inv /\ RowsMade /\ \A r \in Runs : RunOK(job[r], threads, rows, group)

-----------------------------------------------------------------------------
(* The topics in order                                                     *)

LEMMA OrderFacts ==
    /\ Order \in Seq(Keys) /\ Len(Topics) \in Nat \ {0} /\ Len(Order) \in Nat
    /\ Len(Order) > Len(Topics) + 1
    /\ \A n \in 1 .. Len(Topics) : Order[n] = Topics[n]
    /\ Order[Len(Topics) + 1] = Panel
    /\ \A n \in 1 .. Len(Order) : Order[n] \in Keys
    /\ Cabinet \in Keys /\ Panel \in Keys
    /\ \A k \in Keys : \E n \in 1 .. Len(Topics) : k = Topics[n]
<1>1. /\ Topics \in Seq(Keys) /\ Topics # << >> /\ {Panel, Cabinet} \subseteq Keys
      /\ MenuTopics \in Seq(Keys) /\ MenuTopics # << >>
  BY SetupAssumption
<1>2. Order \in Seq(Keys) /\ Len(Order) = Len(Topics) + 1 + Len(MenuTopics)
  BY <1>1 DEF Order
<1>3. Len(Topics) \in Nat \ {0} /\ Len(MenuTopics) \in Nat \ {0}
  BY <1>1
<1>4. /\ \A n \in 1 .. Len(Topics) : Order[n] = Topics[n]
      /\ Order[Len(Topics) + 1] = Panel
  BY <1>1, <1>3 DEF Order
<1>5. \A n \in 1 .. Len(Order) : Order[n] \in Keys
  BY <1>2
<1>6. \A k \in Keys : \E n \in 1 .. Len(Topics) : k = Topics[n]
  BY <1>1 DEF Keys
<1>. QED  BY <1>1, <1>2, <1>3, <1>4, <1>5, <1>6

LEMMA IdleFacts ==
    ASSUME NEW n \in Nat
    PROVE  /\ NoJob \in Job(n) /\ None \in Maps(n) /\ NoLookup.g = Unbound /\ NoLookup.map = None
           /\ NoJob.pc = "idle" /\ NoJob.t = Absent /\ NoJob.g = Unbound /\ NoJob.i = 1
           /\ NoJob.map = None /\ NoJob.writes = None /\ NoJob.thread = 0 /\ ~ NoJob.err
           /\ ~ NoJob.shaken /\ ~ NoJob.broken /\ InCabinet(NoJob)
           /\ \A k \in Keys : None[k] = 0
<1>1. None \in Maps(n) /\ \A k \in Keys : None[k] = 0
  BY DEF None, Maps
<1>2. 1 \in 1 .. Len(Order) + 1
  BY OrderFacts
<1>. QED  BY <1>1, <1>2 DEF NoJob, NoLookup, Job, Pcs, InCabinet

\* The fields of a run.
LEMMA JobFields ==
    ASSUME NEW n \in Nat, NEW j \in Job(n)
    PROVE  /\ j.pc \in Pcs /\ j.t \in Tenants \cup {Absent} /\ j.g \in Groups \cup {Unbound}
           /\ j.bind \in BOOLEAN /\ j.i \in 1 .. Len(Order) + 1 /\ j.map \in Maps(n)
           /\ j.thread \in 0 .. n /\ j.seen \in BOOLEAN /\ j.writes \in Maps(n)
           /\ j.err \in BOOLEAN /\ j.broken \in BOOLEAN /\ j.shaken \in BOOLEAN
           /\ j.i \in Nat
BY OrderFacts DEF Job

LEMMA KeyIsKey ==
    ASSUME NEW n \in Nat, NEW j \in Job(n), InCabinet(j) \/ j.i <= Len(Order)
    PROVE  Key(j) \in Keys
BY JobFields, OrderFacts DEF Key

\* What changes a run by a step, and what does not.
Kept(n, j) == n.t = j.t /\ n.g = j.g /\ n.bind = j.bind /\ n.shaken = j.shaken

LEMMA TopicIs ==
    ASSUME NEW n \in Nat, NEW j \in Job(n)
    PROVE  /\ Topic(j) \in Job(n) /\ Kept(Topic(j), j) /\ Topic(j).i = j.i /\ Topic(j).map = j.map
           /\ Topic(j).writes = j.writes /\ Topic(j).err = j.err /\ Topic(j).thread = j.thread
           /\ Topic(j).broken = j.broken /\ Topic(j).seen = j.seen
           /\ Topic(j).pc = IF j.map[Key(j)] # 0 THEN "probe" ELSE "create"
BY DEF Topic, Job, Kept, Pcs

\* NextTopic, of the run with its next number in it.
Next1(j) == [j EXCEPT !.i = @ + 1, !.thread = 0, !.seen = FALSE, !.broken = @ /\ ~ InPanel(j)]

LEMMA Next1Is ==
    ASSUME NEW n \in Nat, NEW j \in Job(n), j.i <= Len(Order)
    PROVE  /\ Next1(j) \in Job(n) /\ Kept(Next1(j), j) /\ Next1(j).i = j.i + 1 /\ Next1(j).map = j.map
           /\ Next1(j).writes = j.writes /\ Next1(j).err = j.err /\ Next1(j).thread = 0
           /\ Next1(j).pc = j.pc /\ (Next1(j).broken => j.broken)
<1> DEFINE b == j.broken /\ ~ InPanel(j)
           x == j.i + 1
           n1 == [j EXCEPT !.i = x, !.thread = 0, !.seen = FALSE, !.broken = b]
<1>1. b \in BOOLEAN /\ x \in 1 .. Len(Order) + 1 /\ (b => j.broken)
  BY JobFields, OrderFacts
<1>2. Next1(j) = n1
  BY DEF Next1
<1>3. 0 \in 0 .. n
  OBVIOUS
<1> HIDE DEF b, x
<1>4. /\ n1 \in Job(n) /\ n1.i = x /\ n1.t = j.t /\ n1.g = j.g /\ n1.bind = j.bind /\ n1.shaken = j.shaken
      /\ n1.map = j.map /\ n1.writes = j.writes /\ n1.err = j.err /\ n1.thread = 0 /\ n1.pc = j.pc
      /\ n1.broken = b
  BY <1>1, <1>3 DEF Job
<1>. QED  BY <1>1, <1>2, <1>4 DEF Kept, x

\* What is next for a run of /setup, by where it is.
LEMMA NextIs ==
    ASSUME NEW n \in Nat, NEW j \in Job(n), ~ InCabinet(j), j.i <= Len(Order), NEW m, m = NextTopic(j)
    PROVE  /\ m \in Job(n) /\ Kept(m, j) /\ m.i = j.i + 1 /\ m.map = j.map /\ m.writes = j.writes
           /\ m.err = j.err /\ m.thread = 0 /\ (m.broken => j.broken)
           /\ m.pc = "create" => m.map[Key(m)] = 0
           /\ j.i < Len(Topics) => m.pc \in {"probe", "create"}
           /\ j.i = Len(Topics) => m.pc = "commit"
           /\ j.i > Len(Topics) => m.pc = IF j.i < Len(Order) THEN "resolve" ELSE "bind"
<1> DEFINE x == Next1(j)
<1>1. /\ x \in Job(n) /\ Kept(x, j) /\ x.i = j.i + 1 /\ x.map = j.map
      /\ x.writes = j.writes /\ x.err = j.err /\ x.thread = 0 /\ (x.broken => j.broken)
  BY Next1Is
<1>2. j.i \in Nat /\ Len(Topics) \in Nat \ {0} /\ Len(Order) \in Nat /\ Len(Order) > Len(Topics) + 1
  BY JobFields, OrderFacts
<1>3. m = IF x.i <= Len(Topics) THEN Topic(x)
          ELSE IF j.i = Len(Topics) THEN [x EXCEPT !.pc = "commit"]
          ELSE IF x.i <= Len(Order) THEN Ensure(x)
          ELSE [x EXCEPT !.pc = "bind"]
  <2>1. m = CASE x.i <= Len(Topics)             -> Topic(x)
              [] j.i = Len(Topics)              -> [x EXCEPT !.pc = "commit"]
              [] InMenu(j) /\ x.i <= Len(Order) -> Ensure(x)
              [] OTHER                          -> [x EXCEPT !.pc = "bind"]
    BY DEF NextTopic, Next1
  <2>2. InMenu(j) <=> j.i > Len(Topics)
    BY DEF InMenu
  <2> HIDE DEF x
  <2>. QED  BY <1>1, <1>2, <2>1, <2>2
<1>4. CASE x.i <= Len(Topics)
  <2>1. m = Topic(x) /\ j.i < Len(Topics)
    BY <1>1, <1>2, <1>3, <1>4
  <2> HIDE DEF x
  <2>2. /\ m \in Job(n) /\ Kept(m, x) /\ m.i = x.i /\ m.map = x.map /\ m.writes = x.writes
        /\ m.err = x.err /\ m.thread = x.thread /\ m.broken = x.broken
        /\ m.pc = IF x.map[Key(x)] # 0 THEN "probe" ELSE "create"
    BY <1>1, <2>1, TopicIs
  <2>3. Key(m) = Key(x)
    BY <2>2 DEF Key, InCabinet, Kept
  <2>. QED  BY <1>1, <1>2, <2>1, <2>2, <2>3 DEF Kept
<1>5. CASE j.i = Len(Topics)
  <2>1. m = [x EXCEPT !.pc = "commit"]
    BY <1>1, <1>2, <1>3, <1>5
  <2> HIDE DEF x
  <2>2. m \in Job(n) /\ m.pc = "commit" /\ Kept(m, x) /\ m.i = x.i /\ m.map = x.map /\ m.writes = x.writes
        /\ m.err = x.err /\ m.thread = x.thread /\ m.broken = x.broken
    BY <1>1, <2>1 DEF Job, Pcs, Kept
  <2>. QED  BY <1>1, <1>2, <1>5, <2>2 DEF Kept
<1>6. CASE j.i > Len(Topics) /\ x.i <= Len(Order)
  <2>1. m = Ensure(x) /\ ~ InPanel(x) /\ j.i < Len(Order)
    BY <1>1, <1>2, <1>3, <1>6 DEF InPanel
  <2> HIDE DEF x
  <2>2. m = [x EXCEPT !.pc = "resolve"]
    BY <2>1 DEF Ensure
  <2>3. m \in Job(n) /\ m.pc = "resolve" /\ Kept(m, x) /\ m.i = x.i /\ m.map = x.map /\ m.writes = x.writes
        /\ m.err = x.err /\ m.thread = x.thread /\ m.broken = x.broken
    BY <1>1, <2>2 DEF Job, Pcs, Kept
  <2>. QED  BY <1>1, <1>2, <1>6, <2>1, <2>3 DEF Kept
<1>7. CASE j.i > Len(Topics) /\ x.i > Len(Order)
  <2>1. m = [x EXCEPT !.pc = "bind"] /\ ~ (j.i < Len(Order))
    BY <1>1, <1>2, <1>3, <1>7
  <2> HIDE DEF x
  <2>2. m \in Job(n) /\ m.pc = "bind" /\ Kept(m, x) /\ m.i = x.i /\ m.map = x.map /\ m.writes = x.writes
        /\ m.err = x.err /\ m.thread = x.thread /\ m.broken = x.broken
    BY <1>1, <2>1 DEF Job, Pcs, Kept
  <2>. QED  BY <1>1, <1>2, <1>7, <2>1, <2>2 DEF Kept
<1>. QED  BY <1>1, <1>2, <1>4, <1>5, <1>6, <1>7

-----------------------------------------------------------------------------
(* One run                                                                 *)

\* A run that has done with a topic: somehow, and well or with an error noted.
Done(j, th, rw, gr) ==
    /\ j.pc # "idle" /\ j.g \in Groups /\ Placed(j, gr, rw)
    /\ \A k \in Keys : MadeFor(j.map[k], j.g, k, th) /\ MadeFor(j.writes[k], j.g, k, th)
    /\ ~ InCabinet(j) => j.i <= Len(Order) /\ (~ j.err /\ j.i > Len(Topics) => Complete(j.g, rw))
Ready(j, th, rw, gr) ==
    /\ Done(j, th, rw, gr)
    /\ ~ InMenu(j) /\ ~ j.err => \A n \in 1 .. j.i : j.writes[Topics[n]] # 0

LEMMA IdleOK ==
    ASSUME NEW th, NEW rw, NEW gr
    PROVE  RunOK(NoJob, th, rw, gr)
<1>1. Shape(NoJob) /\ Recorded(NoJob, rw) /\ Placed(NoJob, gr, rw)
  BY IdleFacts DEF Shape, Recorded, Placed
<1>2. Own(NoJob, th)
  BY IdleFacts DEF Own, MadeFor
<1>. QED  BY <1>1, <1>2 DEF RunOK

\* It goes on to the next.
LEMMA NextOK ==
    ASSUME NEW n \in Nat, NEW j \in Job(n), NEW th, NEW rw, NEW gr, Ready(j, th, rw, gr)
    PROVE  NextTopic(j) \in Job(n) /\ RunOK(NextTopic(j), th, rw, gr)
<1>1. CASE InCabinet(j)
  <2>1. NextTopic(j) = NoJob
    BY <1>1 DEF NextTopic
  <2>. QED  BY <2>1, IdleOK, IdleFacts
<1>2. CASE ~ InCabinet(j)
  <2>0. PICK m : m = NextTopic(j)
    OBVIOUS
  <2>1. /\ m \in Job(n) /\ Kept(m, j) /\ m.i = j.i + 1 /\ m.map = j.map /\ m.writes = j.writes
        /\ m.err = j.err /\ m.thread = 0
        /\ j.i < Len(Topics) => m.pc \in {"probe", "create"}
        /\ j.i = Len(Topics) => m.pc = "commit"
        /\ j.i > Len(Topics) => m.pc = IF j.i < Len(Order) THEN "resolve" ELSE "bind"
    BY <1>2, <2>0, NextIs DEF Ready, Done
  <2>2. j.i \in Nat /\ j.i >= 1 /\ Len(Topics) \in Nat \ {0} /\ Len(Order) \in Nat /\ Len(Order) > Len(Topics) + 1
        /\ j.i <= Len(Order)
    BY <1>2, JobFields, OrderFacts DEF Ready, Done
  <2>3. ~ InCabinet(m)
    BY <1>2, <2>1 DEF InCabinet, Kept
  <2>4. m.pc \in {"probe", "create", "commit", "resolve", "bind"}
    BY <2>1, <2>2
  <2>5. Shape(m)
    <3>1. m.g \in Groups /\ m.pc \notin {"idle", "map", "record", "write", "invalidate", "message"}
      BY <2>1, <2>4 DEF Ready, Done, Kept
    <3>2. /\ m.pc = "probe" => m.i <= Len(Topics)
          /\ m.pc = "create" => m.i <= Len(Order)
          /\ m.pc = "commit" => m.i = Len(Topics) + 1
          /\ m.pc = "resolve" => m.i \in Len(Topics) + 1 .. Len(Order)
          /\ m.pc = "bind" => m.i > Len(Topics)
      BY <2>1, <2>2
    <3>3. m.pc # "menu"
      BY <2>4
    <3>. QED  BY <2>3, <3>1, <3>2, <3>3 DEF Shape
  <2>6. Own(m, th)
    BY <2>1, <2>4 DEF Own, Ready, Done, Kept
  <2>7. Placed(m, gr, rw)
    <3>1. j.pc # "idle" /\ Placed(j, gr, rw)
      BY DEF Ready, Done
    <3>2. m.t = j.t /\ m.g = j.g /\ m.bind = j.bind
      BY <2>1 DEF Kept
    <3>. QED  BY <1>2, <3>1, <3>2 DEF Placed
  <2>8. Recorded(m, rw)
    <3>1. CASE j.i < Len(Topics)
      BY <1>2, <2>1, <2>2, <2>3, <3>1 DEF Recorded, Ready, Done, InMenu
    <3>2. CASE j.i = Len(Topics)
      <4>1. \A k \in Keys : \E x \in 1 .. Len(Topics) : k = Topics[x]
        BY OrderFacts
      <4>2. ~ m.err => \A k \in Keys : m.writes[k] # 0
        BY <1>2, <2>1, <2>2, <3>2, <4>1 DEF Ready, InMenu
      <4>. QED  BY <2>1, <2>2, <3>2, <4>2 DEF Recorded, InMenu
    <3>3. CASE j.i > Len(Topics)
      BY <1>2, <2>1, <2>2, <2>3, <3>3 DEF Recorded, Ready, Done, InMenu, Kept
    <3>. QED  BY <2>2, <3>1, <3>2, <3>3
  <2>. QED  BY <2>0, <2>1, <2>5, <2>6, <2>7, <2>8 DEF RunOK
<1>. QED  BY <1>1, <1>2

\* The error of a topic.
LEMMA ErrorOK ==
    ASSUME NEW n \in Nat, NEW j \in Job(n), NEW th, NEW rw, NEW gr, Done(j, th, rw, gr)
    PROVE  Error(j) \in Job(n) /\ RunOK(Error(j), th, rw, gr)
<1> DEFINE b == j.err \/ ~ InMenu(j)
           e == [j EXCEPT !.err = b]
<1>1. b \in BOOLEAN /\ (j.err => b) /\ (~ InMenu(j) => b)
  BY JobFields DEF InMenu
<1>2. Error(j) = NextTopic(e)
  BY DEF Error
<1> HIDE DEF b
<1>3. /\ e \in Job(n) /\ e.pc = j.pc /\ e.g = j.g /\ e.t = j.t /\ e.i = j.i /\ e.map = j.map
      /\ e.writes = j.writes /\ e.err = b /\ e.bind = j.bind
  BY <1>1 DEF Job
<1> HIDE DEF e
<1>4. (InCabinet(e) <=> InCabinet(j)) /\ (InMenu(e) <=> InMenu(j))
  BY <1>3 DEF InCabinet, InMenu
<1>5. Placed(e, gr, rw)
  BY <1>3, <1>4 DEF Done, Placed
<1>6. Done(e, th, rw, gr)
  BY <1>1, <1>3, <1>4, <1>5 DEF Done
<1>7. Ready(e, th, rw, gr)
  BY <1>1, <1>3, <1>4, <1>6 DEF Ready
<1>. QED  BY <1>2, <1>3, <1>7, NextOK

\* A run at a topic may be done with it; one among the menus is then ready.
LEMMA AtTopic ==
    ASSUME NEW n \in Nat, NEW j \in Job(n), NEW th, NEW rw, NEW gr, RunOK(j, th, rw, gr),
           j.pc \in {"probe", "create", "record", "write", "invalidate", "resolve", "menu", "message"}
    PROVE  /\ j.g \in Groups /\ (InCabinet(j) \/ j.i <= Len(Order)) /\ Key(j) \in Keys
           /\ Done(j, th, rw, gr) /\ (InMenu(j) => Ready(j, th, rw, gr))
<1>1. j.i \in Nat /\ Len(Topics) \in Nat /\ Len(Order) \in Nat /\ Len(Order) > Len(Topics) + 1
  BY JobFields, OrderFacts
<1>2. j.g \in Groups /\ (InCabinet(j) \/ j.i <= Len(Order))
  BY <1>1 DEF RunOK, Shape
<1>3. ~ InCabinet(j) /\ ~ j.err /\ j.i > Len(Topics) => Complete(j.g, rw)
  BY <1>1 DEF RunOK, Recorded, InMenu
<1>4. Done(j, th, rw, gr)
  BY <1>2, <1>3 DEF Done, RunOK, Own
<1>. QED  BY <1>2, <1>4, KeyIsKey DEF Ready

\* A run is not disturbed by what others make, record or bind.
Grew(th, th2)      == Len(th) <= Len(th2) /\ \A x \in 1 .. Len(th) : th2[x] = th[x]
Filled(rw, rw2)    == \A g \in Groups, k \in Keys : rw[g][k] # 0 => rw2[g][k] # 0
Moved(gr, gr2, rw) == \A t \in Tenants :
                         gr2[t] = gr[t] \/ (gr2[t] # Absent /\ (gr[t] \in Groups => gr2[t] \in Groups /\ Complete(gr2[t], rw)))

LEMMA Undisturbed ==
    ASSUME NEW th, NEW rw, NEW gr, NEW th2, NEW rw2, NEW gr2, Len(th) \in Nat,
           NEW j \in Job(Len(th)), RunOK(j, th, rw, gr),
           Grew(th, th2), Filled(rw, rw2), Moved(gr, gr2, rw2)
    PROVE  RunOK(j, th2, rw2, gr2)
<1>1. Shape(j)
  BY DEF RunOK
<1>2. Own(j, th2)
  <2>1. \A k \in Keys : j.map[k] \in 0 .. Len(th) /\ j.writes[k] \in 0 .. Len(th)
    BY JobFields DEF Maps
  <2>2. j.thread \in 0 .. Len(th)
    BY JobFields
  <2>3. \A x \in 0 .. Len(th) : x # 0 => th2[x] = th[x]
    BY DEF Grew
  <2>. QED  BY <2>1, <2>2, <2>3 DEF RunOK, Own, MadeFor
<1>3. \A g \in Groups : Complete(g, rw) => Complete(g, rw2)
  BY DEF Filled, Complete
<1>4. Recorded(j, rw2)
  <2>1. ~ InCabinet(j) => j.pc # "idle"
    BY IdleFacts DEF RunOK, Shape
  <2>. QED  BY <1>3, <2>1 DEF RunOK, Recorded, Shape
<1>5. Placed(j, gr2, rw2)
  <2>1. ~ InCabinet(j) => j.t \in Tenants
    BY JobFields DEF InCabinet
  <2>. QED  BY <1>3, <2>1 DEF RunOK, Placed, Moved
<1>. QED  BY <1>1, <1>2, <1>4, <1>5 DEF RunOK

-----------------------------------------------------------------------------
(* The steps                                                               *)

\* The state without the tables, the topics and the runs.
OtherOK ==
    /\ cache \in [Groups -> {NoMap} \cup Maps(Len(threads))]
    /\ lookup \in [g : Groups \cup {Unbound}, map : Maps(Len(threads))]
    /\ offers \subseteq Groups \X Tenants
    /\ overlapped \in BOOLEAN /\ lost \in BOOLEAN
    /\ repaired \subseteq Groups /\ faults \in 0 .. MaxFaults

TablesOK ==
    /\ group \in [Tenants -> Groups \cup {Unbound, Absent}]
    /\ onboarded \in [Tenants -> BOOLEAN]
    /\ rows \in [Groups -> Maps(Len(threads))]
    /\ threads \in Seq([g : Groups, k : Keys]) /\ alive \subseteq 1 .. Len(threads)

LEMMA Types == TypeOK <=> TablesOK /\ OtherOK /\ job \in [Runs -> Job(Len(threads))]
<1>1. CASE threads \in Seq([g : Groups, k : Keys])
  <2>1. DOMAIN threads = 1 .. Len(threads)
    BY <1>1
  <2>. QED  BY <2>1 DEF TypeOK, TablesOK, OtherOK, TopicMap, Maps, Job, Pcs
<1>2. CASE threads \notin Seq([g : Groups, k : Keys])
  BY <1>2 DEF TypeOK, TablesOK
<1>. QED  BY <1>1, <1>2

LEMMA TypesNext == TablesOK' /\ OtherOK' /\ job' \in [Runs -> Job(Len(threads'))] => TypeOK'
<1>. SUFFICES ASSUME TablesOK', OtherOK', job' \in [Runs -> Job(Len(threads'))] PROVE TypeOK'
  OBVIOUS
<1>1. DOMAIN threads' = 1 .. Len(threads')
  BY DEF TablesOK
<1>. QED  BY <1>1 DEF TypeOK, TablesOK, OtherOK, TopicMap, Maps, Job, Pcs

\* The facts of one run.
LEMMA OfRun ==
    ASSUME SetupInv, NEW r \in Runs
    PROVE  /\ Len(threads) \in Nat /\ job[r] \in Job(Len(threads))
           /\ RunOK(job[r], threads, rows, group) /\ TablesOK /\ OtherOK
<1>1. TypeOK /\ RunOK(job[r], threads, rows, group)
  BY DEF SetupInv, Inv
<1>. QED  BY <1>1, Types DEF TablesOK

\* Nothing but one run changes, and what is no part of this.
LEMMA RunGoes ==
    ASSUME SetupInv, NEW r \in Runs, NEW m \in Job(Len(threads)), RunOK(m, threads, rows, group),
           Do(r, m), UNCHANGED <<tables, telegram>>, OtherOK'
    PROVE  SetupInv'
<1>1. /\ UNCHANGED <<group, onboarded, rows, threads, alive>>
      /\ job' = [job EXCEPT ![r] = m]
  BY DEF Do, tables, telegram
<1>2. TablesOK' /\ job' \in [Runs -> Job(Len(threads'))]
  <2>1. TablesOK /\ job \in [Runs -> Job(Len(threads))]
    BY Types DEF SetupInv, Inv
  <2>. QED  BY <1>1, <2>1 DEF TablesOK
<1>3. TypeOK'
  BY <1>2, TypesNext
<1>4. OnboardedHasTopics' /\ RowsMade'
  BY <1>1 DEF SetupInv, Inv, OnboardedHasTopics, RowsMade
<1>5. ASSUME NEW q \in Runs PROVE RunOK(job'[q], threads', rows', group')
  <2>1. job \in [Runs -> Job(Len(threads))]
    BY Types DEF SetupInv, Inv
  <2>2. job'[q] = IF q = r THEN m ELSE job[q]
    BY <1>1, <2>1
  <2>. QED  BY <1>1, <2>2 DEF SetupInv
<1>. QED  BY <1>3, <1>4, <1>5 DEF SetupInv, Inv

\* The same when also the tables and the topics change: every other run is as it was.
LEMMA OthersGo ==
    ASSUME SetupInv, NEW r \in Runs, NEW m, Do(r, m), TablesOK', OtherOK',
           m \in Job(Len(threads')), RunOK(m, threads', rows', group'),
           Grew(threads, threads'), Filled(rows, rows'), Moved(group, group', rows'),
           OnboardedHasTopics', RowsMade'
    PROVE  SetupInv'
<1>1. job' = [job EXCEPT ![r] = m]
  BY DEF Do
<1>2. /\ job \in [Runs -> Job(Len(threads))] /\ Len(threads) \in Nat /\ Len(threads') \in Nat
      /\ Len(threads) <= Len(threads')
  BY Types DEF SetupInv, Inv, TablesOK, Grew
<1>3. ASSUME NEW j \in Job(Len(threads)) PROVE j \in Job(Len(threads'))
  <2>1. 0 .. Len(threads) \subseteq 0 .. Len(threads')
    BY <1>2
  <2>2. Maps(Len(threads)) \subseteq Maps(Len(threads'))
    BY <2>1 DEF Maps
  <2>. QED  BY <2>1, <2>2 DEF Job
<1>4. job' \in [Runs -> Job(Len(threads'))]
  BY <1>1, <1>2, <1>3
<1>5. TypeOK'
  BY <1>4, TypesNext
<1>6. ASSUME NEW q \in Runs PROVE RunOK(job'[q], threads', rows', group')
  <2>1. CASE q = r
    BY <1>1, <1>2, <2>1
  <2>2. CASE q # r
    <3>1. job'[q] = job[q] /\ job[q] \in Job(Len(threads)) /\ RunOK(job[q], threads, rows, group)
      BY <1>1, <1>2, <2>2 DEF SetupInv
    <3>. QED  BY <1>2, <3>1, Undisturbed
  <2>. QED  BY <2>1, <2>2
<1>. QED  BY <1>5, <1>6 DEF SetupInv, Inv

\* What is no part of a run's step stays as it is.
LEMMA OthersStay ==
    ASSUME SetupInv, UNCHANGED <<telegram, cached, offers, history>>, UNCHANGED faults \/ Fault
    PROVE  OtherOK'
<1>1. OtherOK /\ MaxFaults \in Nat
  BY Types, SetupAssumption DEF SetupInv, Inv
<1>. QED  BY <1>1 DEF OtherOK, Fault, telegram, cached, history

LEMMA ReadMapKeeps ==
    ASSUME SetupInv, NEW r \in Runs, ReadMap(r)
    PROVE  SetupInv'
<1>0. PICK j : j = job[r]
  OBVIOUS
<1>1. /\ j.pc = "map" /\ Do(r, Topic([j EXCEPT !.map = rows[j.g]]))
      /\ UNCHANGED <<tables, telegram, cached, offers, history, faults>>
  BY <1>0 DEF ReadMap
<1>2. j \in Job(Len(threads)) /\ Len(threads) \in Nat /\ RunOK(j, threads, rows, group) /\ TablesOK
  BY <1>0, OfRun
<1>3. j.g \in Groups /\ ~ InCabinet(j) /\ j.i = 1 /\ ~ j.err
  BY <1>1, <1>2 DEF RunOK, Shape
<1>4. PICK m : m = [j EXCEPT !.map = rows[j.g]]
  OBVIOUS
<1>5. /\ m \in Job(Len(threads)) /\ m.map = rows[j.g] /\ m.g = j.g /\ m.t = j.t /\ m.bind = j.bind
      /\ m.i = 1 /\ m.writes = j.writes
  BY <1>2, <1>3, <1>4 DEF Job, TablesOK
<1>6. PICK n : n = Topic(m)
  OBVIOUS
<1>7. /\ n \in Job(Len(threads)) /\ n.map = rows[j.g] /\ n.g = j.g /\ n.t = j.t /\ n.bind = j.bind
      /\ n.i = 1 /\ n.writes = j.writes /\ n.pc \in {"probe", "create"}
  BY <1>2, <1>5, <1>6, TopicIs DEF Kept
<1>8. ~ InCabinet(n) /\ ~ InMenu(n) /\ Len(Topics) \in Nat \ {0} /\ Len(Order) \in Nat /\ Len(Order) > 1
  BY <1>3, <1>7, OrderFacts DEF InCabinet, InMenu
<1>9. Shape(n)
  BY <1>3, <1>7, <1>8 DEF Shape
<1>10. Own(n, threads)
  BY <1>2, <1>3, <1>7 DEF Own, RunOK, SetupInv, RowsMade
<1>11. Recorded(n, rows) /\ Placed(n, group, rows)
  BY <1>1, <1>2, <1>3, <1>7, <1>8 DEF Recorded, Placed, RunOK
<1>12. OtherOK'
  BY <1>1, OthersStay
<1>. QED  BY <1>1, <1>4, <1>6, <1>7, <1>9, <1>10, <1>11, <1>12, RunGoes DEF RunOK

\* From a topic to its record: a run at the same topic, with that topic's thread.
LEMMA TopicInHand ==
    ASSUME NEW n \in Nat, NEW j \in Job(n), NEW th, NEW rw, NEW gr, RunOK(j, th, rw, gr),
           NEW m \in Job(n), NEW x \in 1 .. n, NEW p \in {"record", "write"},
           j.pc \in {"probe", "create", "record"},
           m.pc = p, m.thread = x, m.t = j.t, m.g = j.g, m.bind = j.bind, m.i = j.i, m.map = j.map,
           m.writes = j.writes, m.err = j.err, MadeFor(x, j.g, Key(j), th)
    PROVE  RunOK(m, th, rw, gr)
<1>1. /\ (InCabinet(m) <=> InCabinet(j)) /\ (InMenu(m) <=> InMenu(j)) /\ Key(m) = Key(j)
  BY DEF InCabinet, InMenu, Key
<1>2. j.g \in Groups /\ (InCabinet(j) \/ j.i <= Len(Order))
  BY AtTopic
<1>3. Shape(m)
  BY <1>1, <1>2 DEF Shape
<1>4. Own(m, th)
  BY <1>1 DEF RunOK, Own
<1>5. Recorded(m, rw)
  BY <1>1 DEF RunOK, Recorded
<1>6. Placed(m, gr, rw)
  BY <1>1 DEF RunOK, Placed
<1>. QED  BY <1>3, <1>4, <1>5, <1>6 DEF RunOK

\* To a topic that is missing, or of the panel's or a menu's to its thread.
LEMMA TopicToMake ==
    ASSUME NEW n \in Nat, NEW j \in Job(n), NEW th, NEW rw, NEW gr, RunOK(j, th, rw, gr),
           NEW m \in Job(n), NEW p \in {"create", "menu"},
           j.pc \in {"probe", "resolve", "menu"}, j.pc = "probe" => p = "create",
           m.pc = p, m.t = j.t, m.g = j.g, m.bind = j.bind, m.i = j.i,
           \A k \in Keys : m.map[k] = j.map[k] \/ m.map[k] = 0,
           m.writes = j.writes, m.err = j.err
    PROVE  RunOK(m, th, rw, gr)
<1>1. (InCabinet(m) <=> InCabinet(j)) /\ (InMenu(m) <=> InMenu(j))
  BY DEF InCabinet, InMenu
<1>2. j.g \in Groups /\ (InCabinet(j) \/ j.i <= Len(Order))
  BY AtTopic
<1>3. Shape(m)
  BY <1>1, <1>2 DEF Shape, RunOK
<1>4. Own(m, th)
  BY <1>1 DEF RunOK, Own, MadeFor
<1>5. Recorded(m, rw)
  BY <1>1 DEF RunOK, Recorded
<1>6. Placed(m, gr, rw)
  BY <1>1 DEF RunOK, Placed
<1>. QED  BY <1>3, <1>4, <1>5, <1>6 DEF RunOK

LEMMA ProbeKeeps ==
    ASSUME SetupInv, NEW r \in Runs, Probe(r)
    PROVE  SetupInv'
<1>0. PICK j : j = job[r]
  OBVIOUS
<1>1. j.pc = "probe" /\ UNCHANGED <<tables, telegram, cached, offers, history>>
  BY <1>0 DEF Probe
<1>2. j \in Job(Len(threads)) /\ Len(threads) \in Nat /\ RunOK(j, threads, rows, group) /\ TablesOK
  BY <1>0, OfRun
<1>3. Key(j) \in Keys /\ Done(j, threads, rows, group) /\ j.map \in Maps(Len(threads))
  BY <1>1, <1>2, AtTopic, JobFields
<1>4. OtherOK'
  BY <1>0, <1>1, OthersStay DEF Probe
<1>5. CASE j.map[Key(j)] \in alive /\ Do(r, [j EXCEPT !.pc = "record", !.thread = j.map[Key(j)]])
  <2>1. PICK x : x = j.map[Key(j)]
    OBVIOUS
  <2>2. x \in 1 .. Len(threads) /\ MadeFor(x, j.g, Key(j), threads)
    BY <1>2, <1>3, <1>5, <2>1 DEF TablesOK, RunOK, Own
  <2>3. PICK m : m = [j EXCEPT !.pc = "record", !.thread = x]
    OBVIOUS
  <2>4. /\ m \in Job(Len(threads)) /\ m.pc = "record" /\ m.thread = x /\ m.t = j.t /\ m.g = j.g
        /\ m.bind = j.bind /\ m.i = j.i /\ m.map = j.map /\ m.writes = j.writes /\ m.err = j.err
    <3>1. x \in 0 .. Len(threads) /\ "record" \in Pcs
      BY <1>2, <2>2 DEF Pcs
    <3>. QED  BY <1>2, <2>3, <3>1 DEF Job
  <2>5. RunOK(m, threads, rows, group)
    BY <1>1, <1>2, <2>2, <2>4, TopicInHand
  <2>. QED  BY <1>1, <1>4, <1>5, <2>1, <2>3, <2>4, <2>5, RunGoes
<1>6. CASE Do(r, [j EXCEPT !.pc = "create", !.map[Key(j)] = 0])
  <2>1. PICK x : x = [j.map EXCEPT ![Key(j)] = 0]
    OBVIOUS
  <2>2. x \in Maps(Len(threads)) /\ \A k \in Keys : x[k] = j.map[k] \/ x[k] = 0
    BY <1>2, <1>3, <2>1 DEF Maps
  <2>3. PICK m : m = [j EXCEPT !.pc = "create", !.map = x]
    OBVIOUS
  <2>4. m = [j EXCEPT !.pc = "create", !.map[Key(j)] = 0]
    BY <1>2, <2>1, <2>3 DEF Job
  <2>5. /\ m \in Job(Len(threads)) /\ m.pc = "create" /\ m.map = x /\ m.t = j.t /\ m.g = j.g
        /\ m.bind = j.bind /\ m.i = j.i /\ m.writes = j.writes /\ m.err = j.err
    BY <1>2, <2>2, <2>3 DEF Job, Pcs
  <2>6. RunOK(m, threads, rows, group)
    BY <1>1, <1>2, <2>2, <2>5, TopicToMake
  <2>. QED  BY <1>1, <1>4, <1>6, <2>4, <2>5, <2>6, RunGoes
<1>7. CASE Do(r, Error(j))
  BY <1>1, <1>2, <1>3, <1>4, <1>7, ErrorOK, RunGoes
<1>. QED  BY <1>0, <1>5, <1>6, <1>7 DEF Probe

LEMMA CreateKeeps ==
    ASSUME SetupInv, NEW r \in Runs, Create(r)
    PROVE  SetupInv'
<1>0. PICK j : j = job[r]
  OBVIOUS
<1>1. j.pc = "create" /\ UNCHANGED <<tables, cached, offers, history>>
  BY <1>0 DEF Create
<1>2. /\ j \in Job(Len(threads)) /\ Len(threads) \in Nat /\ RunOK(j, threads, rows, group)
      /\ TablesOK /\ OtherOK
  BY <1>0, OfRun
<1>3. Key(j) \in Keys /\ j.g \in Groups /\ Done(j, threads, rows, group)
  BY <1>1, <1>2, AtTopic
<1>4. CASE Fault /\ Do(r, Error(j)) /\ UNCHANGED telegram
  BY <1>1, <1>2, <1>3, <1>4, ErrorOK, OthersStay, RunGoes
<1>5. CASE /\ threads' = Append(threads, [g |-> j.g, k |-> Key(j)])
           /\ alive'   = alive \cup {Len(threads')}
           /\ Do(r, [j EXCEPT !.pc = "record", !.thread = Len(threads')])
           /\ UNCHANGED faults
  <2>0. PICK c : c = [g |-> j.g, k |-> Key(j)]
    OBVIOUS
  <2>1. c \in [g : Groups, k : Keys] /\ c.g = j.g /\ c.k = Key(j)
    BY <1>3, <2>0
  <2>2. /\ threads' \in Seq([g : Groups, k : Keys]) /\ Len(threads') = Len(threads) + 1
        /\ threads'[Len(threads) + 1] = c /\ \A x \in 1 .. Len(threads) : threads'[x] = threads[x]
    BY <1>2, <1>5, <2>0, <2>1 DEF TablesOK
  <2>3. PICK n \in Nat : n = Len(threads) + 1
    BY <1>2
  <2>4. Grew(threads, threads') /\ Len(threads') = n /\ n \in 1 .. n
    BY <1>2, <2>2, <2>3 DEF Grew
  <2>5. Maps(Len(threads)) \subseteq Maps(n) /\ 0 .. Len(threads) \subseteq 0 .. n
    BY <1>2, <2>3 DEF Maps
  <2>6. UNCHANGED <<group, onboarded, rows, cache, lookup, offers, overlapped, repaired, lost, faults>>
    BY <1>1, <1>5 DEF tables, cached, history
  <2>7. TablesOK'
    <3>1. rows' \in [Groups -> Maps(Len(threads'))]
      BY <1>2, <2>4, <2>5, <2>6 DEF TablesOK
    <3>2. alive' \subseteq 1 .. Len(threads')
      BY <1>2, <1>5, <2>3, <2>4 DEF TablesOK
    <3>. QED  BY <1>2, <2>2, <2>6, <3>1, <3>2 DEF TablesOK
  <2>8. OtherOK'
    BY <1>2, <2>4, <2>5, <2>6 DEF OtherOK
  <2>9. j \in Job(n) /\ RunOK(j, threads', rows', group')
    <3>1. j \in Job(n)
      BY <1>2, <2>5 DEF Job
    <3>2. Filled(rows, rows') /\ Moved(group, group', rows')
      BY <2>6 DEF Filled, Moved
    <3>. QED  BY <1>2, <2>4, <3>1, <3>2, Undisturbed
  <2>10. PICK m : m = [j EXCEPT !.pc = "record", !.thread = n]
    OBVIOUS
  <2>11. /\ m \in Job(n) /\ m.pc = "record" /\ m.thread = n /\ m.t = j.t /\ m.g = j.g
         /\ m.bind = j.bind /\ m.i = j.i /\ m.map = j.map /\ m.writes = j.writes /\ m.err = j.err
    <3>1. n \in 0 .. n /\ "record" \in Pcs
      BY <2>4 DEF Pcs
    <3>. QED  BY <2>9, <2>10, <3>1 DEF Job
  <2>12. MadeFor(n, j.g, Key(j), threads')
    BY <2>0, <2>2, <2>3 DEF MadeFor
  <2>13. RunOK(m, threads', rows', group')
    BY <1>1, <2>4, <2>9, <2>11, <2>12, TopicInHand
  <2>14. OnboardedHasTopics' /\ RowsMade'
    <3>1. \A g \in Groups, k \in Keys : rows[g][k] \in 0 .. Len(threads)
      BY <1>2 DEF TablesOK, Maps
    <3>2. \A x \in 0 .. Len(threads) : x # 0 => threads'[x] = threads[x]
      BY <2>2
    <3>3. RowsMade'
      BY <2>6, <3>1, <3>2 DEF SetupInv, RowsMade, MadeFor
    <3>4. OnboardedHasTopics'
      BY <2>6, <3>1, <3>2 DEF SetupInv, Inv, OnboardedHasTopics
    <3>. QED  BY <3>3, <3>4
  <2>15. Do(r, m) /\ Filled(rows, rows') /\ Moved(group, group', rows')
    BY <1>5, <2>4, <2>6, <2>10 DEF Filled, Moved
  <2>. QED  BY <2>4, <2>7, <2>8, <2>11, <2>13, <2>14, <2>15, OthersGo
<1>. QED  BY <1>0, <1>4, <1>5 DEF Create

LEMMA SelectRowKeeps ==
    ASSUME SetupInv, NEW r \in Runs, SelectRow(r)
    PROVE  SetupInv'
<1>0. PICK j : j = job[r]
  OBVIOUS
<1>1. j.pc = "record" /\ UNCHANGED <<tables, telegram, cached, offers, history, faults>>
  BY <1>0 DEF SelectRow
<1>2. j \in Job(Len(threads)) /\ Len(threads) \in Nat /\ RunOK(j, threads, rows, group)
  BY <1>0, OfRun
<1>3. Done(j, threads, rows, group)
  BY <1>1, <1>2, AtTopic
<1>4. OtherOK'
  BY <1>1, OthersStay
<1>5. PICK s \in BOOLEAN : s <=> (rows[j.g][Key(j)] # 0)
  OBVIOUS
<1>6. CASE Do(r, [j EXCEPT !.pc = "write", !.seen = s])
  <2>1. PICK x \in 1 .. Len(threads) : x = j.thread /\ MadeFor(x, j.g, Key(j), threads)
    BY <1>1, <1>2, JobFields DEF RunOK, Own, Shape
  <2>2. PICK m : m = [j EXCEPT !.pc = "write", !.seen = s]
    OBVIOUS
  <2>3. /\ m \in Job(Len(threads)) /\ m.pc = "write" /\ m.thread = x /\ m.t = j.t /\ m.g = j.g
        /\ m.bind = j.bind /\ m.i = j.i /\ m.map = j.map /\ m.writes = j.writes /\ m.err = j.err
    BY <1>2, <2>1, <2>2 DEF Job, Pcs
  <2>4. RunOK(m, threads, rows, group)
    BY <1>1, <1>2, <2>1, <2>3, TopicInHand
  <2>. QED  BY <1>1, <1>4, <1>6, <2>2, <2>3, <2>4, RunGoes
<1>7. CASE Do(r, NoJob)
  BY <1>1, <1>2, <1>4, <1>7, IdleOK, IdleFacts, RunGoes
<1>8. CASE Do(r, Error(j))
  BY <1>1, <1>2, <1>3, <1>4, <1>8, ErrorOK, RunGoes
<1>9. \/ Do(r, [j EXCEPT !.pc = "write", !.seen = rows[j.g][Key(j)] # 0])
      \/ Do(r, NoJob) \/ Do(r, Error(j))
  BY <1>0 DEF SelectRow
<1>10. [j EXCEPT !.pc = "write", !.seen = rows[j.g][Key(j)] # 0] = [j EXCEPT !.pc = "write", !.seen = s]
  BY <1>5
<1>. QED  BY <1>6, <1>7, <1>8, <1>9, <1>10

LEMMA WriteRowKeeps ==
    ASSUME SetupInv, NEW r \in Runs, WriteRow(r)
    PROVE  SetupInv'
<1>0. PICK j : j = job[r]
  OBVIOUS
<1>1. j.pc = "write" /\ ~ InMenu(j) /\ UNCHANGED <<tables, telegram, cached, offers, history, faults>>
  BY <1>0 DEF WriteRow
<1>2. j \in Job(Len(threads)) /\ Len(threads) \in Nat /\ RunOK(j, threads, rows, group)
  BY <1>0, OfRun
<1>3. Key(j) \in Keys /\ Done(j, threads, rows, group)
  BY <1>1, <1>2, AtTopic
<1>4. OtherOK'
  BY <1>1, OthersStay
<1>5. /\ j.thread \in 1 .. Len(threads) /\ MadeFor(j.thread, j.g, Key(j), threads)
      /\ j.map \in Maps(Len(threads)) /\ j.writes \in Maps(Len(threads))
      /\ \A k \in Keys : MadeFor(j.map[k], j.g, k, threads) /\ MadeFor(j.writes[k], j.g, k, threads)
  BY <1>1, <1>2, JobFields DEF RunOK, Own, Shape
<1>6. CASE Do(r, Error([j EXCEPT !.broken = TRUE, !.writes = None]))
  <2>1. PICK m : m = [j EXCEPT !.broken = TRUE, !.writes = None]
    OBVIOUS
  <2>2. /\ m \in Job(Len(threads)) /\ m.pc = j.pc /\ m.t = j.t /\ m.g = j.g /\ m.bind = j.bind /\ m.i = j.i
        /\ m.map = j.map /\ m.writes = None /\ m.err = j.err
    BY <1>2, <2>1, IdleFacts DEF Job
  <2>3. Done(m, threads, rows, group)
    BY <1>3, <2>2, IdleFacts DEF Done, InCabinet, Placed, MadeFor
  <2>. QED  BY <1>1, <1>2, <1>4, <1>6, <2>1, <2>2, <2>3, ErrorOK, RunGoes
<1>7. CASE Do(r, NextTopic([j EXCEPT !.writes[Key(j)] = j.thread, !.map[Key(j)] = j.thread]))
  <2>1. PICK x, y : x = [j.writes EXCEPT ![Key(j)] = j.thread] /\ y = [j.map EXCEPT ![Key(j)] = j.thread]
    OBVIOUS
  <2>2. /\ x \in Maps(Len(threads)) /\ y \in Maps(Len(threads))
        /\ \A k \in Keys : /\ x[k] = IF k = Key(j) THEN j.thread ELSE j.writes[k]
                           /\ y[k] = IF k = Key(j) THEN j.thread ELSE j.map[k]
    BY <1>3, <1>5, <2>1 DEF Maps
  <2>3. PICK m : m = [j EXCEPT !.writes = x, !.map = y]
    OBVIOUS
  <2>4. m = [j EXCEPT !.writes[Key(j)] = j.thread, !.map[Key(j)] = j.thread]
    BY <1>2, <2>1, <2>3 DEF Job
  <2>5. /\ m \in Job(Len(threads)) /\ m.pc = j.pc /\ m.t = j.t /\ m.g = j.g /\ m.bind = j.bind /\ m.i = j.i
        /\ m.map = y /\ m.writes = x /\ m.err = j.err
    BY <1>2, <2>2, <2>3 DEF Job
  <2>6. \A k \in Keys : MadeFor(m.map[k], m.g, k, threads) /\ MadeFor(m.writes[k], m.g, k, threads)
    BY <1>5, <2>2, <2>5
  <2>7. Done(m, threads, rows, group)
    BY <1>3, <2>5, <2>6 DEF Done, InCabinet, Placed
  <2>8. ~ m.err => \A n \in 1 .. m.i : m.writes[Topics[n]] # 0
    <3>1. j.i \in Nat /\ Len(Topics) \in Nat /\ j.i <= Len(Topics) /\ ~ InCabinet(j)
      BY <1>1, <1>2, JobFields, OrderFacts DEF InMenu
    <3>2. Key(j) = Topics[j.i] /\ \A n \in 1 .. j.i : Topics[n] \in Keys
      <4>1. j.i >= 1
        BY <1>2, JobFields, OrderFacts
      <4>2. Key(j) = Topics[j.i]
        BY <3>1, <4>1, OrderFacts DEF Key
      <4>3. \A n \in 1 .. Len(Topics) : Topics[n] \in Keys
        <5>1. Topics \in Seq(Keys)
          BY SetupAssumption
        <5>. QED  BY <5>1
      <4>. QED  BY <3>1, <4>1, <4>2, <4>3
    <3>3. ~ j.err => \A n \in 1 .. j.i - 1 : j.writes[Topics[n]] # 0
      BY <1>1, <1>2, <3>1 DEF RunOK, Recorded
    <3>4. \A n \in 1 .. j.i : n = j.i \/ n \in 1 .. j.i - 1
      BY <3>1
    <3>. QED  BY <1>5, <2>2, <2>5, <3>2, <3>3, <3>4
  <2>9. Ready(m, threads, rows, group)
    BY <2>7, <2>8 DEF Ready
  <2>. QED  BY <1>1, <1>2, <1>4, <1>7, <2>4, <2>5, <2>9, NextOK, RunGoes
<1>. QED  BY <1>0, <1>6, <1>7 DEF WriteRow

\* Onboarded tenants do not lose a row.
LEMMA OnboardedStay ==
    ASSUME SetupInv, Filled(rows, rows'), RowsMade', UNCHANGED <<group, onboarded>>
    PROVE  OnboardedHasTopics'
<1>. SUFFICES ASSUME NEW t \in Tenants, onboarded'[t]
              PROVE  /\ group'[t] \in Groups
                     /\ \A k \in Keys : /\ rows'[group'[t]][k] # 0
                                        /\ threads'[rows'[group'[t]][k]] = [g |-> group'[t], k |-> k]
  BY DEF OnboardedHasTopics
<1>1. group'[t] = group[t] /\ group[t] \in Groups /\ \A k \in Keys : rows[group[t]][k] # 0
  BY DEF SetupInv, Inv, OnboardedHasTopics
<1>2. \A k \in Keys : rows'[group[t]][k] # 0
  BY <1>1 DEF Filled
<1>. QED  BY <1>1, <1>2 DEF RowsMade, MadeFor

LEMMA CommitKeeps ==
    ASSUME SetupInv, NEW r \in Runs, Commit(r)
    PROVE  SetupInv'
<1>0. PICK j : j = job[r]
  OBVIOUS
<1>1. j.pc = "commit" /\ UNCHANGED <<group, onboarded, telegram, cached, offers, repaired, lost, faults>>
  BY <1>0 DEF Commit
<1>2. /\ j \in Job(Len(threads)) /\ Len(threads) \in Nat /\ RunOK(j, threads, rows, group)
      /\ TablesOK /\ OtherOK
  BY <1>0, OfRun
<1>3. j.g \in Groups /\ ~ InCabinet(j) /\ j.i = Len(Topics) + 1 /\ j.writes \in Maps(Len(threads))
  BY <1>1, <1>2, JobFields DEF RunOK, Shape
<1>4. CASE Do(r, NoJob) /\ UNCHANGED <<rows, overlapped>>
  <2>1. UNCHANGED tables /\ OtherOK'
    BY <1>1, <1>4, OthersStay DEF tables, history
  <2>. QED  BY <1>1, <1>2, <1>4, <2>1, IdleOK, IdleFacts, RunGoes DEF telegram
<1>5. CASE /\ rows' = [rows EXCEPT ![j.g] = [k \in Keys |-> IF j.writes[k] # 0 THEN j.writes[k] ELSE @[k]]]
           /\ overlapped' = (overlapped \/ Outdates(j.g))
           /\ Do(r, [j EXCEPT !.pc = "invalidate", !.writes = None])
  <2>1. PICK w : w = [k \in Keys |-> IF j.writes[k] # 0 THEN j.writes[k] ELSE rows[j.g][k]]
    OBVIOUS
  <2>2. rows' = [rows EXCEPT ![j.g] = w] /\ UNCHANGED <<threads, alive, cache, lookup>>
    BY <1>1, <1>5, <2>1 DEF telegram, cached
  <2>3. /\ w \in Maps(Len(threads)) /\ \A k \in Keys : j.writes[k] # 0 => w[k] # 0
        /\ \A k \in Keys : w[k] = j.writes[k] \/ w[k] = rows[j.g][k]
        /\ \A k \in Keys : rows[j.g][k] # 0 => w[k] # 0
    BY <1>2, <1>3, <2>1 DEF Maps, TablesOK
  <2>4. Filled(rows, rows') /\ rows'[j.g] = w /\ \A g \in Groups : g # j.g => rows'[g] = rows[g]
    BY <1>2, <1>3, <2>2, <2>3 DEF Filled, TablesOK
  <2>5. TablesOK'
    BY <1>1, <1>2, <1>3, <2>2, <2>3 DEF TablesOK
  <2>6. OtherOK'
    BY <1>1, <1>2, <1>5, <2>2 DEF OtherOK, Outdates
  <2>7. RowsMade'
    <3>1. \A k \in Keys : MadeFor(w[k], j.g, k, threads)
      BY <1>2, <1>3, <2>3 DEF RunOK, Own, SetupInv, RowsMade
    <3>. QED  BY <2>2, <2>4, <3>1 DEF SetupInv, RowsMade
  <2>8. OnboardedHasTopics'
    BY <1>1, <2>4, <2>7, OnboardedStay
  <2>9. Grew(threads, threads') /\ Moved(group, group', rows')
    BY <1>1, <1>2, <2>2 DEF Grew, Moved
  <2>10. RunOK(j, threads', rows', group')
    BY <1>2, <2>4, <2>9, Undisturbed
  <2>11. PICK m : m = [j EXCEPT !.pc = "invalidate", !.writes = None]
    OBVIOUS
  <2>12. /\ m \in Job(Len(threads')) /\ m.pc = "invalidate" /\ m.t = j.t /\ m.g = j.g /\ m.bind = j.bind
         /\ m.i = j.i /\ m.map = j.map /\ m.writes = None /\ m.err = j.err
    BY <1>2, <2>2, <2>11, IdleFacts DEF Job, Pcs
  <2>13. ~ InCabinet(m) /\ (~ m.err => Complete(j.g, rows'))
    BY <1>1, <1>2, <1>3, <2>3, <2>4, <2>12 DEF RunOK, Recorded, Complete, InCabinet
  <2>14. Shape(m)
    BY <1>3, <2>12, <2>13, OrderFacts DEF Shape
  <2>15. Own(m, threads')
    BY <2>10, <2>12, IdleFacts DEF RunOK, Own, MadeFor
  <2>16. Recorded(m, rows')
    BY <1>3, <2>12, <2>13, OrderFacts DEF Recorded, InMenu
  <2>17. Placed(m, group', rows')
    BY <1>1, <1>3, <2>10, <2>12 DEF RunOK, Placed
  <2>. QED  BY <1>5, <2>4, <2>5, <2>6, <2>7, <2>8, <2>9, <2>11, <2>12, <2>14, <2>15, <2>16, <2>17, OthersGo DEF RunOK
<1>. QED  BY <1>0, <1>4, <1>5 DEF Commit

LEMMA WriteMenuRowKeeps ==
    ASSUME SetupInv, NEW r \in Runs, WriteMenuRow(r)
    PROVE  SetupInv'
<1>0. PICK j : j = job[r]
  OBVIOUS
<1>1. /\ j.pc = "write" /\ InMenu(j)
      /\ UNCHANGED <<group, onboarded, telegram, cached, offers, repaired, lost, faults>>
  BY <1>0 DEF WriteMenuRow
<1>2. /\ j \in Job(Len(threads)) /\ Len(threads) \in Nat /\ RunOK(j, threads, rows, group)
      /\ TablesOK /\ OtherOK
  BY <1>0, OfRun
<1>3. /\ j.g \in Groups /\ (InCabinet(j) \/ j.i <= Len(Order)) /\ Key(j) \in Keys
      /\ Ready(j, threads, rows, group)
  BY <1>1, <1>2, AtTopic
<1>4. /\ j.thread \in 0 .. Len(threads) /\ j.thread # 0 /\ MadeFor(j.thread, j.g, Key(j), threads)
  BY <1>1, <1>2, JobFields DEF RunOK, Own, Shape
<1>5. CASE Do(r, NextTopic([j EXCEPT !.broken = TRUE])) /\ UNCHANGED <<rows, overlapped>>
  <2>1. UNCHANGED <<tables, telegram>> /\ OtherOK'
    BY <1>1, <1>5, OthersStay DEF tables, history
  <2>2. PICK m : m = [j EXCEPT !.broken = TRUE]
    OBVIOUS
  <2>3. /\ m \in Job(Len(threads)) /\ m.pc = j.pc /\ m.t = j.t /\ m.g = j.g /\ m.bind = j.bind /\ m.i = j.i
        /\ m.map = j.map /\ m.writes = j.writes /\ m.err = j.err
    BY <1>2, <2>2 DEF Job
  <2>4. Ready(m, threads, rows, group)
    BY <1>3, <2>3 DEF Ready, Done, InCabinet, InMenu, Placed
  <2>. QED  BY <1>2, <1>5, <2>1, <2>2, <2>3, <2>4, NextOK, RunGoes
<1>6. CASE /\ rows' = [rows EXCEPT ![j.g][Key(j)] = j.thread]
           /\ overlapped' = (overlapped \/ Outdates(j.g))
           /\ Do(r, [j EXCEPT !.pc = "invalidate"])
  <2>1. PICK w : w = [rows[j.g] EXCEPT ![Key(j)] = j.thread]
    OBVIOUS
  <2>2. rows' = [rows EXCEPT ![j.g] = w] /\ UNCHANGED <<threads, alive, cache, lookup>>
    BY <1>1, <1>6, <2>1 DEF telegram, cached
  <2>3. w \in Maps(Len(threads)) /\ \A k \in Keys : w[k] = IF k = Key(j) THEN j.thread ELSE rows[j.g][k]
    BY <1>2, <1>3, <1>4, <2>1 DEF Maps, TablesOK
  <2>4. Filled(rows, rows') /\ rows'[j.g] = w /\ \A g \in Groups : g # j.g => rows'[g] = rows[g]
    BY <1>2, <1>3, <1>4, <2>2, <2>3 DEF Filled, TablesOK
  <2>5. TablesOK'
    BY <1>1, <1>2, <1>3, <2>2, <2>3 DEF TablesOK
  <2>6. OtherOK'
    BY <1>1, <1>2, <1>6, <2>2 DEF OtherOK, Outdates
  <2>7. RowsMade'
    <3>1. \A k \in Keys : MadeFor(w[k], j.g, k, threads)
      BY <1>3, <1>4, <2>3 DEF SetupInv, RowsMade
    <3>. QED  BY <2>2, <2>4, <3>1 DEF SetupInv, RowsMade
  <2>8. OnboardedHasTopics'
    BY <1>1, <2>4, <2>7, OnboardedStay
  <2>9. Grew(threads, threads') /\ Moved(group, group', rows')
    BY <1>1, <1>2, <2>2 DEF Grew, Moved
  <2>10. RunOK(j, threads', rows', group')
    BY <1>2, <2>4, <2>9, Undisturbed
  <2>11. PICK m : m = [j EXCEPT !.pc = "invalidate"]
    OBVIOUS
  <2>12. /\ m \in Job(Len(threads')) /\ m.pc = "invalidate" /\ m.t = j.t /\ m.g = j.g /\ m.bind = j.bind
         /\ m.i = j.i /\ m.map = j.map /\ m.writes = j.writes /\ m.err = j.err /\ m.thread = j.thread
    BY <1>2, <2>2, <2>11 DEF Job, Pcs
  <2>13. (InCabinet(m) <=> InCabinet(j)) /\ (InMenu(m) <=> InMenu(j))
    BY <2>12 DEF InCabinet, InMenu
  <2>14. Shape(m)
    <3>1. ~ InCabinet(j) => j.i \in Len(Topics) + 1 .. Len(Order)
      BY <1>1, <1>2, <1>3, JobFields, OrderFacts DEF InMenu
    <3>. QED  BY <1>3, <1>4, <2>12, <2>13, <3>1 DEF Shape
  <2>15. Own(m, threads')
    BY <2>10, <2>12 DEF RunOK, Own
  <2>16. Recorded(m, rows')
    BY <1>1, <2>10, <2>12, <2>13 DEF RunOK, Recorded
  <2>17. Placed(m, group', rows')
    BY <1>1, <2>10, <2>12, <2>13 DEF RunOK, Placed
  <2>. QED  BY <1>6, <2>4, <2>5, <2>6, <2>7, <2>8, <2>9, <2>11, <2>12, <2>14, <2>15, <2>16, <2>17, OthersGo DEF RunOK
<1>. QED  BY <1>0, <1>5, <1>6 DEF WriteMenuRow

\* Among the menus.
LEMMA MenuStep ==
    ASSUME NEW n \in Nat, NEW j \in Job(n), NEW th, NEW rw, NEW gr, RunOK(j, th, rw, gr),
           InMenu(j), j.pc \in {"invalidate", "resolve", "menu"},
           NEW m \in Job(n), NEW p \in {"resolve", "menu", "message"}, m.pc = p,
           m.t = j.t, m.g = j.g, m.bind = j.bind, m.map = j.map, m.writes = j.writes, m.err = j.err,
           p = "message" => InPanel(m),
           ~ InCabinet(j) => m.i \in Len(Topics) + 1 .. Len(Order)
    PROVE  RunOK(m, th, rw, gr)
<1>1. /\ (InCabinet(m) <=> InCabinet(j)) /\ InMenu(m)
      /\ (p = "message" => ~ InCabinet(m) /\ m.i = Len(Topics) + 1)
  BY OrderFacts DEF InCabinet, InMenu, InPanel
<1>2. j.g \in Groups
  BY AtTopic
<1>3. Shape(m)
  BY <1>1, <1>2 DEF Shape
<1>4. Own(m, th)
  BY DEF RunOK, Own
<1>5. Recorded(m, rw)
  BY <1>1 DEF RunOK, Recorded
<1>6. Placed(m, gr, rw)
  BY <1>1 DEF RunOK, Placed
<1>. QED  BY <1>3, <1>4, <1>5, <1>6 DEF RunOK

LEMMA AfterInvalidateOK ==
    ASSUME NEW n \in Nat, NEW j \in Job(n), NEW th, NEW rw, NEW gr, RunOK(j, th, rw, gr),
           j.pc = "invalidate"
    PROVE  AfterInvalidate(j) \in Job(n) /\ RunOK(AfterInvalidate(j), th, rw, gr)
<1>1. j.i \in Nat /\ Len(Topics) \in Nat /\ Len(Order) \in Nat /\ Len(Order) > Len(Topics) + 1 /\ Panel \in Keys
  BY JobFields, OrderFacts
<1>2. /\ InCabinet(j) => j.thread # 0
      /\ ~ InCabinet(j) => j.i \in Len(Topics) + 1 .. Len(Order)
      /\ InMenu(j) /\ j.map \in Maps(n) /\ Ready(j, th, rw, gr)
  <2>1. /\ InCabinet(j) => j.thread # 0
        /\ ~ InCabinet(j) => j.i \in Len(Topics) + 1 .. Len(Order)
    BY DEF RunOK, Shape
  <2>2. InMenu(j)
    BY <1>1, <2>1 DEF InMenu
  <2>. QED  BY <2>1, <2>2, AtTopic, JobFields
<1>3. CASE j.thread # 0 /\ InPanel(j)
  <2>1. PICK m : m = [j EXCEPT !.pc = "message"]
    OBVIOUS
  <2>2. /\ m \in Job(n) /\ m.pc = "message" /\ m.t = j.t /\ m.g = j.g /\ m.bind = j.bind
        /\ m.i = j.i /\ m.map = j.map /\ m.writes = j.writes /\ m.err = j.err
    BY <2>1 DEF Job, Pcs
  <2>3. InPanel(m) /\ "message" \in {"resolve", "menu", "message"}
    BY <1>3, <2>2 DEF InPanel, InCabinet
  <2>4. RunOK(m, th, rw, gr)
    BY <1>2, <2>2, <2>3, MenuStep
  <2>5. AfterInvalidate(j) = m
    BY <1>3, <2>1 DEF AfterInvalidate
  <2>. QED  BY <2>2, <2>4, <2>5
<1>4. CASE j.thread # 0 /\ ~ InPanel(j)
  <2>1. AfterInvalidate(j) = NextTopic(j)
    BY <1>4 DEF AfterInvalidate
  <2>. QED  BY <1>2, <2>1, NextOK
<1>5. CASE j.thread = 0
  <2>0. AfterInvalidate(j) = Ensure(j)
    BY <1>5 DEF AfterInvalidate
  <2>1. CASE InPanel(j) /\ j.map[Panel] # 0
    <3>1. PICK x \in 0 .. n : x = j.map[Panel]
      BY <1>1, <1>2 DEF Maps
    <3>2. PICK m : m = [j EXCEPT !.pc = "menu", !.thread = x]
      OBVIOUS
    <3>3. /\ m \in Job(n) /\ m.pc = "menu" /\ m.t = j.t /\ m.g = j.g /\ m.bind = j.bind
          /\ m.i = j.i /\ m.map = j.map /\ m.writes = j.writes /\ m.err = j.err
      BY <3>1, <3>2 DEF Job, Pcs
    <3>4. RunOK(m, th, rw, gr)
      BY <1>2, <3>3, MenuStep
    <3>5. Ensure(j) = m
      BY <2>1, <3>1, <3>2 DEF Ensure
    <3>. QED  BY <2>0, <3>3, <3>4, <3>5
  <2>2. CASE InPanel(j) /\ j.map[Panel] = 0
    <3>1. PICK x \in 1 .. Len(Order) + 1 : x = j.i + 1 /\ x \in Len(Topics) + 1 .. Len(Order)
      BY <1>1, <2>2 DEF InPanel
    <3>2. PICK m : m = [j EXCEPT !.i = x, !.pc = "resolve"]
      OBVIOUS
    <3>3. /\ m \in Job(n) /\ m.pc = "resolve" /\ m.t = j.t /\ m.g = j.g /\ m.bind = j.bind
          /\ m.i = x /\ m.map = j.map /\ m.writes = j.writes /\ m.err = j.err
      BY <3>1, <3>2 DEF Job, Pcs
    <3>4. RunOK(m, th, rw, gr)
      BY <1>2, <3>1, <3>3, MenuStep
    <3>5. Ensure(j) = m
      BY <2>2, <3>1, <3>2 DEF Ensure
    <3>. QED  BY <2>0, <3>3, <3>4, <3>5
  <2>3. CASE ~ InPanel(j)
    <3>1. PICK m : m = [j EXCEPT !.pc = "resolve"]
      OBVIOUS
    <3>2. /\ m \in Job(n) /\ m.pc = "resolve" /\ m.t = j.t /\ m.g = j.g /\ m.bind = j.bind
          /\ m.i = j.i /\ m.map = j.map /\ m.writes = j.writes /\ m.err = j.err
      BY <3>1 DEF Job, Pcs
    <3>3. RunOK(m, th, rw, gr)
      BY <1>2, <3>2, MenuStep
    <3>4. Ensure(j) = m
      BY <2>3, <3>1 DEF Ensure
    <3>. QED  BY <2>0, <3>2, <3>3, <3>4
  <2>. QED  BY <2>1, <2>2, <2>3
<1>. QED  BY <1>3, <1>4, <1>5

LEMMA InvalidateKeeps ==
    ASSUME SetupInv, NEW r \in Runs, Invalidate(r)
    PROVE  SetupInv'
<1>0. PICK j : j = job[r]
  OBVIOUS
<1>1. /\ j.pc = "invalidate" /\ cache' = [cache EXCEPT ![j.g] = NoMap] /\ Do(r, AfterInvalidate(j))
      /\ UNCHANGED <<tables, telegram, lookup, offers, history, faults>>
  BY <1>0 DEF Invalidate
<1>2. /\ j \in Job(Len(threads)) /\ Len(threads) \in Nat /\ RunOK(j, threads, rows, group)
      /\ OtherOK
  BY <1>0, OfRun
<1>3. threads' = threads
  BY <1>1 DEF telegram
<1>4. OtherOK'
  BY <1>1, <1>2, <1>3 DEF OtherOK, telegram, history
<1>. QED  BY <1>1, <1>2, <1>4, AfterInvalidateOK, RunGoes

LEMMA ResolveKeeps ==
    ASSUME SetupInv, NEW r \in Runs, Resolve(r)
    PROVE  SetupInv'
<1>0. PICK j : j = job[r]
  OBVIOUS
<1>1. j.pc = "resolve" /\ UNCHANGED <<tables, telegram, lookup, offers, history, faults>>
  BY <1>0 DEF Resolve
<1>2. /\ j \in Job(Len(threads)) /\ Len(threads) \in Nat /\ RunOK(j, threads, rows, group)
      /\ OtherOK /\ TablesOK
  BY <1>0, OfRun
<1>3. /\ j.g \in Groups /\ Key(j) \in Keys /\ rows[j.g] \in Maps(Len(threads))
      /\ InMenu(j) /\ Ready(j, threads, rows, group)
  <2>1. InMenu(j)
    BY <1>1, <1>2, JobFields, OrderFacts DEF RunOK, Shape, InMenu
  <2>. QED  BY <1>1, <1>2, <2>1, AtTopic DEF TablesOK
<1>4. OtherOK'
  <2>1. cache' = cache \/ cache' = [cache EXCEPT ![j.g] = rows[j.g]]
    BY <1>0 DEF Resolve
  <2>2. threads' = threads
    BY <1>1 DEF telegram
  <2>. QED  BY <1>1, <1>2, <1>3, <2>1, <2>2 DEF OtherOK, history
<1>5. ASSUME NEW x \in 0 .. Len(threads), Do(r, [j EXCEPT !.pc = "menu", !.thread = x])
      PROVE  SetupInv'
  <2>1. PICK m : m = [j EXCEPT !.pc = "menu", !.thread = x]
    OBVIOUS
  <2>2. /\ m \in Job(Len(threads)) /\ m.pc = "menu" /\ m.t = j.t /\ m.g = j.g /\ m.bind = j.bind
        /\ m.i = j.i /\ m.map = j.map /\ m.writes = j.writes /\ m.err = j.err
    BY <1>2, <2>1 DEF Job, Pcs
  <2>3. RunOK(m, threads, rows, group)
    BY <1>1, <1>2, <2>2, TopicToMake
  <2>. QED  BY <1>1, <1>4, <1>5, <2>1, <2>2, <2>3, RunGoes
<1>6. CASE cache[j.g] # NoMap /\ Do(r, [j EXCEPT !.pc = "menu", !.thread = cache[j.g][Key(j)]])
  <2>1. cache[j.g] \in Maps(Len(threads))
    BY <1>2, <1>3, <1>6 DEF OtherOK
  <2>2. cache[j.g][Key(j)] \in 0 .. Len(threads)
    BY <1>3, <2>1 DEF Maps
  <2>. QED  BY <1>5, <1>6, <2>2
<1>7. CASE Do(r, [j EXCEPT !.pc = "menu", !.thread = rows[j.g][Key(j)]])
  <2>1. rows[j.g][Key(j)] \in 0 .. Len(threads)
    BY <1>3 DEF Maps
  <2>. QED  BY <1>5, <1>7, <2>1
<1>8. CASE Do(r, NextTopic(j))
  BY <1>1, <1>2, <1>3, <1>4, <1>8, NextOK, RunGoes
<1>. QED  BY <1>0, <1>6, <1>7, <1>8 DEF Resolve

LEMMA EnsureTopicKeeps ==
    ASSUME SetupInv, NEW r \in Runs, NEW next, EnsureTopic(r, next),
           job[r].pc = "menu" => next \in Job(Len(threads)) /\ RunOK(next, threads, rows, group)
    PROVE  SetupInv'
<1>0. PICK j : j = job[r]
  OBVIOUS
<1>1. j.pc = "menu" /\ UNCHANGED <<tables, telegram, cached, offers, history>>
  BY <1>0 DEF EnsureTopic
<1>2. j \in Job(Len(threads)) /\ Len(threads) \in Nat /\ RunOK(j, threads, rows, group)
  BY <1>0, OfRun
<1>3. InMenu(j) /\ Ready(j, threads, rows, group)
  <2>1. InMenu(j)
    BY <1>1, <1>2, JobFields, OrderFacts DEF RunOK, Shape, InMenu
  <2>. QED  BY <1>1, <1>2, <2>1, AtTopic
<1>4. OtherOK'
  BY <1>0, <1>1, OthersStay DEF EnsureTopic
<1>5. CASE Do(r, next)
  BY <1>0, <1>1, <1>4, <1>5, RunGoes
<1>6. CASE Do(r, [j EXCEPT !.pc = "create"])
  <2>1. PICK m : m = [j EXCEPT !.pc = "create"]
    OBVIOUS
  <2>2. /\ m \in Job(Len(threads)) /\ m.pc = "create" /\ m.t = j.t /\ m.g = j.g /\ m.bind = j.bind
        /\ m.i = j.i /\ m.map = j.map /\ m.writes = j.writes /\ m.err = j.err
    BY <1>2, <2>1 DEF Job, Pcs
  <2>3. RunOK(m, threads, rows, group)
    BY <1>1, <1>2, <2>2, TopicToMake
  <2>. QED  BY <1>1, <1>4, <1>6, <2>1, <2>2, <2>3, RunGoes
<1>7. CASE Do(r, NextTopic(j))
  BY <1>1, <1>2, <1>3, <1>4, <1>7, NextOK, RunGoes
<1>. QED  BY <1>0, <1>5, <1>6, <1>7 DEF EnsureTopic

LEMMA MenusKeep ==
    ASSUME SetupInv, NEW r \in Runs, EnsurePanel(r) \/ EnsureMenu(r) \/ EnsureCabinet(r)
    PROVE  SetupInv'
<1>0. PICK j : j = job[r]
  OBVIOUS
<1>1. j \in Job(Len(threads)) /\ Len(threads) \in Nat /\ RunOK(j, threads, rows, group)
  BY <1>0, OfRun
<1>2. j.pc = "menu" => InMenu(j) /\ Ready(j, threads, rows, group) /\ j.g \in Groups
                       /\ (~ InCabinet(j) => j.i \in Len(Topics) + 1 .. Len(Order))
  <2>. SUFFICES ASSUME j.pc = "menu" PROVE InMenu(j) /\ Ready(j, threads, rows, group) /\ j.g \in Groups
                       /\ (~ InCabinet(j) => j.i \in Len(Topics) + 1 .. Len(Order))
    OBVIOUS
  <2>1. ~ InCabinet(j) => j.i \in Len(Topics) + 1 .. Len(Order)
    BY <1>1 DEF RunOK, Shape
  <2>2. InMenu(j)
    BY <1>1, <2>1, JobFields, OrderFacts DEF InMenu
  <2>. QED  BY <1>1, <2>1, <2>2, AtTopic
<1>3. CASE EnsureMenu(r) \/ EnsureCabinet(r)
  <2>1. EnsureTopic(r, NextTopic(j))
    BY <1>0, <1>3 DEF EnsureMenu, EnsureCabinet
  <2>. QED  BY <1>0, <1>1, <1>2, <2>1, NextOK, EnsureTopicKeeps
<1>4. CASE EnsurePanel(r)
  <2>1. PICK m : m = [j EXCEPT !.pc = "message"]
    OBVIOUS
  <2>2. EnsureTopic(r, m) /\ InPanel(j)
    BY <1>0, <1>4, <2>1 DEF EnsurePanel
  <2>3. /\ m \in Job(Len(threads)) /\ m.pc = "message" /\ m.t = j.t /\ m.g = j.g /\ m.bind = j.bind
        /\ m.i = j.i /\ m.map = j.map /\ m.writes = j.writes /\ m.err = j.err
    BY <1>1, <2>1 DEF Job, Pcs
  <2>4. InPanel(m)
    BY <2>2, <2>3 DEF InPanel, InCabinet
  <2>5. j.pc = "menu" => RunOK(m, threads, rows, group)
    BY <1>1, <1>2, <2>3, <2>4, MenuStep
  <2>. QED  BY <1>0, <2>2, <2>3, <2>5, EnsureTopicKeeps
<1>. QED  BY <1>3, <1>4

LEMMA PanelMessageKeeps ==
    ASSUME SetupInv, NEW r \in Runs, PanelMessage(r)
    PROVE  SetupInv'
<1>0. PICK j : j = job[r]
  OBVIOUS
<1>1. j.pc = "message" /\ UNCHANGED <<tables, telegram, cached, offers, history>>
  BY <1>0 DEF PanelMessage
<1>2. j \in Job(Len(threads)) /\ Len(threads) \in Nat /\ RunOK(j, threads, rows, group)
  BY <1>0, OfRun
<1>3. InMenu(j) /\ Ready(j, threads, rows, group)
  <2>1. InMenu(j)
    BY <1>1, <1>2, JobFields, OrderFacts DEF RunOK, Shape, InMenu
  <2>. QED  BY <1>1, <1>2, <2>1, AtTopic
<1>4. OtherOK'
  BY <1>0, <1>1, OthersStay DEF PanelMessage
<1>5. CASE Do(r, NextTopic(j))
  BY <1>1, <1>2, <1>3, <1>4, <1>5, NextOK, RunGoes
<1>6. CASE Do(r, NextTopic([j EXCEPT !.err = TRUE]))
  <2>1. PICK m : m = [j EXCEPT !.err = TRUE]
    OBVIOUS
  <2>2. /\ m \in Job(Len(threads)) /\ m.pc = j.pc /\ m.t = j.t /\ m.g = j.g /\ m.bind = j.bind
        /\ m.i = j.i /\ m.map = j.map /\ m.writes = j.writes /\ m.err
    BY <1>2, <2>1 DEF Job, Pcs
  <2>3. Ready(m, threads, rows, group)
    BY <1>3, <2>2 DEF Ready, Done, Placed, InCabinet, InMenu
  <2>. QED  BY <1>1, <1>2, <1>4, <1>6, <2>1, <2>2, <2>3, NextOK, RunGoes
<1>. QED  BY <1>0, <1>5, <1>6 DEF PanelMessage

LEMMA BindKeeps ==
    ASSUME SetupInv, NEW r \in Runs, Bind(r)
    PROVE  SetupInv'
<1>0. PICK j : j = job[r]
  OBVIOUS
<1>1. j.pc = "bind" /\ Do(r, NoJob) /\ UNCHANGED <<rows, telegram, cached, offers, overlapped, lost, faults>>
  BY <1>0 DEF Bind
<1>2. /\ j \in Job(Len(threads)) /\ Len(threads) \in Nat /\ RunOK(j, threads, rows, group)
      /\ OtherOK /\ TablesOK
  BY <1>0, OfRun
<1>3. /\ j.g \in Groups /\ ~ InCabinet(j) /\ j.t \in Tenants
      /\ UNCHANGED <<threads, alive, cache, lookup>>
  BY <1>1, <1>2, JobFields DEF RunOK, Shape, InCabinet, telegram, cached
<1>4. CASE UNCHANGED <<group, onboarded, repaired>>
  <2>1. OtherOK'
    BY <1>1, <1>4, OthersStay DEF history
  <2>. QED  BY <1>1, <1>2, <1>4, <2>1, IdleOK, IdleFacts, RunGoes DEF tables
<1>5. CASE /\ ~ j.err
           /\ group'     = IF j.bind THEN [group EXCEPT ![j.t] = j.g] ELSE group
           /\ onboarded' = [onboarded EXCEPT ![j.t] = TRUE]
           /\ repaired'  = IF j.shaken THEN repaired ELSE repaired \cup {j.g}
  <2>1. Complete(j.g, rows)
    BY <1>1, <1>2, <1>3, <1>5 DEF RunOK, Shape, InMenu, Recorded
  <2>2. group'[j.t] \in Groups /\ Complete(group'[j.t], rows)
    BY <1>1, <1>2, <1>3, <1>5, <2>1 DEF RunOK, Placed, TablesOK
  <2>3. \A t \in Tenants \ {j.t} : group'[t] = group[t] /\ onboarded'[t] = onboarded[t]
    BY <1>2, <1>3, <1>5 DEF TablesOK
  <2>4. TablesOK'
    BY <1>1, <1>2, <1>3, <1>5 DEF TablesOK
  <2>5. OtherOK'
    BY <1>1, <1>2, <1>3, <1>5 DEF OtherOK
  <2>6. Grew(threads, threads') /\ Filled(rows, rows')
    BY <1>1, <1>2, <1>3 DEF Grew, Filled
  <2>7. Moved(group, group', rows')
    BY <1>1, <2>2, <2>3, SetupAssumption DEF Moved
  <2>8. RowsMade'
    BY <1>1, <1>3 DEF SetupInv, RowsMade
  <2>9. OnboardedHasTopics'
    <3>. SUFFICES ASSUME NEW t \in Tenants, onboarded'[t]
                  PROVE  /\ group'[t] \in Groups
                         /\ \A k \in Keys : /\ rows'[group'[t]][k] # 0
                                            /\ threads'[rows'[group'[t]][k]] = [g |-> group'[t], k |-> k]
      BY DEF OnboardedHasTopics
    <3>1. CASE t = j.t
      BY <1>1, <2>2, <2>8, <3>1 DEF RowsMade, MadeFor, Complete
    <3>2. CASE t # j.t
      BY <1>1, <1>3, <2>3, <3>2 DEF SetupInv, Inv, OnboardedHasTopics
    <3>. QED  BY <3>1, <3>2
  <2>10. NoJob \in Job(Len(threads')) /\ RunOK(NoJob, threads', rows', group')
    BY <1>2, <1>3, IdleOK, IdleFacts
  <2>. QED  BY <1>1, <2>4, <2>5, <2>6, <2>7, <2>8, <2>9, <2>10, OthersGo
<1>. QED  BY <1>0, <1>4, <1>5 DEF Bind

\* A run begins.
LEMMA StartKeeps ==
    ASSUME SetupInv, NEW r \in Runs, NEW t \in Tenants, NEW g \in Groups, NEW b \in BOOLEAN, Start(r, t, g, b),
           group[t] = IF b THEN Unbound ELSE g,
           UNCHANGED <<tables, telegram, cached, offers, repaired, lost, faults>>
    PROVE  SetupInv'
<1>1. Do(r, [NoJob EXCEPT !.pc = "map", !.t = t, !.g = g, !.bind = b]) /\ overlapped' = (overlapped \/ Running # {})
  BY DEF Start
<1>2. Len(threads) \in Nat /\ OtherOK
  BY OfRun
<1>3. PICK m : m = [NoJob EXCEPT !.pc = "map", !.t = t, !.g = g, !.bind = b]
  OBVIOUS
<1>4. NoJob \in Job(Len(threads)) /\ NoJob.map = None /\ NoJob.writes = None /\ NoJob.i = 1 /\ ~ NoJob.err
  BY <1>2, IdleFacts
<1>5. /\ m \in Job(Len(threads)) /\ m.pc = "map" /\ m.t = t /\ m.g = g /\ m.bind = b /\ m.i = NoJob.i
      /\ m.map = NoJob.map /\ m.writes = NoJob.writes /\ m.err = NoJob.err
  BY <1>3, <1>4 DEF Job, Pcs
<1>6. ~ InCabinet(m) /\ ~ InMenu(m)
  <2>1. t # Absent
    BY SetupAssumption
  <2>2. Len(Topics) \in Nat \ {0} /\ m.i = 1
    BY <1>4, <1>5, OrderFacts
  <2>. QED  BY <1>5, <2>1, <2>2 DEF InCabinet, InMenu
<1>7. Shape(m) /\ Recorded(m, rows)
  BY <1>4, <1>5, <1>6 DEF Shape, Recorded
<1>8. Own(m, threads)
  BY <1>2, <1>4, <1>5, IdleFacts DEF Own, MadeFor
<1>9. Placed(m, group, rows)
  BY <1>5, SetupAssumption DEF Placed
<1>10. OtherOK'
  <2>1. (overlapped \/ Running # {}) \in BOOLEAN
    BY <1>2 DEF OtherOK
  <2>. QED  BY <1>1, <1>2, <2>1 DEF OtherOK, telegram, cached
<1>. QED  BY <1>1, <1>3, <1>5, <1>7, <1>8, <1>9, <1>10, RunGoes DEF RunOK

LEMMA CmdCabinetKeeps ==
    ASSUME SetupInv, NEW r \in Runs, NEW g \in Groups, CmdCabinet(r, g)
    PROVE  SetupInv'
<1>1. /\ Do(r, [NoJob EXCEPT !.pc = "resolve", !.g = g]) /\ overlapped' = (overlapped \/ Running # {})
      /\ UNCHANGED <<tables, telegram, cached, offers, repaired, lost, faults>>
  BY DEF CmdCabinet
<1>2. Len(threads) \in Nat /\ OtherOK
  BY OfRun
<1>3. PICK m : m = [NoJob EXCEPT !.pc = "resolve", !.g = g]
  OBVIOUS
<1>4. /\ NoJob \in Job(Len(threads)) /\ NoJob.map = None /\ NoJob.writes = None /\ NoJob.t = Absent
      /\ NoJob.thread = 0
  BY <1>2, IdleFacts
<1>5. /\ m \in Job(Len(threads)) /\ m.pc = "resolve" /\ m.t = Absent /\ m.g = g
      /\ m.map = NoJob.map /\ m.writes = NoJob.writes
  BY <1>3, <1>4 DEF Job, Pcs
<1>6. InCabinet(m)
  BY <1>5 DEF InCabinet
<1>7. Shape(m) /\ Recorded(m, rows) /\ Placed(m, group, rows)
  BY <1>5, <1>6 DEF Shape, Recorded, Placed
<1>8. Own(m, threads)
  BY <1>2, <1>4, <1>5, IdleFacts DEF Own, MadeFor
<1>9. OtherOK'
  <2>1. (overlapped \/ Running # {}) \in BOOLEAN
    BY <1>2 DEF OtherOK
  <2>. QED  BY <1>1, <1>2, <2>1 DEF OtherOK, telegram, cached
<1>. QED  BY <1>1, <1>3, <1>5, <1>7, <1>8, <1>9, RunGoes DEF RunOK

\* No run moves.
LEMMA RunsStay ==
    ASSUME SetupInv, UNCHANGED <<onboarded, rows, threads, job>>, TablesOK', OtherOK',
           \A t \in Tenants : group'[t] = group[t] \/ (group[t] = Absent /\ group'[t] # Absent)
    PROVE  SetupInv'
<1>1. /\ TablesOK /\ job \in [Runs -> Job(Len(threads))] /\ Len(threads) \in Nat
  BY Types DEF SetupInv, Inv, TablesOK
<1>2. TypeOK'
  BY <1>1, TypesNext
<1>3. OnboardedHasTopics' /\ RowsMade'
  BY SetupAssumption DEF SetupInv, Inv, OnboardedHasTopics, RowsMade
<1>4. Grew(threads, threads') /\ Filled(rows, rows') /\ Moved(group, group', rows')
  BY <1>1, SetupAssumption DEF Grew, Filled, Moved
<1>5. ASSUME NEW q \in Runs PROVE RunOK(job'[q], threads', rows', group')
  <2>1. job'[q] = job[q] /\ job[q] \in Job(Len(threads)) /\ RunOK(job[q], threads, rows, group)
    BY <1>1 DEF SetupInv
  <2>. QED  BY <1>1, <1>4, <2>1, Undisturbed
<1>. QED  BY <1>2, <1>3, <1>5 DEF SetupInv, Inv

LEMMA CommandsKeep ==
    ASSUME SetupInv, NEW r \in Runs, NEW g \in Groups,
           CmdSetup(r, g) \/ CmdCabinet(r, g) \/ \E t \in Tenants : SelectTenant(r, t, g)
    PROVE  SetupInv'
<1>1. CASE CmdCabinet(r, g)
  BY <1>1, CmdCabinetKeeps
<1>2. CASE \E t \in Tenants : SelectTenant(r, t, g)
  <2>1. PICK t \in Tenants : Start(r, t, g, TRUE) /\ group[t] = Unbound
                             /\ UNCHANGED <<tables, telegram, cached, offers, repaired, lost, faults>>
    BY <1>2 DEF SelectTenant
  <2>. QED  BY <2>1, StartKeeps
<1>3. CASE CmdSetup(r, g)
  <2>0. UNCHANGED <<tables, telegram, cached, repaired, lost, faults>>
    BY <1>3 DEF CmdSetup
  <2>1. CASE \E t \in Tenants : group[t] = g /\ Start(r, t, g, FALSE) /\ UNCHANGED offers
    BY <2>0, <2>1, StartKeeps
  <2>2. CASE \E t \in Tenants : group[t] = Unbound /\ Start(r, t, g, TRUE) /\ UNCHANGED offers
    BY <2>0, <2>2, StartKeeps
  <2>3. CASE /\ offers' = offers \cup {<<g, t>> : t \in {u \in Tenants : group[u] = Unbound}}
             /\ UNCHANGED <<job, overlapped>>
    <3>1. TablesOK /\ OtherOK
      BY OfRun
    <3>2. TablesOK'
      BY <2>0, <3>1 DEF TablesOK, tables, telegram
    <3>3. OtherOK'
      BY <2>0, <2>3, <3>1 DEF OtherOK, telegram, cached
    <3>. QED  BY <2>0, <2>3, <3>2, <3>3, RunsStay DEF tables, telegram
  <2>. QED  BY <1>3, <2>1, <2>2, <2>3 DEF CmdSetup
<1>. QED  BY <1>1, <1>2, <1>3

LEMMA RegistrationKeeps ==
    ASSUME SetupInv, NEW t \in Tenants, RegisterUnbound(t) \/ \E g \in Groups : RegisterGroup(t, g)
    PROVE  SetupInv'
<1>1. PICK x \in Groups \cup {Unbound} : group[t] = Absent /\ group' = [group EXCEPT ![t] = x]
  BY DEF RegisterUnbound, RegisterGroup
<1>2. UNCHANGED <<onboarded, rows, telegram, cached, offers, job, history, faults>>
  BY DEF RegisterUnbound, RegisterGroup
<1>3. TablesOK /\ OtherOK
  BY Types DEF SetupInv, Inv
<1>4. TablesOK'
  BY <1>1, <1>2, <1>3 DEF TablesOK, telegram
<1>5. OtherOK'
  BY <1>2, <1>3 DEF OtherOK, telegram, cached, history
<1>6. \A u \in Tenants : group'[u] = group[u] \/ (group[u] = Absent /\ group'[u] # Absent)
  BY <1>1, <1>3, SetupAssumption DEF TablesOK
<1>. QED  BY <1>2, <1>4, <1>5, <1>6, RunsStay DEF telegram

LEMMA CachesKeep ==
    ASSUME SetupInv, SetCached \/ \E g \in Groups : LookUp(g) \/ CacheExpires(g)
    PROVE  SetupInv'
<1>1. TablesOK /\ OtherOK
  BY Types DEF SetupInv, Inv
<1>2. UNCHANGED <<tables, telegram, offers, job, history, faults>>
  BY DEF SetCached, LookUp, CacheExpires
<1>3. TablesOK'
  BY <1>1, <1>2 DEF TablesOK, tables, telegram
<1>4. /\ cache' \in [Groups -> {NoMap} \cup Maps(Len(threads))]
      /\ lookup' \in [g : Groups \cup {Unbound}, map : Maps(Len(threads))]
  <2>1. NoLookup \in [g : Groups \cup {Unbound}, map : Maps(Len(threads))]
    BY <1>1, IdleFacts DEF NoLookup, TablesOK
  <2>2. CASE SetCached
    BY <1>1, <2>1, <2>2 DEF SetCached, OtherOK
  <2>3. ASSUME NEW g \in Groups, LookUp(g) PROVE <1>4
    BY <1>1, <2>3 DEF LookUp, OtherOK, TablesOK
  <2>4. ASSUME NEW g \in Groups, CacheExpires(g) PROVE <1>4
    BY <1>1, <2>4 DEF CacheExpires, OtherOK
  <2>. QED  BY <2>2, <2>3, <2>4
<1>5. OtherOK'
  BY <1>1, <1>2, <1>4 DEF OtherOK, telegram, history
<1>. QED  BY <1>2, <1>3, <1>5, RunsStay DEF tables, telegram

LEMMA DeleteTopicKeeps ==
    ASSUME SetupInv, NEW x \in alive, DeleteTopic(x)
    PROVE  SetupInv'
<1>1. /\ TablesOK /\ OtherOK /\ job \in [Runs -> Job(Len(threads))]
  BY Types DEF SetupInv, Inv
<1>2. /\ UNCHANGED <<group, onboarded, rows, threads, cache, lookup, offers, overlapped, lost, faults>>
      /\ alive' = alive \ {x} /\ repaired' = repaired \ {threads[x].g}
      /\ job' = [r \in Runs |-> IF job[r].g = threads[x].g THEN [job[r] EXCEPT !.shaken = TRUE] ELSE job[r]]
  BY DEF DeleteTopic, tables, cached
<1>3. TablesOK' /\ OtherOK'
  BY <1>1, <1>2 DEF TablesOK, OtherOK
<1>4. threads[x].g \in Groups
  <2>1. PICK T : T = [g : Groups, k : Keys]
    OBVIOUS
  <2>2. x \in 1 .. Len(threads) /\ threads \in Seq(T)
    BY <1>1, <2>1 DEF TablesOK
  <2>3. threads[x] \in T
    BY <2>2
  <2>. QED  BY <2>1, <2>3
<1>5. ASSUME NEW q \in Runs PROVE job'[q] \in Job(Len(threads)) /\ RunOK(job'[q], threads, rows, group)
  <2>0. PICK j : j = job[q]
    OBVIOUS
  <2>1. j \in Job(Len(threads)) /\ RunOK(j, threads, rows, group)
    BY <1>1, <2>0 DEF SetupInv
  <2>2. CASE j.g # threads[x].g
    BY <1>2, <2>0, <2>1, <2>2
  <2>3. CASE j.g = threads[x].g
    <3>1. PICK m : m = [j EXCEPT !.shaken = TRUE]
      OBVIOUS
    <3>2. /\ m \in Job(Len(threads)) /\ m.pc = j.pc /\ m.t = j.t /\ m.g = j.g /\ m.bind = j.bind /\ m.i = j.i
          /\ m.map = j.map /\ m.writes = j.writes /\ m.err = j.err /\ m.thread = j.thread
      BY <2>1, <3>1 DEF Job
    <3>3. j.pc # "idle"
      BY <1>1, <1>4, <2>1, <2>3, IdleFacts, SetupAssumption DEF RunOK, Shape, TablesOK
    <3>4. (InCabinet(m) <=> InCabinet(j)) /\ (InMenu(m) <=> InMenu(j)) /\ Key(m) = Key(j)
      BY <3>2 DEF InCabinet, InMenu, Key
    <3>5. Shape(m)
      BY <2>1, <3>2, <3>3, <3>4 DEF RunOK, Shape
    <3>6. Own(m, threads)
      BY <2>1, <3>2, <3>4 DEF RunOK, Own
    <3>7. Recorded(m, rows)
      BY <2>1, <3>2, <3>4 DEF RunOK, Recorded
    <3>8. Placed(m, group, rows)
      BY <2>1, <3>2, <3>4 DEF RunOK, Placed
    <3>9. job'[q] = m
      BY <1>2, <2>0, <2>3, <3>1
    <3>. QED  BY <3>2, <3>5, <3>6, <3>7, <3>8, <3>9 DEF RunOK
  <2>. QED  BY <2>2, <2>3
<1>6. job' \in [Runs -> Job(Len(threads'))]
  <2>1. job' = [r \in Runs |-> job'[r]]
    BY <1>2
  <2>. QED  BY <1>2, <1>5, <2>1
<1>7. TypeOK'
  BY <1>3, <1>6, TypesNext
<1>8. OnboardedHasTopics' /\ RowsMade'
  BY <1>2 DEF SetupInv, Inv, OnboardedHasTopics, RowsMade
<1>9. \A q \in Runs : RunOK(job'[q], threads', rows', group')
  BY <1>2, <1>5
<1>. QED  BY <1>7, <1>8, <1>9 DEF SetupInv, Inv

LEMMA CrashKeeps ==
    ASSUME SetupInv, Crash
    PROVE  SetupInv'
<1>1. TablesOK /\ OtherOK /\ Len(threads) \in Nat /\ MaxFaults \in Nat
  BY Types, SetupAssumption DEF SetupInv, Inv, TablesOK
<1>2. /\ UNCHANGED <<group, onboarded, rows, threads, alive, offers, overlapped, repaired>>
      /\ job' = [r \in Runs |-> NoJob] /\ lost' = TRUE
      /\ cache' = [g \in Groups |-> NoMap] /\ lookup' = NoLookup
      /\ faults < MaxFaults /\ faults' = faults + 1
  BY DEF Crash, Fault, tables, telegram
<1>3. /\ NoJob \in Job(Len(threads))
      /\ NoLookup \in [g : Groups \cup {Unbound}, map : Maps(Len(threads))]
  BY <1>1, IdleFacts DEF NoLookup
<1>4. TablesOK' /\ OtherOK'
  BY <1>1, <1>2, <1>3 DEF TablesOK, OtherOK
<1>5. job' \in [Runs -> Job(Len(threads'))]
  BY <1>2, <1>3
<1>6. TypeOK'
  BY <1>4, <1>5, TypesNext
<1>7. OnboardedHasTopics' /\ RowsMade'
  BY <1>2 DEF SetupInv, Inv, OnboardedHasTopics, RowsMade
<1>8. \A q \in Runs : RunOK(job'[q], threads', rows', group')
  BY <1>2, IdleOK
<1>. QED  BY <1>6, <1>7, <1>8 DEF SetupInv, Inv

LEMMA DiesKeeps ==
    ASSUME SetupInv, NEW r \in Runs, Dies(r)
    PROVE  SetupInv'
<1>1. /\ Do(r, NoJob) /\ lost' = TRUE /\ UNCHANGED <<tables, telegram, cached, offers, overlapped, repaired>>
      /\ faults < MaxFaults /\ faults' = faults + 1
  BY DEF Dies, Fault
<1>2. OtherOK /\ Len(threads) \in Nat /\ MaxFaults \in Nat
  BY OfRun, SetupAssumption
<1>3. OtherOK'
  BY <1>1, <1>2 DEF OtherOK, telegram, cached
<1>. QED  BY <1>1, <1>2, <1>3, IdleOK, IdleFacts, RunGoes

-----------------------------------------------------------------------------
(* All steps                                                               *)

LEMMA SetupInit == Init => SetupInv
<1>. SUFFICES ASSUME Init PROVE SetupInv
  OBVIOUS
<1>1. /\ group     = [t \in Tenants |-> Absent] /\ onboarded = [t \in Tenants |-> FALSE]
      /\ rows      = [g \in Groups |-> None] /\ threads   = << >> /\ alive = {}
      /\ cache     = [g \in Groups |-> NoMap] /\ lookup    = NoLookup /\ offers    = {}
      /\ job       = [r \in Runs |-> NoJob]
      /\ overlapped = FALSE /\ repaired = {} /\ lost = FALSE /\ faults = 0
  BY DEF Init
<1>2. 0 \in Nat /\ Len(threads) = 0 /\ threads \in Seq([g : Groups, k : Keys])
  BY <1>1
<1>3. None \in Maps(0) /\ NoJob \in Job(0) /\ NoLookup \in [g : Groups \cup {Unbound}, map : Maps(0)]
  BY <1>2, IdleFacts DEF NoLookup
<1>4. TypeOK
  <2>1. TablesOK
    BY <1>1, <1>2, <1>3 DEF TablesOK
  <2>2. OtherOK
    <3>1. MaxFaults \in Nat
      BY SetupAssumption
    <3>2. faults \in 0 .. MaxFaults
      BY <1>1, <3>1
    <3>3. cache \in [Groups -> {NoMap} \cup Maps(Len(threads))]
      BY <1>1
    <3>4. lookup \in [g : Groups \cup {Unbound}, map : Maps(Len(threads))]
      BY <1>1, <1>2, <1>3
    <3>. QED  BY <1>1, <3>2, <3>3, <3>4 DEF OtherOK
  <2>3. job \in [Runs -> Job(Len(threads))]
    BY <1>1, <1>2, <1>3
  <2>. QED  BY <2>1, <2>2, <2>3, Types
<1>5. OnboardedHasTopics /\ RowsMade
  BY <1>1, <1>2, IdleFacts DEF OnboardedHasTopics, RowsMade, MadeFor
<1>6. \A r \in Runs : RunOK(job[r], threads, rows, group)
  BY <1>1, IdleOK
<1>. QED  BY <1>4, <1>5, <1>6 DEF SetupInv, Inv

LEMMA SetupStep == SetupInv /\ [Next]_vars => SetupInv'
<1>. SUFFICES ASSUME SetupInv, [Next]_vars PROVE SetupInv'
  OBVIOUS
<1>1. CASE \E t \in Tenants : RegisterUnbound(t) \/ \E g \in Groups : RegisterGroup(t, g)
  BY <1>1, RegistrationKeeps
<1>2. CASE \E r \in Runs, g \in Groups :
              CmdSetup(r, g) \/ CmdCabinet(r, g) \/ \E t \in Tenants : SelectTenant(r, t, g)
  BY <1>2, CommandsKeep
<1>3. CASE \E r \in Runs : RunStep(r) \/ Dies(r)
  <2>. SUFFICES ASSUME NEW r \in Runs, RunStep(r) \/ Dies(r) PROVE SetupInv'
    BY <1>3
  <2>1. CASE ReadMap(r) \/ Probe(r) \/ Create(r) \/ SelectRow(r) \/ WriteRow(r) \/ Commit(r)
    BY <2>1, ReadMapKeeps, ProbeKeeps, CreateKeeps, SelectRowKeeps, WriteRowKeeps, CommitKeeps
  <2>2. CASE Invalidate(r) \/ Resolve(r) \/ EnsurePanel(r) \/ PanelMessage(r) \/ EnsureMenu(r)
             \/ EnsureCabinet(r) \/ WriteMenuRow(r) \/ Bind(r) \/ Dies(r)
    BY <2>2, InvalidateKeeps, ResolveKeeps, MenusKeep, PanelMessageKeeps, WriteMenuRowKeeps, BindKeeps, DiesKeeps
  <2>. QED  BY <2>1, <2>2 DEF RunStep
<1>4. CASE SetCached \/ \E g \in Groups : LookUp(g) \/ CacheExpires(g)
  BY <1>4, CachesKeep
<1>5. CASE Crash \/ \E x \in alive : DeleteTopic(x)
  BY <1>5, CrashKeeps, DeleteTopicKeeps
<1>6. CASE UNCHANGED vars
  <2>1. TablesOK /\ OtherOK
    BY Types DEF SetupInv, Inv
  <2>2. UNCHANGED <<tables, telegram, cached, offers, job, history, faults>>
    BY <1>6 DEF vars
  <2>3. TablesOK' /\ OtherOK'
    BY <2>1, <2>2 DEF TablesOK, OtherOK, tables, telegram, cached, history
  <2>. QED  BY <2>2, <2>3, RunsStay DEF tables, telegram
<1>. QED  BY <1>1, <1>2, <1>3, <1>4, <1>5, <1>6 DEF Next

\* The state of /setup is sound, and a tenant is onboarded in a group of which every topic
\* is recorded and was made there for that key, however runs of it overlap, fail or die
\* (_run_setup_for_tenant, ensure_panel_message, _ensure_topic_menus).
THEOREM OnboardedTenantsHaveTopics == Spec => []Inv
<1>1. SetupInv => Inv
  BY DEF SetupInv
<1>. QED  BY <1>1, SetupInit, SetupStep, PTL DEF Spec

-----------------------------------------------------------------------------
(* One run at a time                                                       *)

\* After the commit of /setup, and in /cabinet, nothing waits for a commit.
\* What a run holds is there, unless a topic of its group was deleted meanwhile; and the
\* tenant it is to bind has no group.
Holding(j, rw, al, rep, gr) ==
    /\ ~ j.broken
    /\ InMenu(j) /\ j.pc # "commit" => j.writes = None
    /\ j.shaken => j.g \notin rep
    /\ ~ j.shaken =>
          /\ \A k \in Keys : j.writes[k] # 0 => j.writes[k] \in al
          /\ InMenu(j) /\ ~ InCabinet(j) /\ j.pc # "commit" /\ ~ j.err => \A k \in Keys : rw[j.g][k] \in al
    /\ j.bind /\ ~ InCabinet(j) => gr[j.t] = Unbound
Whole(j, rw, al, rep, gr) ==
    j.pc # "idle" =>
        /\ Holding(j, rw, al, rep, gr)
        /\ j.pc \in {"record", "write"} /\ ~ j.shaken => j.thread \in al
        /\ j.pc = "write" /\ rw[j.g][Key(j)] # 0 => j.seen

Alone    == \A r, q \in Running : r = q
Repaired == \A g \in repaired, k \in Keys : rows[g][k] \in alive
SerialInv == ~ overlapped => /\ Alone /\ Repaired
                             /\ \A r \in Runs : Whole(job[r], rows, alive, repaired, group)

\* A run goes on, holding what it held.
LEMMA WholeSame ==
    ASSUME NEW j, NEW m, NEW rw, NEW al, NEW rep, NEW gr, NEW al2, al \subseteq al2,
           Whole(j, rw, al, rep, gr), j.pc \notin {"idle", "commit"}, m.pc \notin {"idle", "commit"},
           Kept(m, j), m.writes = j.writes, m.broken = j.broken, m.err = j.err,
           InMenu(m) <=> InMenu(j),
           m.pc \in {"record", "write"} /\ ~ m.shaken => m.thread \in al2,
           m.pc = "write" /\ rw[m.g][Key(m)] # 0 => m.seen
    PROVE  Whole(m, rw, al2, rep, gr)
<1>1. InCabinet(m) <=> InCabinet(j)
  BY DEF InCabinet, Kept
<1>2. Holding(j, rw, al, rep, gr) /\ m.g = j.g /\ m.t = j.t /\ m.bind = j.bind /\ m.shaken = j.shaken
  BY DEF Whole, Kept
<1>3. Holding(m, rw, al2, rep, gr)
  BY <1>1, <1>2 DEF Holding
<1>. QED  BY <1>3 DEF Whole

\* It goes on to the next topic.
LEMMA NextWhole ==
    ASSUME NEW n \in Nat, NEW j \in Job(n), NEW rw, NEW al, NEW rep, NEW gr,
           Holding(j, rw, al, rep, gr), j.pc # "commit", InCabinet(j) \/ j.i <= Len(Order)
    PROVE  Whole(NextTopic(j), rw, al, rep, gr)
<1>1. CASE InCabinet(j)
  <2>1. NextTopic(j) = NoJob
    BY <1>1 DEF NextTopic
  <2>. QED  BY <2>1, IdleFacts DEF Whole
<1>2. CASE ~ InCabinet(j)
  <2>0. PICK m : m = NextTopic(j)
    OBVIOUS
  <2>1. /\ m \in Job(n) /\ Kept(m, j) /\ m.i = j.i + 1 /\ m.map = j.map /\ m.writes = j.writes
        /\ m.err = j.err /\ m.thread = 0 /\ (m.broken => j.broken)
        /\ j.i < Len(Topics) => m.pc \in {"probe", "create"}
        /\ j.i = Len(Topics) => m.pc = "commit"
        /\ j.i > Len(Topics) => m.pc = IF j.i < Len(Order) THEN "resolve" ELSE "bind"
    BY <1>2, <2>0, NextIs
  <2>2. j.i \in Nat /\ Len(Topics) \in Nat
    BY JobFields, OrderFacts
  <2>3. m.pc \notin {"idle", "record", "write"}
    BY <2>1, <2>2
  <2>4. ~ InCabinet(m) /\ (InMenu(m) /\ m.pc # "commit" => InMenu(j))
    BY <1>2, <2>1, <2>2 DEF InCabinet, InMenu, Kept
  <2>5. m.g = j.g /\ m.t = j.t /\ m.bind = j.bind /\ m.shaken = j.shaken
    BY <2>1 DEF Kept
  <2>6. Holding(m, rw, al, rep, gr)
    BY <1>2, <2>1, <2>4, <2>5 DEF Holding
  <2>. QED  BY <2>0, <2>3, <2>6 DEF Whole
<1>. QED  BY <1>1, <1>2

LEMMA ErrorWhole ==
    ASSUME NEW n \in Nat, NEW j \in Job(n), NEW rw, NEW al, NEW rep, NEW gr,
           Holding(j, rw, al, rep, gr), j.pc # "commit", InCabinet(j) \/ j.i <= Len(Order)
    PROVE  Whole(Error(j), rw, al, rep, gr)
<1> DEFINE b == j.err \/ ~ InMenu(j)
           e == [j EXCEPT !.err = b]
<1>1. b \in BOOLEAN /\ (j.err => b)
  BY JobFields DEF InMenu
<1>2. Error(j) = NextTopic(e)
  BY DEF Error
<1> HIDE DEF b
<1>3. /\ e \in Job(n) /\ e.pc = j.pc /\ e.g = j.g /\ e.t = j.t /\ e.i = j.i /\ e.broken = j.broken
      /\ e.writes = j.writes /\ e.err = b /\ e.bind = j.bind /\ e.shaken = j.shaken
  BY <1>1 DEF Job
<1> HIDE DEF e
<1>4. (InCabinet(e) <=> InCabinet(j)) /\ (InMenu(e) <=> InMenu(j))
  BY <1>3 DEF InCabinet, InMenu
<1>5. Holding(e, rw, al, rep, gr)
  BY <1>1, <1>3, <1>4 DEF Holding
<1>. QED  BY <1>2, <1>3, <1>4, <1>5, NextWhole

\* The only run goes on.
LEMMA OnlyRun ==
    ASSUME SetupInv, NEW r \in Runs, NEW m, Do(r, m), Running \subseteq {r}
    PROVE  /\ job'[r] = m /\ \A q \in Runs : q # r => job[q] = NoJob /\ job'[q] = NoJob
           /\ Alone'
<1>1. job' = [job EXCEPT ![r] = m] /\ job \in [Runs -> Job(Len(threads))]
  BY Types DEF Do, SetupInv, Inv
<1>2. ASSUME NEW q \in Runs, q # r PROVE job[q] = NoJob /\ job'[q] = NoJob
  <2>1. job[q].pc = "idle"
    BY <1>2 DEF Running
  <2>2. job[q] = NoJob
    BY <2>1, OfRun DEF RunOK, Shape
  <2>. QED  BY <1>1, <1>2, <2>2
<1>3. Alone'
  <2>1. \A q \in Runs : q # r => job'[q].pc = "idle"
    BY <1>2, IdleFacts
  <2>. QED  BY <2>1 DEF Alone, Running
<1>. QED  BY <1>1, <1>2, <1>3

LEMMA SerialGoes ==
    ASSUME SetupInv, NEW r \in Runs, NEW m, Do(r, m), Running \subseteq {r},
           Whole(m, rows', alive', repaired', group'), Repaired'
    PROVE  SerialInv'
<1>1. /\ job'[r] = m /\ \A q \in Runs : q # r => job[q] = NoJob /\ job'[q] = NoJob
      /\ Alone'
  BY OnlyRun
<1>2. Whole(NoJob, rows', alive', repaired', group')
  BY IdleFacts DEF Whole
<1>3. \A q \in Runs : Whole(job'[q], rows', alive', repaired', group')
  BY <1>1, <1>2
<1>. QED  BY <1>1, <1>3 DEF SerialInv

\* A step of a run that is alone.
LEMMA SerialRun ==
    ASSUME SetupInv, SerialInv, ~ overlapped, NEW r \in Runs, job[r].pc # "idle"
    PROVE  /\ Running \subseteq {r} /\ Repaired /\ Whole(job[r], rows, alive, repaired, group)
           /\ Holding(job[r], rows, alive, repaired, group)
<1>1. r \in Running
  BY DEF Running
<1>. QED  BY <1>1 DEF SerialInv, Alone, Whole

\* The tables, and what is there, do not change for the worse.
LEMMA RepairedStays ==
    ASSUME Repaired, UNCHANGED <<rows, repaired>>, alive \subseteq alive'
    PROVE  Repaired'
BY DEF Repaired

LEMMA SerialReadMap ==
    ASSUME SetupInv, SerialInv, ~ overlapped, NEW r \in Runs, ReadMap(r)
    PROVE  SerialInv'
<1>0. PICK j : j = job[r]
  OBVIOUS
<1>1. /\ j.pc = "map" /\ Do(r, Topic([j EXCEPT !.map = rows[j.g]]))
      /\ UNCHANGED <<rows, group, onboarded, threads, alive, repaired>>
  BY <1>0 DEF ReadMap, tables, telegram, history
<1>2. /\ j \in Job(Len(threads)) /\ Len(threads) \in Nat /\ RunOK(j, threads, rows, group) /\ TablesOK
      /\ Running \subseteq {r} /\ Repaired /\ Whole(j, rows, alive, repaired, group)
  BY <1>0, <1>1, OfRun, SerialRun
<1>3. j.g \in Groups
  BY <1>1, <1>2 DEF RunOK, Shape
<1>4. PICK m : m = [j EXCEPT !.map = rows[j.g]]
  OBVIOUS
<1>5. /\ m \in Job(Len(threads)) /\ m.g = j.g /\ m.t = j.t /\ m.bind = j.bind /\ m.shaken = j.shaken
      /\ m.i = j.i /\ m.writes = j.writes /\ m.err = j.err /\ m.broken = j.broken
  BY <1>2, <1>3, <1>4 DEF Job, TablesOK
<1>6. PICK n : n = Topic(m)
  OBVIOUS
<1>7. /\ Kept(n, j) /\ n.i = j.i /\ n.writes = j.writes /\ n.err = j.err /\ n.broken = j.broken
      /\ n.pc \in {"probe", "create"}
  BY <1>2, <1>5, <1>6, TopicIs DEF Kept
<1>8. InMenu(n) <=> InMenu(j)
  BY <1>7 DEF InMenu, InCabinet, Kept
<1>9. Whole(n, rows, alive, repaired, group)
  BY <1>1, <1>2, <1>7, <1>8, WholeSame
<1>. QED  BY <1>1, <1>2, <1>4, <1>6, <1>9, RepairedStays, SerialGoes

LEMMA SerialProbe ==
    ASSUME SetupInv, SerialInv, ~ overlapped, NEW r \in Runs, Probe(r)
    PROVE  SerialInv'
<1>0. PICK j : j = job[r]
  OBVIOUS
<1>1. j.pc = "probe" /\ UNCHANGED <<rows, group, onboarded, threads, alive, repaired>>
  BY <1>0 DEF Probe, tables, telegram, history
<1>2. /\ j \in Job(Len(threads)) /\ Len(threads) \in Nat /\ RunOK(j, threads, rows, group) /\ TablesOK
      /\ Running \subseteq {r} /\ Repaired /\ Whole(j, rows, alive, repaired, group)
      /\ Holding(j, rows, alive, repaired, group)
  BY <1>0, <1>1, OfRun, SerialRun
<1>3. Key(j) \in Keys /\ (InCabinet(j) \/ j.i <= Len(Order)) /\ j.map \in Maps(Len(threads))
  BY <1>1, <1>2, AtTopic, JobFields
<1>4. Repaired'
  BY <1>1, <1>2, RepairedStays
<1>5. CASE j.map[Key(j)] \in alive /\ Do(r, [j EXCEPT !.pc = "record", !.thread = j.map[Key(j)]])
  <2>1. PICK m : m = [j EXCEPT !.pc = "record", !.thread = j.map[Key(j)]]
    OBVIOUS
  <2>2. /\ m.pc = "record" /\ m.thread \in alive /\ m.t = j.t /\ m.g = j.g /\ m.bind = j.bind /\ m.i = j.i
        /\ m.shaken = j.shaken /\ m.broken = j.broken /\ m.writes = j.writes /\ m.err = j.err
    BY <1>2, <1>5, <2>1 DEF Job
  <2>3. Kept(m, j) /\ (InMenu(m) <=> InMenu(j))
    BY <2>2 DEF Kept, InMenu, InCabinet
  <2>4. Whole(m, rows, alive, repaired, group)
    BY <1>1, <1>2, <2>2, <2>3, WholeSame
  <2>. QED  BY <1>1, <1>2, <1>4, <1>5, <2>1, <2>4, SerialGoes
<1>6. CASE Do(r, [j EXCEPT !.pc = "create", !.map[Key(j)] = 0])
  <2>1. PICK m : m = [j EXCEPT !.pc = "create", !.map[Key(j)] = 0]
    OBVIOUS
  <2>2. /\ m.pc = "create" /\ m.t = j.t /\ m.g = j.g /\ m.bind = j.bind /\ m.i = j.i
        /\ m.shaken = j.shaken /\ m.broken = j.broken /\ m.writes = j.writes /\ m.err = j.err
    BY <1>2, <2>1 DEF Job
  <2>3. Kept(m, j) /\ (InMenu(m) <=> InMenu(j))
    BY <2>2 DEF Kept, InMenu, InCabinet
  <2>4. Whole(m, rows, alive, repaired, group)
    BY <1>1, <1>2, <2>2, <2>3, WholeSame
  <2>. QED  BY <1>1, <1>2, <1>4, <1>6, <2>1, <2>4, SerialGoes
<1>7. CASE Do(r, Error(j))
  <2>1. Whole(Error(j), rows, alive, repaired, group)
    BY <1>1, <1>2, <1>3, ErrorWhole
  <2>. QED  BY <1>1, <1>2, <1>4, <1>7, <2>1, SerialGoes
<1>. QED  BY <1>0, <1>5, <1>6, <1>7 DEF Probe

LEMMA SerialCreate ==
    ASSUME SetupInv, SerialInv, ~ overlapped, NEW r \in Runs, Create(r)
    PROVE  SerialInv'
<1>0. PICK j : j = job[r]
  OBVIOUS
<1>1. j.pc = "create" /\ UNCHANGED <<rows, group, onboarded, repaired>>
  BY <1>0 DEF Create, tables, history
<1>2. /\ j \in Job(Len(threads)) /\ Len(threads) \in Nat /\ RunOK(j, threads, rows, group) /\ TablesOK
      /\ Running \subseteq {r} /\ Repaired /\ Whole(j, rows, alive, repaired, group)
      /\ Holding(j, rows, alive, repaired, group)
  BY <1>0, <1>1, OfRun, SerialRun
<1>3. InCabinet(j) \/ j.i <= Len(Order)
  BY <1>1, <1>2, AtTopic
<1>4. CASE Do(r, Error(j)) /\ UNCHANGED telegram
  <2>1. Whole(Error(j), rows, alive, repaired, group)
    BY <1>1, <1>2, <1>3, ErrorWhole
  <2>2. UNCHANGED <<threads, alive>>
    BY <1>4 DEF telegram
  <2>. QED  BY <1>1, <1>2, <1>4, <2>1, <2>2, RepairedStays, SerialGoes
<1>5. CASE alive' = alive \cup {Len(threads')} /\ Do(r, [j EXCEPT !.pc = "record", !.thread = Len(threads')])
  <2>0. PICK x : x = Len(threads')
    OBVIOUS
  <2>1. PICK m : m = [j EXCEPT !.pc = "record", !.thread = x]
    OBVIOUS
  <2>2. /\ m.pc = "record" /\ m.thread \in alive' /\ m.t = j.t /\ m.g = j.g /\ m.bind = j.bind /\ m.i = j.i
        /\ m.shaken = j.shaken /\ m.broken = j.broken /\ m.writes = j.writes /\ m.err = j.err
    BY <1>2, <1>5, <2>0, <2>1 DEF Job
  <2>3. Kept(m, j) /\ (InMenu(m) <=> InMenu(j))
    BY <2>2 DEF Kept, InMenu, InCabinet
  <2>4. alive \subseteq alive'
    BY <1>5
  <2>5. Whole(m, rows, alive', repaired, group)
    BY <1>1, <1>2, <2>2, <2>3, <2>4, WholeSame
  <2>. QED  BY <1>1, <1>2, <1>5, <2>0, <2>1, <2>4, <2>5, RepairedStays, SerialGoes
<1>. QED  BY <1>0, <1>4, <1>5 DEF Create

LEMMA SerialSelectRow ==
    ASSUME SetupInv, SerialInv, ~ overlapped, NEW r \in Runs, SelectRow(r)
    PROVE  SerialInv'
<1>0. PICK j : j = job[r]
  OBVIOUS
<1>1. j.pc = "record" /\ UNCHANGED <<rows, group, onboarded, threads, alive, repaired>>
  BY <1>0 DEF SelectRow, tables, telegram, history
<1>2. /\ j \in Job(Len(threads)) /\ Running \subseteq {r} /\ Repaired /\ Whole(j, rows, alive, repaired, group)
      /\ ~ j.broken
  BY <1>0, <1>1, OfRun, SerialRun DEF Holding
<1>3. PICK s \in BOOLEAN : s <=> (rows[j.g][Key(j)] # 0)
  OBVIOUS
<1>4. Do(r, [j EXCEPT !.pc = "write", !.seen = s])
  <2>1. Do(r, [j EXCEPT !.pc = "write", !.seen = rows[j.g][Key(j)] # 0])
    BY <1>0, <1>2 DEF SelectRow
  <2>2. s = (rows[j.g][Key(j)] # 0)
    BY <1>3
  <2>. QED  BY <2>1, <2>2
<1>5. PICK m : m = [j EXCEPT !.pc = "write", !.seen = s]
  OBVIOUS
<1>6. /\ m.pc = "write" /\ m.thread = j.thread /\ m.t = j.t /\ m.g = j.g /\ m.bind = j.bind /\ m.i = j.i
      /\ m.shaken = j.shaken /\ m.broken = j.broken /\ m.writes = j.writes /\ m.err = j.err /\ m.seen = s
  BY <1>2, <1>5 DEF Job
<1>7. Kept(m, j) /\ (InMenu(m) <=> InMenu(j)) /\ Key(m) = Key(j)
  BY <1>6 DEF Kept, InMenu, InCabinet, Key
<1>8. ~ m.shaken => m.thread \in alive
  BY <1>1, <1>2, <1>6 DEF Whole
<1>9. Whole(m, rows, alive, repaired, group)
  BY <1>1, <1>2, <1>3, <1>6, <1>7, <1>8, WholeSame
<1>. QED  BY <1>1, <1>2, <1>4, <1>5, <1>9, RepairedStays, SerialGoes

LEMMA SerialWriteRow ==
    ASSUME SetupInv, SerialInv, ~ overlapped, NEW r \in Runs, WriteRow(r)
    PROVE  SerialInv'
<1>0. PICK j : j = job[r]
  OBVIOUS
<1>1. j.pc = "write" /\ ~ InMenu(j) /\ UNCHANGED <<rows, group, onboarded, threads, alive, repaired>>
  BY <1>0 DEF WriteRow, tables, telegram, history
<1>2. /\ j \in Job(Len(threads)) /\ Len(threads) \in Nat /\ RunOK(j, threads, rows, group)
      /\ Running \subseteq {r} /\ Repaired /\ Whole(j, rows, alive, repaired, group)
      /\ Holding(j, rows, alive, repaired, group)
  BY <1>0, <1>1, OfRun, SerialRun
<1>3. ~ Conflict(j) /\ (~ j.shaken => j.thread \in alive)
  BY <1>1, <1>2 DEF Whole, Conflict
<1>4. Do(r, NextTopic([j EXCEPT !.writes[Key(j)] = j.thread, !.map[Key(j)] = j.thread]))
  BY <1>0, <1>3 DEF WriteRow
<1>5. /\ Key(j) \in Keys /\ (InCabinet(j) \/ j.i <= Len(Order)) /\ j.thread \in 0 .. Len(threads)
      /\ j.map \in Maps(Len(threads)) /\ j.writes \in Maps(Len(threads))
  BY <1>1, <1>2, AtTopic, JobFields
<1>6. PICK x, y : x = [j.writes EXCEPT ![Key(j)] = j.thread] /\ y = [j.map EXCEPT ![Key(j)] = j.thread]
  OBVIOUS
<1>7. /\ x \in Maps(Len(threads)) /\ y \in Maps(Len(threads))
      /\ \A k \in Keys : x[k] = IF k = Key(j) THEN j.thread ELSE j.writes[k]
  BY <1>5, <1>6 DEF Maps
<1>8. PICK m : m = [j EXCEPT !.writes = x, !.map = y]
  OBVIOUS
<1>9. m = [j EXCEPT !.writes[Key(j)] = j.thread, !.map[Key(j)] = j.thread]
  BY <1>2, <1>6, <1>8 DEF Job
<1>10. /\ m \in Job(Len(threads)) /\ m.pc = j.pc /\ m.t = j.t /\ m.g = j.g /\ m.bind = j.bind /\ m.i = j.i
       /\ m.writes = x /\ m.err = j.err /\ m.broken = j.broken /\ m.shaken = j.shaken
  BY <1>2, <1>7, <1>8 DEF Job
<1>11. (InCabinet(m) <=> InCabinet(j)) /\ ~ InMenu(m)
  BY <1>1, <1>10 DEF InCabinet, InMenu
<1>12. Holding(m, rows, alive, repaired, group)
  BY <1>2, <1>3, <1>7, <1>10, <1>11 DEF Holding
<1>13. Whole(NextTopic(m), rows, alive, repaired, group)
  BY <1>1, <1>2, <1>5, <1>10, <1>11, <1>12, NextWhole
<1>. QED  BY <1>1, <1>2, <1>4, <1>9, <1>13, RepairedStays, SerialGoes

LEMMA SerialCommit ==
    ASSUME SetupInv, SerialInv, ~ overlapped, NEW r \in Runs, Commit(r)
    PROVE  SerialInv'
<1>0. PICK j : j = job[r]
  OBVIOUS
<1>1. j.pc = "commit" /\ UNCHANGED <<group, onboarded, threads, alive, repaired>>
  BY <1>0 DEF Commit, telegram
<1>2. /\ j \in Job(Len(threads)) /\ Len(threads) \in Nat /\ RunOK(j, threads, rows, group) /\ TablesOK
      /\ Running \subseteq {r} /\ Repaired /\ Holding(j, rows, alive, repaired, group)
  BY <1>0, <1>1, OfRun, SerialRun
<1>3. j.g \in Groups /\ ~ InCabinet(j) /\ ~ j.broken
  BY <1>1, <1>2 DEF RunOK, Shape, Holding
<1>4. /\ rows' = [rows EXCEPT ![j.g] = [k \in Keys |-> IF j.writes[k] # 0 THEN j.writes[k] ELSE @[k]]]
      /\ Do(r, [j EXCEPT !.pc = "invalidate", !.writes = None])
  BY <1>0, <1>3 DEF Commit
<1>5. PICK w : w = [k \in Keys |-> IF j.writes[k] # 0 THEN j.writes[k] ELSE rows[j.g][k]]
  OBVIOUS
<1>6. /\ \A k \in Keys : w[k] = IF j.writes[k] # 0 THEN j.writes[k] ELSE rows[j.g][k]
      /\ rows'[j.g] = w /\ \A g \in Groups : g # j.g => rows'[g] = rows[g]
  BY <1>2, <1>3, <1>4, <1>5 DEF TablesOK
<1>7. Repaired'
  <2>. SUFFICES ASSUME NEW g \in repaired, NEW k \in Keys PROVE rows'[g][k] \in alive
    BY <1>1 DEF Repaired
  <2>1. g \in Groups /\ rows[g][k] \in alive
    BY <1>2, OfRun DEF Repaired, OtherOK
  <2>2. CASE g # j.g
    BY <1>6, <2>1, <2>2
  <2>3. CASE g = j.g
    BY <1>2, <1>6, <2>1, <2>3 DEF Holding
  <2>. QED  BY <2>2, <2>3
<1>8. PICK m : m = [j EXCEPT !.pc = "invalidate", !.writes = None]
  OBVIOUS
<1>9. /\ m.pc = "invalidate" /\ m.t = j.t /\ m.g = j.g /\ m.bind = j.bind /\ m.shaken = j.shaken
      /\ m.writes = None /\ m.err = j.err /\ m.broken = j.broken
  BY <1>2, <1>8 DEF Job
<1>10. ~ m.shaken /\ ~ m.err => \A k \in Keys : rows'[j.g][k] \in alive
  BY <1>1, <1>2, <1>3, <1>6, <1>9 DEF RunOK, Recorded, Holding
<1>11. Holding(m, rows', alive', repaired', group')
  BY <1>1, <1>2, <1>3, <1>9, <1>10, IdleFacts DEF Holding, InCabinet
<1>12. Whole(m, rows', alive', repaired', group')
  BY <1>9, <1>11 DEF Whole
<1>. QED  BY <1>2, <1>4, <1>7, <1>8, <1>12, SerialGoes

LEMMA SerialWriteMenuRow ==
    ASSUME SetupInv, SerialInv, ~ overlapped, NEW r \in Runs, WriteMenuRow(r)
    PROVE  SerialInv'
<1>0. PICK j : j = job[r]
  OBVIOUS
<1>1. j.pc = "write" /\ InMenu(j) /\ UNCHANGED <<group, onboarded, threads, alive, repaired>>
  BY <1>0 DEF WriteMenuRow, telegram
<1>2. /\ j \in Job(Len(threads)) /\ Len(threads) \in Nat /\ RunOK(j, threads, rows, group) /\ TablesOK
      /\ Running \subseteq {r} /\ Repaired /\ Holding(j, rows, alive, repaired, group)
      /\ Whole(j, rows, alive, repaired, group)
  BY <1>0, <1>1, OfRun, SerialRun
<1>3. /\ j.g \in Groups /\ ~ Conflict(j) /\ (~ j.shaken => j.thread \in alive) /\ Key(j) \in Keys
  BY <1>1, <1>2, AtTopic DEF Whole, Conflict
<1>4. rows' = [rows EXCEPT ![j.g][Key(j)] = j.thread] /\ Do(r, [j EXCEPT !.pc = "invalidate"])
  BY <1>0, <1>3 DEF WriteMenuRow
<1>5. PICK w : w = [rows[j.g] EXCEPT ![Key(j)] = j.thread]
  OBVIOUS
<1>6. /\ \A k \in Keys : w[k] = IF k = Key(j) THEN j.thread ELSE rows[j.g][k]
      /\ rows'[j.g] = w /\ \A g \in Groups : g # j.g => rows'[g] = rows[g]
  BY <1>2, <1>3, <1>4, <1>5 DEF TablesOK, Maps
<1>7. Repaired'
  <2>. SUFFICES ASSUME NEW g \in repaired, NEW k \in Keys PROVE rows'[g][k] \in alive
    BY <1>1 DEF Repaired
  <2>1. g \in Groups /\ rows[g][k] \in alive
    BY <1>2, OfRun DEF Repaired, OtherOK
  <2>2. CASE g # j.g
    BY <1>6, <2>1, <2>2
  <2>3. CASE g = j.g
    BY <1>2, <1>3, <1>6, <2>1, <2>3 DEF Holding
  <2>. QED  BY <2>2, <2>3
<1>8. PICK m : m = [j EXCEPT !.pc = "invalidate"]
  OBVIOUS
<1>9. /\ m.pc = "invalidate" /\ m.t = j.t /\ m.g = j.g /\ m.bind = j.bind /\ m.shaken = j.shaken /\ m.i = j.i
      /\ m.writes = j.writes /\ m.err = j.err /\ m.broken = j.broken
  BY <1>2, <1>8 DEF Job
<1>10. (InCabinet(m) <=> InCabinet(j)) /\ (InMenu(m) <=> InMenu(j))
  BY <1>9 DEF InCabinet, InMenu
<1>11. Holding(m, rows', alive', repaired', group')
  BY <1>1, <1>2, <1>3, <1>6, <1>9, <1>10 DEF Holding
<1>12. Whole(m, rows', alive', repaired', group')
  BY <1>9, <1>11 DEF Whole
<1>. QED  BY <1>2, <1>4, <1>7, <1>8, <1>12, SerialGoes

\* Among the menus.
LEMMA MenuWhole ==
    ASSUME NEW n \in Nat, NEW j \in Job(n), NEW m, NEW rw, NEW al, NEW rep, NEW gr, Whole(j, rw, al, rep, gr),
           InMenu(j), j.pc \notin {"idle", "commit"}, m.pc \in {"create", "resolve", "menu", "message"}, InMenu(m),
           m.t = j.t, m.g = j.g, m.bind = j.bind, m.shaken = j.shaken, m.writes = j.writes, m.err = j.err,
           m.broken = j.broken
    PROVE  Whole(m, rw, al, rep, gr)
<1>1. Kept(m, j)
  BY DEF Kept
<1>. QED  BY <1>1, WholeSame

LEMMA SerialInvalidate ==
    ASSUME SetupInv, SerialInv, ~ overlapped, NEW r \in Runs, Invalidate(r)
    PROVE  SerialInv'
<1>0. PICK j : j = job[r]
  OBVIOUS
<1>1. j.pc = "invalidate" /\ Do(r, AfterInvalidate(j)) /\ UNCHANGED <<rows, group, onboarded, threads, alive, repaired>>
  BY <1>0 DEF Invalidate, tables, telegram, history
<1>2. /\ j \in Job(Len(threads)) /\ Len(threads) \in Nat /\ RunOK(j, threads, rows, group)
      /\ Running \subseteq {r} /\ Repaired /\ Holding(j, rows, alive, repaired, group)
      /\ Whole(j, rows, alive, repaired, group)
  BY <1>0, <1>1, OfRun, SerialRun
<1>3. j.i \in Nat /\ Len(Topics) \in Nat
  BY <1>2, JobFields, OrderFacts
<1>4. InMenu(j) /\ (InCabinet(j) \/ j.i <= Len(Order))
  <2>1. InMenu(j)
    BY <1>1, <1>2, <1>3 DEF RunOK, Shape, InMenu
  <2>. QED  BY <1>1, <1>2, <2>1, AtTopic
<1>5. Whole(AfterInvalidate(j), rows, alive, repaired, group)
  <2>1. CASE AfterInvalidate(j) = NextTopic(j)
    BY <1>1, <1>2, <1>4, <2>1, NextWhole
  <2>2. CASE AfterInvalidate(j) = [j EXCEPT !.pc = "message"]
    <3>1. PICK m : m = [j EXCEPT !.pc = "message"]
      OBVIOUS
    <3>2. /\ m.pc = "message" /\ m.t = j.t /\ m.g = j.g /\ m.bind = j.bind /\ m.shaken = j.shaken /\ m.i = j.i
          /\ m.writes = j.writes /\ m.err = j.err /\ m.broken = j.broken
      BY <1>2, <3>1 DEF Job
    <3>3. InMenu(m)
      BY <1>4, <3>2 DEF InMenu, InCabinet
    <3>. QED  BY <1>1, <1>2, <1>4, <2>2, <3>1, <3>2, <3>3, MenuWhole
  <2>3. CASE AfterInvalidate(j) = [j EXCEPT !.pc = "menu", !.thread = j.map[Panel]]
    <3>1. PICK m : m = [j EXCEPT !.pc = "menu", !.thread = j.map[Panel]]
      OBVIOUS
    <3>2. /\ m.pc = "menu" /\ m.t = j.t /\ m.g = j.g /\ m.bind = j.bind /\ m.shaken = j.shaken /\ m.i = j.i
          /\ m.writes = j.writes /\ m.err = j.err /\ m.broken = j.broken
      BY <1>2, <3>1 DEF Job
    <3>3. InMenu(m)
      BY <1>4, <3>2 DEF InMenu, InCabinet
    <3>. QED  BY <1>1, <1>2, <1>4, <2>3, <3>1, <3>2, <3>3, MenuWhole
  <2>4. CASE AfterInvalidate(j) = [j EXCEPT !.i = @ + 1, !.pc = "resolve"]
    <3>1. PICK m : m = [j EXCEPT !.i = @ + 1, !.pc = "resolve"]
      OBVIOUS
    <3>2. /\ m.pc = "resolve" /\ m.t = j.t /\ m.g = j.g /\ m.bind = j.bind /\ m.shaken = j.shaken /\ m.i = j.i + 1
          /\ m.writes = j.writes /\ m.err = j.err /\ m.broken = j.broken
      BY <1>2, <3>1 DEF Job
    <3>3. InMenu(m)
      BY <1>3, <1>4, <3>2 DEF InMenu, InCabinet
    <3>. QED  BY <1>1, <1>2, <1>4, <2>4, <3>1, <3>2, <3>3, MenuWhole
  <2>5. CASE AfterInvalidate(j) = [j EXCEPT !.pc = "resolve"]
    <3>1. PICK m : m = [j EXCEPT !.pc = "resolve"]
      OBVIOUS
    <3>2. /\ m.pc = "resolve" /\ m.t = j.t /\ m.g = j.g /\ m.bind = j.bind /\ m.shaken = j.shaken /\ m.i = j.i
          /\ m.writes = j.writes /\ m.err = j.err /\ m.broken = j.broken
      BY <1>2, <3>1 DEF Job
    <3>3. InMenu(m)
      BY <1>4, <3>2 DEF InMenu, InCabinet
    <3>. QED  BY <1>1, <1>2, <1>4, <2>5, <3>1, <3>2, <3>3, MenuWhole
  <2>6. Ensure(j) \in {[j EXCEPT !.pc = "menu", !.thread = j.map[Panel]], [j EXCEPT !.i = @ + 1, !.pc = "resolve"],
                       [j EXCEPT !.pc = "resolve"]}
    BY DEF Ensure
  <2>7. AfterInvalidate(j) \in {Ensure(j), [j EXCEPT !.pc = "message"], NextTopic(j)}
    BY DEF AfterInvalidate
  <2>. QED  BY <2>1, <2>2, <2>3, <2>4, <2>5, <2>6, <2>7
<1>. QED  BY <1>1, <1>2, <1>5, RepairedStays, SerialGoes

LEMMA SerialResolve ==
    ASSUME SetupInv, SerialInv, ~ overlapped, NEW r \in Runs, Resolve(r)
    PROVE  SerialInv'
<1>0. PICK j : j = job[r]
  OBVIOUS
<1>1. j.pc = "resolve" /\ UNCHANGED <<rows, group, onboarded, threads, alive, repaired>>
  BY <1>0 DEF Resolve, tables, telegram, history
<1>2. /\ j \in Job(Len(threads)) /\ Len(threads) \in Nat /\ RunOK(j, threads, rows, group)
      /\ Running \subseteq {r} /\ Repaired /\ Holding(j, rows, alive, repaired, group)
      /\ Whole(j, rows, alive, repaired, group)
  BY <1>0, <1>1, OfRun, SerialRun
<1>3. InMenu(j)
  BY <1>1, <1>2, JobFields, OrderFacts DEF RunOK, Shape, InMenu
<1>4. PICK x : Do(r, [j EXCEPT !.pc = "menu", !.thread = x])
  <2>1. ~ j.broken
    BY <1>2 DEF Holding
  <2>2. \/ Do(r, [j EXCEPT !.pc = "menu", !.thread = cache[j.g][Key(j)]])
        \/ Do(r, [j EXCEPT !.pc = "menu", !.thread = rows[j.g][Key(j)]])
    BY <1>0, <2>1 DEF Resolve
  <2>. QED  BY <2>2
<1>5. PICK m : m = [j EXCEPT !.pc = "menu", !.thread = x]
  OBVIOUS
<1>6. /\ m.pc = "menu" /\ m.t = j.t /\ m.g = j.g /\ m.bind = j.bind /\ m.shaken = j.shaken /\ m.i = j.i
      /\ m.writes = j.writes /\ m.err = j.err /\ m.broken = j.broken
  BY <1>2, <1>5 DEF Job
<1>7. InMenu(m)
  BY <1>3, <1>6 DEF InMenu, InCabinet
<1>8. Whole(m, rows, alive, repaired, group)
  BY <1>1, <1>2, <1>3, <1>6, <1>7, MenuWhole
<1>. QED  BY <1>1, <1>2, <1>4, <1>5, <1>8, RepairedStays, SerialGoes

LEMMA SerialMenus ==
    ASSUME SetupInv, SerialInv, ~ overlapped, NEW r \in Runs, EnsurePanel(r) \/ EnsureMenu(r) \/ EnsureCabinet(r)
    PROVE  SerialInv'
<1>0. PICK j : j = job[r]
  OBVIOUS
<1>1. /\ j.pc = "menu" /\ UNCHANGED <<rows, group, onboarded, threads, alive, repaired>>
      /\ \/ Do(r, [j EXCEPT !.pc = "message"]) \/ Do(r, [j EXCEPT !.pc = "create"]) \/ Do(r, NextTopic(j))
  BY <1>0 DEF EnsurePanel, EnsureMenu, EnsureCabinet, EnsureTopic, tables, telegram, history
<1>2. /\ j \in Job(Len(threads)) /\ Len(threads) \in Nat /\ RunOK(j, threads, rows, group)
      /\ Running \subseteq {r} /\ Repaired /\ Holding(j, rows, alive, repaired, group)
      /\ Whole(j, rows, alive, repaired, group)
  BY <1>0, <1>1, OfRun, SerialRun
<1>3. InMenu(j) /\ (InCabinet(j) \/ j.i <= Len(Order))
  <2>1. InMenu(j)
    BY <1>1, <1>2, JobFields, OrderFacts DEF RunOK, Shape, InMenu
  <2>. QED  BY <1>1, <1>2, <2>1, AtTopic
<1>4. CASE Do(r, NextTopic(j))
  <2>1. Whole(NextTopic(j), rows, alive, repaired, group)
    BY <1>1, <1>2, <1>3, NextWhole
  <2>. QED  BY <1>1, <1>2, <1>4, <2>1, RepairedStays, SerialGoes
<1>5. ASSUME NEW p \in {"message", "create"}, Do(r, [j EXCEPT !.pc = p]) PROVE SerialInv'
  <2>1. PICK m : m = [j EXCEPT !.pc = p]
    OBVIOUS
  <2>2. /\ m.pc = p /\ m.t = j.t /\ m.g = j.g /\ m.bind = j.bind /\ m.shaken = j.shaken /\ m.i = j.i
        /\ m.writes = j.writes /\ m.err = j.err /\ m.broken = j.broken
    BY <1>2, <2>1 DEF Job
  <2>3. InMenu(m) /\ m.pc \in {"create", "resolve", "menu", "message"}
    BY <1>3, <2>2 DEF InMenu, InCabinet
  <2>4. Whole(m, rows, alive, repaired, group)
    BY <1>1, <1>2, <1>3, <2>2, <2>3, MenuWhole
  <2>. QED  BY <1>1, <1>2, <1>5, <2>1, <2>4, RepairedStays, SerialGoes
<1>. QED  BY <1>1, <1>4, <1>5

LEMMA SerialPanelMessage ==
    ASSUME SetupInv, SerialInv, ~ overlapped, NEW r \in Runs, PanelMessage(r)
    PROVE  SerialInv'
<1>0. PICK j : j = job[r]
  OBVIOUS
<1>1. /\ j.pc = "message" /\ UNCHANGED <<rows, group, onboarded, threads, alive, repaired>>
      /\ Do(r, NextTopic(j)) \/ Do(r, NextTopic([j EXCEPT !.err = TRUE]))
  BY <1>0 DEF PanelMessage, tables, telegram, history
<1>2. /\ j \in Job(Len(threads)) /\ Len(threads) \in Nat /\ RunOK(j, threads, rows, group)
      /\ Running \subseteq {r} /\ Repaired /\ Holding(j, rows, alive, repaired, group)
  BY <1>0, <1>1, OfRun, SerialRun
<1>3. InCabinet(j) \/ j.i <= Len(Order)
  BY <1>1, <1>2, AtTopic
<1>4. CASE Do(r, NextTopic(j))
  <2>1. Whole(NextTopic(j), rows, alive, repaired, group)
    BY <1>1, <1>2, <1>3, NextWhole
  <2>. QED  BY <1>1, <1>2, <1>4, <2>1, RepairedStays, SerialGoes
<1>5. CASE Do(r, NextTopic([j EXCEPT !.err = TRUE]))
  <2>1. PICK m : m = [j EXCEPT !.err = TRUE]
    OBVIOUS
  <2>2. /\ m \in Job(Len(threads)) /\ m.pc = j.pc /\ m.t = j.t /\ m.g = j.g /\ m.bind = j.bind /\ m.i = j.i
        /\ m.shaken = j.shaken /\ m.writes = j.writes /\ m.err /\ m.broken = j.broken
    BY <1>2, <2>1 DEF Job
  <2>3. (InCabinet(m) <=> InCabinet(j)) /\ (InMenu(m) <=> InMenu(j))
    BY <2>2 DEF InCabinet, InMenu
  <2>4. Holding(m, rows, alive, repaired, group)
    BY <1>2, <2>2, <2>3 DEF Holding
  <2>5. Whole(NextTopic(m), rows, alive, repaired, group)
    BY <1>1, <1>2, <1>3, <2>2, <2>3, <2>4, NextWhole
  <2>. QED  BY <1>1, <1>2, <1>5, <2>1, <2>5, RepairedStays, SerialGoes
<1>. QED  BY <1>1, <1>4, <1>5

LEMMA SerialBind ==
    ASSUME SetupInv, SerialInv, ~ overlapped, NEW r \in Runs, Bind(r)
    PROVE  SerialInv'
<1>0. PICK j : j = job[r]
  OBVIOUS
<1>1. j.pc = "bind" /\ Do(r, NoJob) /\ UNCHANGED <<rows, alive>>
  BY <1>0 DEF Bind, telegram
<1>2. /\ j \in Job(Len(threads)) /\ Len(threads) \in Nat /\ RunOK(j, threads, rows, group)
      /\ Running \subseteq {r} /\ Repaired /\ Holding(j, rows, alive, repaired, group)
  BY <1>0, <1>1, OfRun, SerialRun
<1>3. repaired' = repaired \/ (~ j.err /\ ~ j.shaken /\ repaired' = repaired \cup {j.g})
  BY <1>0 DEF Bind
<1>4. Repaired'
  <2>1. CASE repaired' = repaired
    BY <1>1, <1>2, <2>1 DEF Repaired
  <2>2. CASE ~ j.err /\ ~ j.shaken /\ repaired' = repaired \cup {j.g}
    <3>1. InMenu(j) /\ ~ InCabinet(j)
      BY <1>1, <1>2 DEF RunOK, Shape, InMenu
    <3>2. \A k \in Keys : rows[j.g][k] \in alive
      BY <1>1, <1>2, <2>2, <3>1 DEF Holding
    <3>. QED  BY <1>1, <1>2, <2>2, <3>2 DEF Repaired
  <2>. QED  BY <1>3, <2>1, <2>2
<1>5. Whole(NoJob, rows', alive', repaired', group')
  BY IdleFacts DEF Whole
<1>. QED  BY <1>1, <1>2, <1>4, <1>5, SerialGoes

LEMMA SerialDies ==
    ASSUME SetupInv, SerialInv, ~ overlapped, NEW r \in Runs, Dies(r)
    PROVE  SerialInv'
<1>1. /\ job[r].pc # "idle" /\ Do(r, NoJob)
      /\ UNCHANGED <<rows, group, onboarded, threads, alive, repaired>>
  BY DEF Dies, Running, tables, telegram
<1>2. Running \subseteq {r} /\ Repaired
  BY <1>1, SerialRun
<1>3. Whole(NoJob, rows', alive', repaired', group')
  BY IdleFacts DEF Whole
<1>. QED  BY <1>1, <1>2, <1>3, RepairedStays, SerialGoes

\* A run begins when no other one is under way.
LEMMA SerialStart ==
    ASSUME SetupInv, SerialInv, ~ overlapped, NEW r \in Runs, NEW m \in Job(Len(threads)), Running = {}, Do(r, m),
           UNCHANGED <<rows, group, onboarded, threads, alive, repaired>>,
           m.pc \in {"map", "resolve"}, m.writes = None, ~ m.broken, ~ m.shaken, ~ m.err,
           InCabinet(m) \/ (~ InMenu(m) /\ (m.bind => group[m.t] = Unbound))
    PROVE  SerialInv'
<1>1. Holding(m, rows, alive, repaired, group)
  BY IdleFacts DEF Holding
<1>2. Whole(m, rows, alive, repaired, group)
  BY <1>1 DEF Whole
<1>. QED  BY <1>2, RepairedStays, SerialGoes DEF SerialInv

LEMMA SerialCmd ==
    ASSUME SetupInv, SerialInv, ~ overlapped, NEW r \in Runs, NEW t \in Tenants, NEW g \in Groups, NEW b \in BOOLEAN,
           Start(r, t, g, b), ~ overlapped', b => group[t] = Unbound,
           UNCHANGED <<rows, group, onboarded, threads, alive, repaired>>
    PROVE  SerialInv'
<1>1. Do(r, [NoJob EXCEPT !.pc = "map", !.t = t, !.g = g, !.bind = b]) /\ Running = {}
  BY DEF Start
<1>2. PICK m : m = [NoJob EXCEPT !.pc = "map", !.t = t, !.g = g, !.bind = b]
  OBVIOUS
<1>3. Len(threads) \in Nat
  BY OfRun
<1>4. NoJob \in Job(Len(threads)) /\ NoJob.writes = None /\ NoJob.i = 1 /\ ~ NoJob.err /\ ~ NoJob.broken /\ ~ NoJob.shaken
  BY <1>3, IdleFacts
<1>5. /\ m \in Job(Len(threads)) /\ m.pc = "map" /\ m.t = t /\ m.bind = b /\ m.i = NoJob.i
      /\ m.writes = NoJob.writes /\ m.err = NoJob.err /\ m.broken = NoJob.broken /\ m.shaken = NoJob.shaken
  BY <1>2, <1>4 DEF Job, Pcs
<1>6. ~ InMenu(m)
  <2>1. t # Absent
    BY SetupAssumption
  <2>2. Len(Topics) \in Nat \ {0} /\ m.i = 1
    BY <1>4, <1>5, OrderFacts
  <2>. QED  BY <1>5, <2>1, <2>2 DEF InCabinet, InMenu
<1>. QED  BY <1>1, <1>2, <1>4, <1>5, <1>6, SerialStart

LEMMA SerialCabinet ==
    ASSUME SetupInv, SerialInv, ~ overlapped, NEW r \in Runs, NEW g \in Groups, CmdCabinet(r, g), ~ overlapped'
    PROVE  SerialInv'
<1>1. /\ Do(r, [NoJob EXCEPT !.pc = "resolve", !.g = g]) /\ Running = {}
      /\ UNCHANGED <<rows, group, onboarded, threads, alive, repaired>>
  BY DEF CmdCabinet, tables, telegram
<1>2. PICK m : m = [NoJob EXCEPT !.pc = "resolve", !.g = g]
  OBVIOUS
<1>3. Len(threads) \in Nat
  BY OfRun
<1>4. /\ NoJob \in Job(Len(threads)) /\ NoJob.writes = None /\ NoJob.t = Absent /\ ~ NoJob.err /\ ~ NoJob.broken
      /\ ~ NoJob.shaken
  BY <1>3, IdleFacts
<1>5. /\ m \in Job(Len(threads)) /\ m.pc = "resolve" /\ m.t = NoJob.t
      /\ m.writes = NoJob.writes /\ m.err = NoJob.err /\ m.broken = NoJob.broken /\ m.shaken = NoJob.shaken
  BY <1>2, <1>4 DEF Job, Pcs
<1>. QED  BY <1>1, <1>2, <1>4, <1>5, SerialStart DEF InCabinet

\* No run moves.
LEMMA SerialStays ==
    ASSUME SetupInv, SerialInv, ~ overlapped, UNCHANGED <<rows, alive, repaired, job>>,
           \A t \in Tenants : group[t] # Absent => group'[t] = group[t]
    PROVE  SerialInv'
<1>1. Alone' /\ Repaired'
  BY DEF SerialInv, Alone, Running, Repaired
<1>2. ASSUME NEW q \in Runs PROVE Whole(job'[q], rows', alive', repaired', group')
  <2>0. PICK j : j = job[q]
    OBVIOUS
  <2>1. j \in Job(Len(threads)) /\ Len(threads) \in Nat /\ Whole(j, rows, alive, repaired, group)
    BY <2>0, OfRun DEF SerialInv
  <2>2. Unbound # Absent /\ (~ InCabinet(j) => j.t \in Tenants)
    BY <2>1, JobFields, SetupAssumption DEF InCabinet
  <2>3. Whole(j, rows, alive, repaired, group')
    BY <2>1, <2>2 DEF Whole, Holding
  <2>. QED  BY <2>0, <2>3
<1>. QED  BY <1>1, <1>2 DEF SerialInv

LEMMA SerialDeleteTopic ==
    ASSUME SetupInv, SerialInv, ~ overlapped, NEW x \in alive, DeleteTopic(x)
    PROVE  SerialInv'
<1>1. /\ UNCHANGED <<group, rows, threads>> /\ alive' = alive \ {x} /\ repaired' = repaired \ {threads[x].g}
      /\ job' = [r \in Runs |-> IF job[r].g = threads[x].g THEN [job[r] EXCEPT !.shaken = TRUE] ELSE job[r]]
  BY DEF DeleteTopic, tables, cached
<1>2. TablesOK /\ OtherOK /\ job \in [Runs -> Job(Len(threads))] /\ Len(threads) \in Nat
  BY Types DEF SetupInv, Inv, TablesOK
<1>3. x # 0
  BY <1>2 DEF TablesOK
<1>4. ASSUME NEW y, NEW g \in Groups, NEW k \in Keys, MadeFor(y, g, k, threads), y \in alive, g # threads[x].g
      PROVE  y \in alive'
  <2>1. y # x
    BY <1>3, <1>4 DEF MadeFor
  <2>. QED  BY <1>1, <1>4, <2>1
<1>5. Repaired'
  <2>. SUFFICES ASSUME NEW g \in repaired', NEW k \in Keys PROVE rows[g][k] \in alive'
    BY <1>1 DEF Repaired
  <2>1. g \in Groups /\ g # threads[x].g /\ rows[g][k] \in alive
    BY <1>1, <1>2 DEF OtherOK, SerialInv, Repaired
  <2>. QED  BY <1>4, <2>1 DEF SetupInv, RowsMade
<1>6. ASSUME NEW q \in Runs
      PROVE  (job'[q].pc = job[q].pc) /\ Whole(job'[q], rows, alive', repaired', group)
  <2>0. PICK j : j = job[q]
    OBVIOUS
  <2>1. /\ j \in Job(Len(threads)) /\ RunOK(j, threads, rows, group) /\ Whole(j, rows, alive, repaired, group)
    BY <1>2, <2>0 DEF SetupInv, SerialInv
  <2>2. CASE j.pc = "idle"
    <3>1. job'[q].pc = "idle"
      BY <1>1, <1>2, <2>0, <2>1, <2>2 DEF Job
    <3>. QED  BY <2>0, <2>2, <3>1 DEF Whole
  <2>3. CASE j.pc # "idle" /\ j.g # threads[x].g
    <3>1. j.g \in Groups /\ Holding(j, rows, alive, repaired, group)
      BY <2>1, <2>3 DEF RunOK, Shape, Whole
    <3>2. /\ \A k \in Keys : j.writes[k] \in alive => j.writes[k] \in alive'
          /\ \A k \in Keys : rows[j.g][k] \in alive => rows[j.g][k] \in alive'
          /\ j.pc \in {"record", "write"} /\ j.thread \in alive => j.thread \in alive'
      <4>1. j.pc \in {"record", "write"} => Key(j) \in Keys /\ MadeFor(j.thread, j.g, Key(j), threads)
        BY <1>2, <2>1, AtTopic DEF RunOK, Own
      <4>2. \A k \in Keys : MadeFor(j.writes[k], j.g, k, threads) /\ MadeFor(rows[j.g][k], j.g, k, threads)
        BY <2>1, <3>1 DEF RunOK, Own, SetupInv, RowsMade
      <4>. QED  BY <1>4, <2>3, <3>1, <4>1, <4>2
    <3>3. repaired' \subseteq repaired
      BY <1>1
    <3>4. Holding(j, rows, alive', repaired', group)
      BY <3>1, <3>2, <3>3 DEF Holding
    <3>5. Whole(j, rows, alive', repaired', group)
      BY <2>1, <2>3, <3>2, <3>4 DEF Whole
    <3>. QED  BY <1>1, <2>0, <2>3, <3>5
  <2>4. CASE j.pc # "idle" /\ j.g = threads[x].g
    <3>1. PICK m : m = [j EXCEPT !.shaken = TRUE]
      OBVIOUS
    <3>2. /\ m \in Job(Len(threads)) /\ m.pc = j.pc /\ m.t = j.t /\ m.g = j.g /\ m.bind = j.bind /\ m.i = j.i
          /\ m.writes = j.writes /\ m.err = j.err /\ m.broken = j.broken /\ m.seen = j.seen /\ m.shaken
      BY <2>1, <3>1 DEF Job
    <3>3. (InCabinet(m) <=> InCabinet(j)) /\ (InMenu(m) <=> InMenu(j)) /\ Key(m) = Key(j)
      BY <3>2 DEF InCabinet, InMenu, Key
    <3>4. m.g \notin repaired'
      BY <1>1, <2>4, <3>2
    <3>5. Holding(m, rows, alive', repaired', group)
      BY <2>1, <2>4, <3>2, <3>3, <3>4 DEF Whole, Holding
    <3>6. Whole(m, rows, alive', repaired', group)
      BY <2>1, <2>4, <3>2, <3>3, <3>5 DEF Whole
    <3>7. job'[q] = m
      BY <1>1, <2>0, <2>4, <3>1
    <3>. QED  BY <2>0, <3>2, <3>6, <3>7
  <2>. QED  BY <2>2, <2>3, <2>4
<1>7. Alone'
  BY <1>6 DEF SerialInv, Alone, Running
<1>. QED  BY <1>1, <1>5, <1>6, <1>7 DEF SerialInv

LEMMA SerialCrash ==
    ASSUME SetupInv, SerialInv, ~ overlapped, Crash
    PROVE  SerialInv'
<1>1. job' = [r \in Runs |-> NoJob] /\ UNCHANGED <<rows, alive, repaired>>
  BY DEF Crash, tables, telegram
<1>2. Alone' /\ Repaired'
  BY <1>1, IdleFacts DEF SerialInv, Alone, Running, Repaired
<1>3. \A q \in Runs : Whole(job'[q], rows', alive', repaired', group')
  BY <1>1, IdleFacts DEF Whole
<1>. QED  BY <1>2, <1>3 DEF SerialInv

LEMMA SerialInit == Init => SerialInv
<1>. SUFFICES ASSUME Init PROVE SerialInv
  OBVIOUS
<1>1. repaired = {} /\ job = [r \in Runs |-> NoJob]
  BY DEF Init
<1>. QED  BY <1>1, IdleFacts DEF SerialInv, Alone, Running, Repaired, Whole

LEMMA SerialStep == SetupInv /\ SerialInv /\ [Next]_vars => SerialInv'
<1>. SUFFICES ASSUME SetupInv, SerialInv, [Next]_vars, ~ overlapped' PROVE SerialInv'
  BY DEF SerialInv
<1>1. CASE \E t \in Tenants : RegisterUnbound(t) \/ \E g \in Groups : RegisterGroup(t, g)
  <2>1. PICK t \in Tenants : group[t] = Absent /\ \E x : group' = [group EXCEPT ![t] = x]
    BY <1>1 DEF RegisterUnbound, RegisterGroup
  <2>2. UNCHANGED <<rows, alive, repaired, job, overlapped>>
    BY <1>1 DEF RegisterUnbound, RegisterGroup, telegram, history
  <2>3. \A u \in Tenants : group[u] # Absent => group'[u] = group[u]
    BY <2>1, Types DEF SetupInv, Inv, TablesOK
  <2>. QED  BY <2>2, <2>3, SerialStays
<1>2. CASE \E r \in Runs, g \in Groups :
              CmdSetup(r, g) \/ CmdCabinet(r, g) \/ \E t \in Tenants : SelectTenant(r, t, g)
  <2>1. PICK r \in Runs, g \in Groups :
              CmdSetup(r, g) \/ CmdCabinet(r, g) \/ \E t \in Tenants : SelectTenant(r, t, g)
    BY <1>2
  <2>2. ~ overlapped
    BY <2>1 DEF CmdSetup, CmdCabinet, SelectTenant, Start
  <2>3. CASE CmdCabinet(r, g)
    BY <2>2, <2>3, SerialCabinet
  <2>4. CASE \E t \in Tenants : SelectTenant(r, t, g)
    BY <2>2, <2>4, SerialCmd DEF SelectTenant, tables, telegram
  <2>5. CASE CmdSetup(r, g)
    <3>1. UNCHANGED <<rows, group, onboarded, threads, alive, repaired>>
      BY <2>5 DEF CmdSetup, tables, telegram
    <3>2. CASE UNCHANGED <<job, overlapped>>
      BY <2>2, <3>1, <3>2, SerialStays
    <3>3. CASE \E t \in Tenants : Start(r, t, g, FALSE)
      BY <2>2, <3>1, <3>3, SerialCmd
    <3>4. CASE \E t \in Tenants : group[t] = Unbound /\ Start(r, t, g, TRUE)
      BY <2>2, <3>1, <3>4, SerialCmd
    <3>. QED  BY <2>5, <3>2, <3>3, <3>4 DEF CmdSetup
  <2>. QED  BY <2>1, <2>3, <2>4, <2>5
<1>3. CASE \E r \in Runs : RunStep(r) \/ Dies(r)
  <2>. SUFFICES ASSUME NEW r \in Runs, RunStep(r) \/ Dies(r) PROVE SerialInv'
    BY <1>3
  <2>1. CASE ReadMap(r) \/ Probe(r) \/ Create(r) \/ SelectRow(r) \/ WriteRow(r)
    <3>1. ~ overlapped
      BY <2>1 DEF ReadMap, Probe, Create, SelectRow, WriteRow, history
    <3>. QED  BY <2>1, <3>1, SerialReadMap, SerialProbe, SerialCreate, SerialSelectRow, SerialWriteRow
  <2>2. CASE Commit(r) \/ WriteMenuRow(r)
    <3>1. ~ overlapped
      BY <2>2 DEF Commit, WriteMenuRow
    <3>. QED  BY <2>2, <3>1, SerialCommit, SerialWriteMenuRow
  <2>3. CASE Invalidate(r) \/ Resolve(r) \/ EnsurePanel(r) \/ PanelMessage(r) \/ EnsureMenu(r)
             \/ EnsureCabinet(r)
    <3>1. ~ overlapped
      BY <2>3 DEF Invalidate, Resolve, EnsurePanel, PanelMessage, EnsureMenu, EnsureCabinet, EnsureTopic, history
    <3>. QED  BY <2>3, <3>1, SerialInvalidate, SerialResolve, SerialMenus, SerialPanelMessage
  <2>4. CASE Bind(r) \/ Dies(r)
    <3>1. ~ overlapped
      BY <2>4 DEF Bind, Dies
    <3>. QED  BY <2>4, <3>1, SerialBind, SerialDies
  <2>. QED  BY <2>1, <2>2, <2>3, <2>4 DEF RunStep
<1>4. CASE UNCHANGED vars \/ SetCached \/ \E g \in Groups : LookUp(g) \/ CacheExpires(g)
  <2>1. UNCHANGED <<group, rows, alive, repaired, job, overlapped>>
    BY <1>4 DEF vars, SetCached, LookUp, CacheExpires, tables, telegram, history
  <2>. QED  BY <2>1, SerialStays
<1>5. CASE Crash \/ \E x \in alive : DeleteTopic(x)
  <2>1. ~ overlapped
    BY <1>5 DEF Crash, DeleteTopic
  <2>. QED  BY <1>5, <2>1, SerialCrash, SerialDeleteTopic
<1>. QED  BY <1>1, <1>2, <1>3, <1>4, <1>5 DEF Next

\* As long as runs of /setup do not overlap, every topic recorded for a group is there when
\* a run has ended well and none has been deleted since it began (_probe_topic_thread and
\* create_forum_topic in _run_setup_for_tenant).
THEOREM RepairedGroupsAreWhole == Spec => []SetupRepairs
<1>1. SetupInv /\ SerialInv => SetupRepairs
  BY DEF SerialInv, Repaired, SetupRepairs
<1>. QED  BY <1>1, SetupInit, SetupStep, SerialInit, SerialStep, PTL DEF Spec

\* As long as runs do not overlap, bind_group moves no tenant from the group it has.
THEOREM TenantsAreBoundOnce == Spec => BoundOnce
<1> DEFINE Once == \A t \in Tenants : ~ overlapped /\ group[t] \in Groups => group'[t] = group[t]
<1>1. SetupInv /\ SerialInv /\ [Next]_vars => [Once]_vars
  <2>. SUFFICES ASSUME SetupInv, SerialInv, Next, NEW t \in Tenants, ~ overlapped, group[t] \in Groups
                PROVE  group'[t] = group[t]
    BY DEF Once
  <2>1. group \in [Tenants -> Groups \cup {Unbound, Absent}] /\ Unbound \notin Groups /\ Absent \notin Groups
    BY Types, SetupAssumption DEF SetupInv, Inv, TablesOK
  <2>2. CASE \E u \in Tenants : RegisterUnbound(u) \/ \E g \in Groups : RegisterGroup(u, g)
    BY <2>1, <2>2 DEF RegisterUnbound, RegisterGroup
  <2>3. ASSUME NEW r \in Runs, Bind(r) PROVE group'[t] = group[t]
    <3>0. PICK j : j = job[r]
      OBVIOUS
    <3>1. j.pc = "bind" /\ (group' = group \/ (j.bind /\ group' = [group EXCEPT ![j.t] = j.g]))
      BY <2>3, <3>0 DEF Bind
    <3>2. ~ InCabinet(j) /\ Holding(j, rows, alive, repaired, group)
      BY <3>0, <3>1, OfRun, SerialRun DEF RunOK, Shape
    <3>3. j.bind => group[j.t] = Unbound
      BY <3>2 DEF Holding
    <3>. QED  BY <2>1, <3>1, <3>3
  <2>4. CASE UNCHANGED group
    BY <2>4
  <2>. QED  BY <2>2, <2>3, <2>4 DEF Next, RunStep, CmdSetup, CmdCabinet, SelectTenant, ReadMap, Probe, Create,
                SelectRow, WriteRow, Commit, Invalidate, Resolve, EnsurePanel, EnsureMenu, EnsureCabinet, EnsureTopic,
                PanelMessage, WriteMenuRow, Dies, LookUp, CacheExpires, SetCached, Crash, DeleteTopic, tables
<1>2. BoundOnce <=> [][Once]_vars
  BY DEF BoundOnce
<1>. QED  BY <1>1, <1>2, SetupInit, SetupStep, SerialInit, SerialStep, PTL DEF Spec

-----------------------------------------------------------------------------
(* The cache                                                               *)

\* A map that is read is up to date until it is cached; and the cache is, or is about to be
\* invalidated.
CacheInv ==
    ~ overlapped =>
        /\ lookup # NoLookup => lookup.g \in Groups /\ lookup.map = rows[lookup.g]
        /\ ~ lost => \A g \in Groups : \/ cache[g] \in {NoMap, rows[g]}
                                        \/ \E r \in Runs : job[r].pc = "invalidate" /\ job[r].g = g

LEMMA CacheStays ==
    ASSUME SetupInv, CacheInv, ~ overlapped, UNCHANGED <<rows, cached>>,
           lost' \/ (~ lost /\ \A r \in Runs : job[r].pc = "invalidate" => job'[r].pc = "invalidate" /\ job'[r].g = job[r].g)
    PROVE  CacheInv'
BY DEF CacheInv, cached

\* A run that was not to invalidate a group goes on.
LEMMA CacheRun ==
    ASSUME SetupInv, NEW r \in Runs, NEW m, Do(r, m)
    PROVE  job'[r] = m /\ \A q \in Runs : q # r => job'[q] = job[q]
BY Types DEF SetupInv, Inv, Do

LEMMA CacheGoes ==
    ASSUME SetupInv, CacheInv, ~ overlapped, UNCHANGED <<rows, cached>>, NEW r \in Runs, NEW m, Do(r, m),
           job[r].pc # "invalidate", UNCHANGED lost
    PROVE  CacheInv'
<1>1. \A q \in Runs : q # r => job'[q] = job[q]
  BY CacheRun
<1>. QED  BY <1>1, CacheStays

\* Rows are committed: what was read before is out of date, and the cache is to be invalidated.
LEMMA CacheCommit ==
    ASSUME SetupInv, CacheInv, NEW r \in Runs, ~ overlapped', Commit(r) \/ WriteMenuRow(r)
    PROVE  CacheInv'
<1>0. PICK j : j = job[r]
  OBVIOUS
<1>1. /\ j.pc \in {"commit", "write"} /\ UNCHANGED <<cached, lost>> /\ ~ overlapped
      /\ \E m : Do(r, m)
  BY <1>0 DEF Commit, WriteMenuRow
<1>2. j \in Job(Len(threads)) /\ RunOK(j, threads, rows, group) /\ TablesOK
  BY <1>0, OfRun
<1>3. j.g \in Groups
  BY <1>1, <1>2 DEF RunOK, Shape
<1>4. CASE UNCHANGED rows
  BY <1>0, <1>1, <1>4, CacheGoes
<1>5. CASE /\ \E w : rows' = [rows EXCEPT ![j.g] = w]
           /\ overlapped' = (overlapped \/ Outdates(j.g))
           /\ \E m : Do(r, m) /\ m.pc = "invalidate" /\ m.g = j.g
  <2>1. lookup.g # j.g
    BY <1>5 DEF Outdates
  <2>2. \A g \in Groups : g # j.g => rows'[g] = rows[g]
    BY <1>2, <1>5 DEF TablesOK
  <2>3. job'[r].pc = "invalidate" /\ job'[r].g = j.g /\ \A q \in Runs : q # r => job'[q] = job[q]
    BY <1>5, CacheRun
  <2>. QED  BY <1>0, <1>1, <2>1, <2>2, <2>3 DEF CacheInv, cached
<1>6. CASE Commit(r)
  <2>1. \/ UNCHANGED rows
        \/ /\ rows' = [rows EXCEPT ![j.g] = [k \in Keys |-> IF j.writes[k] # 0 THEN j.writes[k] ELSE @[k]]]
           /\ overlapped' = (overlapped \/ Outdates(j.g))
           /\ Do(r, [j EXCEPT !.pc = "invalidate", !.writes = None])
    BY <1>0, <1>6 DEF Commit
  <2>2. PICK m : m = [j EXCEPT !.pc = "invalidate", !.writes = None]
    OBVIOUS
  <2>3. m.pc = "invalidate" /\ m.g = j.g
    BY <1>2, <2>2 DEF Job
  <2>. QED  BY <1>4, <1>5, <2>1, <2>2, <2>3
<1>7. CASE WriteMenuRow(r)
  <2>1. \/ UNCHANGED rows
        \/ /\ rows' = [rows EXCEPT ![j.g][Key(j)] = j.thread]
           /\ overlapped' = (overlapped \/ Outdates(j.g))
           /\ Do(r, [j EXCEPT !.pc = "invalidate"])
    BY <1>0, <1>7 DEF WriteMenuRow
  <2>2. PICK m : m = [j EXCEPT !.pc = "invalidate"]
    OBVIOUS
  <2>3. m.pc = "invalidate" /\ m.g = j.g
    BY <1>2, <2>2 DEF Job
  <2>. QED  BY <1>4, <1>5, <2>1, <2>2, <2>3
<1>. QED  BY <1>6, <1>7

LEMMA CacheInvalidate ==
    ASSUME SetupInv, CacheInv, NEW r \in Runs, Invalidate(r)
    PROVE  CacheInv'
<1>0. PICK j : j = job[r]
  OBVIOUS
<1>1. /\ cache' = [cache EXCEPT ![j.g] = NoMap] /\ UNCHANGED <<rows, lookup, overlapped, lost>>
      /\ \E m : Do(r, m)
  BY <1>0 DEF Invalidate, tables, history
<1>2. \A q \in Runs : q # r => job'[q] = job[q]
  BY <1>1, CacheRun
<1>3. cache \in [Groups -> {NoMap} \cup Maps(Len(threads))]
  BY Types DEF SetupInv, Inv, OtherOK
<1>4. \A g \in Groups : cache'[g] = IF g = j.g THEN NoMap ELSE cache[g]
  BY <1>1, <1>3
<1>. QED  BY <1>0, <1>1, <1>2, <1>4 DEF CacheInv

LEMMA CacheResolve ==
    ASSUME SetupInv, CacheInv, NEW r \in Runs, Resolve(r)
    PROVE  CacheInv'
<1>0. PICK j : j = job[r]
  OBVIOUS
<1>1. /\ cache' = cache \/ cache' = [cache EXCEPT ![j.g] = rows[j.g]]
      /\ UNCHANGED <<rows, lookup, overlapped, lost>>
      /\ j.pc = "resolve" /\ \E m : Do(r, m)
  BY <1>0 DEF Resolve, tables, history
<1>2. \A q \in Runs : q # r => job'[q] = job[q]
  BY <1>1, CacheRun
<1>3. cache \in [Groups -> {NoMap} \cup Maps(Len(threads))]
  BY Types DEF SetupInv, Inv, OtherOK
<1>4. \A g \in Groups : cache'[g] = cache[g] \/ cache'[g] = rows[g]
  BY <1>1, <1>3
<1>. QED  BY <1>0, <1>1, <1>2, <1>4 DEF CacheInv

LEMMA CacheOthers ==
    ASSUME SetupInv, CacheInv, SetCached \/ \E g \in Groups : LookUp(g) \/ CacheExpires(g)
    PROVE  CacheInv'
<1>1. UNCHANGED <<rows, job, overlapped, lost>>
  BY DEF SetCached, LookUp, CacheExpires, tables, history
<1>2. cache \in [Groups -> {NoMap} \cup Maps(Len(threads))]
  BY Types DEF SetupInv, Inv, OtherOK
<1>3. CASE SetCached
  <2>1. lookup # NoLookup /\ cache' = [cache EXCEPT ![lookup.g] = lookup.map] /\ lookup' = NoLookup
    BY <1>3 DEF SetCached
  <2>2. \A g \in Groups : cache'[g] = IF g = lookup.g THEN lookup.map ELSE cache[g]
    BY <1>2, <2>1
  <2>. QED  BY <1>1, <2>1, <2>2 DEF CacheInv
<1>4. CASE \E g \in Groups : LookUp(g)
  BY <1>1, <1>4 DEF LookUp, CacheInv
<1>5. ASSUME NEW h \in Groups, CacheExpires(h) PROVE CacheInv'
  <2>1. cache' = [cache EXCEPT ![h] = NoMap] /\ lookup' = lookup
    BY <1>5 DEF CacheExpires
  <2>2. \A g \in Groups : cache'[g] = IF g = h THEN NoMap ELSE cache[g]
    BY <1>2, <2>1
  <2>. QED  BY <1>1, <2>1, <2>2 DEF CacheInv
<1>. QED  BY <1>3, <1>4, <1>5

LEMMA CacheInit == Init => CacheInv
<1>. SUFFICES ASSUME Init PROVE CacheInv
  OBVIOUS
<1>1. lookup = NoLookup /\ cache = [g \in Groups |-> NoMap]
  BY DEF Init
<1>. QED  BY <1>1 DEF CacheInv

LEMMA CacheStep == SetupInv /\ CacheInv /\ [Next]_vars => CacheInv'
<1>. SUFFICES ASSUME SetupInv, CacheInv, [Next]_vars, ~ overlapped' PROVE CacheInv'
  BY DEF CacheInv
<1>1. CASE \E r \in Runs, g \in Groups :
              CmdSetup(r, g) \/ CmdCabinet(r, g) \/ \E t \in Tenants : SelectTenant(r, t, g)
  <2>1. PICK r \in Runs : \E g \in Groups :
              CmdSetup(r, g) \/ CmdCabinet(r, g) \/ \E t \in Tenants : SelectTenant(r, t, g)
    BY <1>1
  <2>2. ~ overlapped /\ UNCHANGED <<rows, cached, lost>>
    <3>1. ~ overlapped
      BY <2>1 DEF CmdSetup, CmdCabinet, SelectTenant, Start
    <3>2. UNCHANGED <<rows, cached, lost>>
      BY <2>1 DEF CmdSetup, CmdCabinet, SelectTenant, tables
    <3>. QED  BY <3>1, <3>2
  <2>3. CASE UNCHANGED job
    BY <2>2, <2>3 DEF CacheInv, cached
  <2>4. CASE job[r].pc = "idle" /\ \E m : Do(r, m)
    BY <2>2, <2>4, CacheGoes
  <2>. QED  BY <2>1, <2>3, <2>4 DEF CmdSetup, CmdCabinet, SelectTenant, Start
<1>2. CASE \E r \in Runs : ReadMap(r) \/ Probe(r) \/ Create(r) \/ SelectRow(r) \/ WriteRow(r) \/ EnsurePanel(r)
                           \/ PanelMessage(r) \/ EnsureMenu(r) \/ EnsureCabinet(r) \/ Bind(r)
  <2>1. PICK r \in Runs : /\ job[r].pc # "invalidate" /\ \E m : Do(r, m)
                          /\ UNCHANGED <<rows, cached, overlapped, lost>>
    BY <1>2 DEF ReadMap, Probe, Create, SelectRow, WriteRow, EnsurePanel, PanelMessage, EnsureMenu, EnsureCabinet,
                EnsureTopic, Bind, tables, history
  <2>. QED  BY <2>1, CacheGoes
<1>3. CASE \E r \in Runs : Invalidate(r) \/ Resolve(r) \/ Commit(r) \/ WriteMenuRow(r)
  BY <1>3, CacheInvalidate, CacheResolve, CacheCommit
<1>4. CASE SetCached \/ \E g \in Groups : LookUp(g) \/ CacheExpires(g)
  BY <1>4, CacheOthers
<1>5. CASE \E r \in Runs : Dies(r)
  <2>1. lost' /\ UNCHANGED <<rows, cached, overlapped>>
    BY <1>5 DEF Dies, tables
  <2>. QED  BY <2>1, CacheStays
<1>6. CASE Crash
  <2>1. lost' /\ lookup' = NoLookup
    BY <1>6 DEF Crash
  <2>. QED  BY <2>1 DEF CacheInv
<1>7. CASE \E x \in alive : DeleteTopic(x)
  <2>1. PICK x \in alive : DeleteTopic(x)
    BY <1>7
  <2>2. /\ UNCHANGED <<rows, cached, overlapped, lost>>
        /\ job' = [r \in Runs |-> IF job[r].g = threads[x].g THEN [job[r] EXCEPT !.shaken = TRUE] ELSE job[r]]
    BY <2>1 DEF DeleteTopic, tables
  <2>3. \A q \in Runs : job'[q].pc = job[q].pc /\ job'[q].g = job[q].g
    BY <2>2, Types DEF SetupInv, Inv, Job
  <2>. QED  BY <2>2, <2>3 DEF CacheInv, cached
<1>8. CASE UNCHANGED vars \/ \E t \in Tenants : RegisterUnbound(t) \/ \E g \in Groups : RegisterGroup(t, g)
  <2>1. UNCHANGED <<rows, job, cached, overlapped, lost>>
    BY <1>8 DEF vars, RegisterUnbound, RegisterGroup, tables, history
  <2>. QED  BY <2>1 DEF CacheInv, cached
<1>. QED  BY <1>1, <1>2, <1>3, <1>4, <1>5, <1>6, <1>7, <1>8 DEF Next, RunStep

\* As long as no handler has died and no commit has overtaken a lookup, the cached topics of
\* a group are those of the table, but between a commit and its invalidate_topic_cache.
THEOREM CacheIsNotStale == Spec => []CacheFollowsRows
<1>1. CacheInv => CacheFollowsRows
  BY DEF CacheInv, CacheFollowsRows
<1>. QED  BY <1>1, SetupInit, SetupStep, CacheInit, CacheStep, PTL DEF Spec

-----------------------------------------------------------------------------
(* One topic for a key                                                     *)

\* Where a topic of a key is there, recorded or not yet, the run knows of it and makes no
\* other one.
Agrees(j, rw, al) ==
    \A k \in Keys : /\ rw[j.g][k] \in al => j.map[k] = rw[j.g][k]
                    /\ j.writes[k] \in al => j.map[k] = j.writes[k]
Knows(j, rw, al) ==
    /\ \A k \in Keys : j.writes[k] # 0 /\ rw[j.g][k] \in al => j.writes[k] = rw[j.g][k]
    /\ j.pc \in {"idle", "map"} => j.writes = None
    /\ ~ InMenu(j) /\ j.pc # "map" => Agrees(j, rw, al)
    /\ j.pc = "commit" => Agrees(j, rw, al)
    /\ j.pc = "invalidate" /\ j.thread = 0 => Agrees(j, rw, al)
    /\ j.pc = "create" => rw[j.g][Key(j)] \notin al /\ j.writes[Key(j)] \notin al
    /\ j.pc \in {"record", "write", "menu"} =>
          /\ rw[j.g][Key(j)] \in al => rw[j.g][Key(j)] = j.thread
          /\ j.writes[Key(j)] \in al => j.writes[Key(j)] = j.thread

\* A topic that is there is recorded, or a run of its group is about to record it.
Held(x, j, th) ==
    /\ j.g = th[x].g
    /\ j.writes[th[x].k] = x \/ (j.pc \in {"record", "write"} /\ j.thread = x)
Accounted == \A x \in alive : \/ rows[threads[x].g][threads[x].k] = x
                              \/ \E r \in Runs : Held(x, job[r], threads)

TopicsInv ==
    ~ overlapped /\ ~ lost => Accounted /\ \A r \in Runs : Knows(job[r], rows, alive)

LEMMA ZeroIsNoTopic == ASSUME SetupInv PROVE 0 \notin alive
BY OfRun, Types DEF SetupInv, Inv, TablesOK

LEMMA IdleKnows ==
    ASSUME NEW rw, NEW al
    PROVE  Knows(NoJob, rw, al)
<1>1. InMenu(NoJob)
  BY IdleFacts DEF InMenu
<1>. QED  BY <1>1, IdleFacts DEF Knows

\* A run goes on to the next topic.
LEMMA NextKnows ==
    ASSUME NEW n \in Nat, NEW j \in Job(n), NEW rw, NEW al, 0 \notin al, InCabinet(j) \/ j.i <= Len(Order),
           \A k \in Keys : j.writes[k] # 0 /\ rw[j.g][k] \in al => j.writes[k] = rw[j.g][k],
           ~ InMenu(j) => Agrees(j, rw, al)
    PROVE  Knows(NextTopic(j), rw, al)
<1>1. CASE InCabinet(j)
  <2>1. NextTopic(j) = NoJob
    BY <1>1 DEF NextTopic
  <2>. QED  BY <2>1, IdleKnows
<1>2. CASE ~ InCabinet(j)
  <2>0. PICK m : m = NextTopic(j)
    OBVIOUS
  <2>1. /\ m \in Job(n) /\ Kept(m, j) /\ m.i = j.i + 1 /\ m.map = j.map /\ m.writes = j.writes
        /\ m.pc = "create" => m.map[Key(m)] = 0
        /\ j.i < Len(Topics) => m.pc \in {"probe", "create"}
        /\ j.i = Len(Topics) => m.pc = "commit"
        /\ j.i > Len(Topics) => m.pc = IF j.i < Len(Order) THEN "resolve" ELSE "bind"
    BY <1>2, <2>0, NextIs
  <2>2. j.i \in Nat /\ Len(Topics) \in Nat /\ Len(Order) \in Nat /\ Len(Order) > Len(Topics) + 1
    BY JobFields, OrderFacts
  <2>3. /\ m.pc \in {"probe", "create", "commit", "resolve", "bind"} /\ m.g = j.g /\ ~ InCabinet(m)
        /\ (~ InMenu(m) => ~ InMenu(j)) /\ (m.pc \in {"commit", "create"} => ~ InMenu(j))
    BY <1>2, <2>1, <2>2 DEF InMenu, InCabinet, Kept
  <2>4. Agrees(j, rw, al) => Agrees(m, rw, al)
    BY <2>1, <2>3 DEF Agrees
  <2>5. m.pc = "create" => rw[m.g][Key(m)] \notin al /\ m.writes[Key(m)] \notin al
    <3>. SUFFICES ASSUME m.pc = "create" PROVE rw[m.g][Key(m)] \notin al /\ m.writes[Key(m)] \notin al
      OBVIOUS
    <3>1. Key(m) \in Keys
      BY <1>2, <2>1, <2>2, <2>3, KeyIsKey DEF InMenu
    <3>. QED  BY <2>1, <2>3, <2>4, <3>1 DEF Agrees
  <2>6. Knows(m, rw, al)
    BY <2>1, <2>3, <2>4, <2>5 DEF Knows
  <2>. QED  BY <2>0, <2>6
<1>. QED  BY <1>1, <1>2

\* On the panel and the menus, where nothing waits for a commit.
LEMMA MenuNextKnows ==
    ASSUME NEW n \in Nat, NEW j \in Job(n), NEW rw, NEW al, 0 \notin al, InCabinet(j) \/ j.i <= Len(Order),
           InMenu(j), j.writes = None
    PROVE  Knows(NextTopic(j), rw, al)
<1>1. \A k \in Keys : j.writes[k] = 0
  BY IdleFacts
<1>. QED  BY <1>1, NextKnows

\* A topic fails.
LEMMA ErrorKnows ==
    ASSUME NEW n \in Nat, NEW j \in Job(n), NEW rw, NEW al, 0 \notin al, InCabinet(j) \/ j.i <= Len(Order),
           Knows(j, rw, al), j.pc \in {"probe", "create", "menu"}
    PROVE  Knows(Error(j), rw, al)
<1> DEFINE b == j.err \/ ~ InMenu(j)
           e == [j EXCEPT !.err = b]
<1>1. b \in BOOLEAN
  BY JobFields DEF InMenu
<1>2. Error(j) = NextTopic(e)
  BY DEF Error
<1> HIDE DEF b
<1>3. e \in Job(n) /\ e.g = j.g /\ e.t = j.t /\ e.i = j.i /\ e.map = j.map /\ e.writes = j.writes
  BY <1>1 DEF Job
<1> HIDE DEF e
<1>4. (InCabinet(e) <=> InCabinet(j)) /\ (InMenu(e) <=> InMenu(j))
  BY <1>3 DEF InCabinet, InMenu
<1>5. ~ InMenu(e) => Agrees(e, rw, al)
  BY <1>3, <1>4 DEF Knows, Agrees
<1>. QED  BY <1>2, <1>3, <1>4, <1>5, NextKnows DEF Knows

\* What a run that goes on to the next topic held it holds still.
LEMMA NextHolds ==
    ASSUME NEW n \in Nat, NEW j \in Job(n), InCabinet(j) \/ j.i <= Len(Order), InCabinet(j) => j.writes = None,
           NEW m, m = NextTopic(j) \/ m = Error(j),
           NEW th, NEW x, x # 0, th[x].k \in Keys, j.g = th[x].g, j.writes[th[x].k] = x
    PROVE  Held(x, m, th)
<1>1. ~ InCabinet(j)
  BY IdleFacts
<1>2. CASE m = NextTopic(j)
  <2>1. Kept(m, j) /\ m.writes = j.writes
    BY <1>1, <1>2, NextIs
  <2>. QED  BY <2>1 DEF Held, Kept
<1>3. CASE m = Error(j)
  <2> DEFINE b == j.err \/ ~ InMenu(j)
             e == [j EXCEPT !.err = b]
  <2>1. b \in BOOLEAN
    BY JobFields DEF InMenu
  <2>2. m = NextTopic(e)
    BY <1>3 DEF Error
  <2> HIDE DEF b
  <2>3. e \in Job(n) /\ e.g = j.g /\ e.t = j.t /\ e.i = j.i /\ e.writes = j.writes
    BY <2>1 DEF Job
  <2> HIDE DEF e
  <2>4. ~ InCabinet(e)
    BY <1>1, <2>3 DEF InCabinet
  <2>5. Kept(m, e) /\ m.writes = e.writes
    BY <1>1, <2>2, <2>3, <2>4, NextIs
  <2>. QED  BY <2>3, <2>5 DEF Held, Kept
<1>. QED  BY <1>2, <1>3

\* The only run goes on.
LEMMA TopicsGo ==
    ASSUME SetupInv, TopicsInv, ~ overlapped, ~ lost, NEW r \in Runs, NEW m, Do(r, m), Running \subseteq {r},
           UNCHANGED <<rows, threads, alive>>, Knows(m, rows, alive),
           \A x \in alive : x # 0 /\ threads[x].k \in Keys /\ Held(x, job[r], threads) => Held(x, m, threads)
    PROVE  TopicsInv'
<1>1. job'[r] = m /\ \A q \in Runs : q # r => job[q] = NoJob /\ job'[q] = NoJob
  BY OnlyRun
<1>2. \A q \in Runs : Knows(job'[q], rows', alive')
  BY <1>1, IdleKnows
<1>3. ASSUME NEW x \in alive
      PROVE  \/ rows[threads[x].g][threads[x].k] = x
             \/ \E q \in Runs : Held(x, job'[q], threads)
  <2>1. x # 0 /\ threads[x].k \in Keys
    <3>1. PICK T : T = [g : Groups, k : Keys]
      OBVIOUS
    <3>2. x \in 1 .. Len(threads) /\ threads \in Seq(T)
      BY <3>1, Types DEF SetupInv, Inv, TablesOK
    <3>3. threads[x] \in T
      BY <3>2
    <3>. QED  BY <3>1, <3>2, <3>3
  <2>2. ~ Held(x, NoJob, threads)
    BY <2>1, IdleFacts DEF Held
  <2>3. rows[threads[x].g][threads[x].k] = x \/ Held(x, job[r], threads)
    BY <1>1, <2>2 DEF TopicsInv, Accounted
  <2>. QED  BY <1>1, <2>1, <2>3
<1>4. Accounted'
  BY <1>3 DEF Accounted
<1>. QED  BY <1>2, <1>4 DEF TopicsInv

\* A run holds what it held when it is at the same topic with the same thread.
LEMMA HoldsOn ==
    ASSUME NEW j, NEW m, NEW x, NEW th, Held(x, j, th), m.g = j.g, m.writes = j.writes,
           j.pc \in {"record", "write"} => m.pc \in {"record", "write"} /\ m.thread = j.thread
    PROVE  Held(x, m, th)
BY DEF Held

\* The facts of a run that is alone.
LEMMA KnowingRun ==
    ASSUME SetupInv, SerialInv, TopicsInv, ~ overlapped, ~ lost, NEW r \in Runs, NEW j, j = job[r], j.pc # "idle"
    PROVE  /\ j \in Job(Len(threads)) /\ Len(threads) \in Nat /\ RunOK(j, threads, rows, group) /\ TablesOK
           /\ Running \subseteq {r} /\ Knows(j, rows, alive) /\ 0 \notin alive
           /\ ~ j.broken /\ (InMenu(j) /\ j.pc # "commit" => j.writes = None)
           /\ (j.pc = "write" /\ rows[j.g][Key(j)] # 0 => j.seen)
<1>1. Holding(j, rows, alive, repaired, group) /\ Whole(j, rows, alive, repaired, group) /\ Running \subseteq {r}
  BY SerialRun
<1>. QED  BY <1>1, OfRun, ZeroIsNoTopic DEF Holding, Whole, TopicsInv

LEMMA TopicsReadMap ==
    ASSUME SetupInv, SerialInv, TopicsInv, ~ overlapped, ~ lost, NEW r \in Runs, ReadMap(r)
    PROVE  TopicsInv'
<1>0. PICK j : j = job[r]
  OBVIOUS
<1>1. /\ j.pc = "map" /\ Do(r, Topic([j EXCEPT !.map = rows[j.g]]))
      /\ UNCHANGED <<rows, threads, alive>>
  BY <1>0 DEF ReadMap, tables, telegram
<1>2. /\ j \in Job(Len(threads)) /\ Len(threads) \in Nat /\ RunOK(j, threads, rows, group) /\ TablesOK
      /\ Running \subseteq {r} /\ Knows(j, rows, alive) /\ 0 \notin alive
  BY <1>0, <1>1, KnowingRun
<1>3. j.g \in Groups /\ j.writes = None /\ ~ InCabinet(j) /\ j.i = 1
  BY <1>1, <1>2 DEF RunOK, Shape, Knows
<1>4. PICK m : m = [j EXCEPT !.map = rows[j.g]]
  OBVIOUS
<1>5. /\ m \in Job(Len(threads)) /\ m.g = j.g /\ m.t = j.t /\ m.i = j.i /\ m.writes = j.writes /\ m.map = rows[j.g]
  BY <1>2, <1>3, <1>4 DEF Job, TablesOK
<1>6. PICK n : n = Topic(m)
  OBVIOUS
<1>7. /\ n.t = j.t /\ n.g = j.g /\ n.i = j.i /\ n.writes = None /\ n.map = rows[j.g]
      /\ n.pc = IF rows[j.g][Key(m)] # 0 THEN "probe" ELSE "create"
  BY <1>2, <1>3, <1>5, <1>6, TopicIs DEF Kept
<1>8. Key(n) = Key(m) /\ Key(m) \in Keys
  <2>1. m.i <= Len(Order)
    BY <1>3, <1>5, OrderFacts
  <2>. QED  BY <1>2, <1>5, <1>7, <2>1, KeyIsKey DEF Key, InCabinet
<1>9. Agrees(n, rows, alive)
  BY <1>2, <1>7, IdleFacts DEF Agrees
<1>10. Knows(n, rows, alive)
  BY <1>2, <1>7, <1>8, <1>9, IdleFacts DEF Knows
<1>11. \A x : ~ (x # 0 /\ threads[x].k \in Keys /\ Held(x, j, threads))
  BY <1>1, <1>3, IdleFacts DEF Held
<1>. QED  BY <1>0, <1>1, <1>2, <1>4, <1>6, <1>10, <1>11, TopicsGo

LEMMA TopicsProbe ==
    ASSUME SetupInv, SerialInv, TopicsInv, ~ overlapped, ~ lost, NEW r \in Runs, Probe(r)
    PROVE  TopicsInv'
<1>0. PICK j : j = job[r]
  OBVIOUS
<1>1. j.pc = "probe" /\ UNCHANGED <<rows, threads, alive>>
  BY <1>0 DEF Probe, tables, telegram
<1>2. /\ j \in Job(Len(threads)) /\ Len(threads) \in Nat /\ RunOK(j, threads, rows, group)
      /\ Running \subseteq {r} /\ Knows(j, rows, alive) /\ 0 \notin alive
  BY <1>0, <1>1, KnowingRun
<1>3. /\ Key(j) \in Keys /\ (InCabinet(j) \/ j.i <= Len(Order)) /\ j.map \in Maps(Len(threads))
      /\ ~ InCabinet(j) /\ ~ InMenu(j)
  <2>1. ~ InCabinet(j) /\ ~ InMenu(j)
    BY <1>1, <1>2, JobFields, OrderFacts DEF RunOK, Shape, InMenu
  <2>. QED  BY <1>1, <1>2, <2>1, AtTopic, JobFields
<1>4. Agrees(j, rows, alive)
  BY <1>1, <1>2, <1>3 DEF Knows
<1>5. CASE j.map[Key(j)] \in alive /\ Do(r, [j EXCEPT !.pc = "record", !.thread = j.map[Key(j)]])
  <2>1. PICK m : m = [j EXCEPT !.pc = "record", !.thread = j.map[Key(j)]]
    OBVIOUS
  <2>2. /\ m.pc = "record" /\ m.thread = j.map[Key(j)] /\ m.t = j.t /\ m.g = j.g /\ m.i = j.i
        /\ m.writes = j.writes /\ m.map = j.map
    BY <1>2, <2>1 DEF Job
  <2>3. (InMenu(m) <=> InMenu(j)) /\ Key(m) = Key(j)
    BY <2>2 DEF InMenu, InCabinet, Key
  <2>4. Agrees(m, rows, alive)
    BY <1>4, <2>2 DEF Agrees
  <2>5. Knows(m, rows, alive)
    BY <1>2, <1>3, <1>4, <2>2, <2>3, <2>4 DEF Knows, Agrees
  <2>6. \A x : Held(x, j, threads) => Held(x, m, threads)
    BY <1>1, <2>2, HoldsOn
  <2>. QED  BY <1>0, <1>1, <1>2, <1>5, <2>1, <2>5, <2>6, TopicsGo
<1>6. CASE j.map[Key(j)] \notin alive /\ Do(r, [j EXCEPT !.pc = "create", !.map[Key(j)] = 0])
  <2>1. PICK y : y = [j.map EXCEPT ![Key(j)] = 0]
    OBVIOUS
  <2>2. \A k \in Keys : y[k] = IF k = Key(j) THEN 0 ELSE j.map[k]
    BY <1>3, <2>1 DEF Maps
  <2>3. PICK m : m = [j EXCEPT !.pc = "create", !.map = y]
    OBVIOUS
  <2>4. m = [j EXCEPT !.pc = "create", !.map[Key(j)] = 0]
    BY <1>2, <2>1, <2>3 DEF Job
  <2>5. /\ m.pc = "create" /\ m.t = j.t /\ m.g = j.g /\ m.i = j.i /\ m.writes = j.writes /\ m.map = y
    BY <1>2, <2>3 DEF Job
  <2>6. (InMenu(m) <=> InMenu(j)) /\ Key(m) = Key(j)
    BY <2>5 DEF InMenu, InCabinet, Key
  <2>7. rows[j.g][Key(j)] \notin alive /\ j.writes[Key(j)] \notin alive
    BY <1>3, <1>4, <1>6 DEF Agrees
  <2>8. Agrees(m, rows, alive)
    BY <1>4, <2>2, <2>5, <2>7 DEF Agrees
  <2>9. Knows(m, rows, alive)
    BY <1>2, <1>3, <2>5, <2>6, <2>7, <2>8 DEF Knows
  <2>10. \A x : Held(x, j, threads) => Held(x, m, threads)
    BY <1>1, <2>5, HoldsOn
  <2>. QED  BY <1>0, <1>1, <1>2, <1>6, <2>4, <2>9, <2>10, TopicsGo
<1>7. CASE Do(r, Error(j))
  <2>1. PICK m : m = Error(j)
    OBVIOUS
  <2>2. Knows(m, rows, alive)
    BY <1>1, <1>2, <1>3, <2>1, ErrorKnows
  <2>3. \A x \in alive : x # 0 /\ threads[x].k \in Keys /\ Held(x, j, threads) => Held(x, m, threads)
    BY <1>1, <1>2, <1>3, <2>1, NextHolds DEF Held
  <2>. QED  BY <1>0, <1>1, <1>2, <1>7, <2>1, <2>2, <2>3, TopicsGo
<1>8. \/ j.map[Key(j)] \in alive /\ Do(r, [j EXCEPT !.pc = "record", !.thread = j.map[Key(j)]])
      \/ j.map[Key(j)] \notin alive /\ Do(r, [j EXCEPT !.pc = "create", !.map[Key(j)] = 0])
      \/ Do(r, Error(j))
  BY <1>0 DEF Probe
<1>. QED  BY <1>5, <1>6, <1>7, <1>8

LEMMA TopicsCreate ==
    ASSUME SetupInv, SerialInv, TopicsInv, ~ overlapped, ~ lost, NEW r \in Runs, Create(r)
    PROVE  TopicsInv'
<1>0. PICK j : j = job[r]
  OBVIOUS
<1>1. j.pc = "create" /\ UNCHANGED rows
  BY <1>0 DEF Create, tables
<1>2. /\ j \in Job(Len(threads)) /\ Len(threads) \in Nat /\ RunOK(j, threads, rows, group) /\ TablesOK
      /\ Running \subseteq {r} /\ Knows(j, rows, alive) /\ 0 \notin alive
      /\ (InMenu(j) => j.writes = None)
  BY <1>0, <1>1, KnowingRun
<1>3. Key(j) \in Keys /\ (InCabinet(j) \/ j.i <= Len(Order)) /\ j.g \in Groups /\ j.writes \in Maps(Len(threads))
  BY <1>1, <1>2, AtTopic, JobFields
<1>4. CASE Do(r, Error(j)) /\ UNCHANGED telegram
  <2>1. PICK m : m = Error(j)
    OBVIOUS
  <2>2. Knows(m, rows, alive)
    BY <1>1, <1>2, <1>3, <2>1, ErrorKnows
  <2>3. InCabinet(j) => j.writes = None
    BY <1>2 DEF InMenu
  <2>4. \A x \in alive : x # 0 /\ threads[x].k \in Keys /\ Held(x, j, threads) => Held(x, m, threads)
    BY <1>1, <1>2, <1>3, <2>1, <2>3, NextHolds DEF Held
  <2>. QED  BY <1>0, <1>1, <1>2, <1>4, <2>1, <2>2, <2>4, TopicsGo DEF telegram
<1>5. CASE /\ threads' = Append(threads, [g |-> j.g, k |-> Key(j)])
           /\ alive'   = alive \cup {Len(threads')}
           /\ Do(r, [j EXCEPT !.pc = "record", !.thread = Len(threads')])
  <2>0. PICK c, n : c = [g |-> j.g, k |-> Key(j)] /\ n = Len(threads) + 1
    OBVIOUS
  <2>1. c \in [g : Groups, k : Keys] /\ c.g = j.g /\ c.k = Key(j)
    BY <1>3, <2>0
  <2>2. /\ Len(threads') = n /\ threads'[n] = c /\ \A x \in 1 .. Len(threads) : threads'[x] = threads[x]
    BY <1>2, <1>5, <2>0, <2>1 DEF TablesOK
  <2>3. PICK m : m = [j EXCEPT !.pc = "record", !.thread = n]
    OBVIOUS
  <2>4. /\ m.pc = "record" /\ m.thread = n /\ m.t = j.t /\ m.g = j.g /\ m.i = j.i
        /\ m.writes = j.writes /\ m.map = j.map
    BY <1>2, <2>3 DEF Job
  <2>5. (InMenu(m) <=> InMenu(j)) /\ Key(m) = Key(j)
    BY <2>4 DEF InMenu, InCabinet, Key
  <2>6. \A k \in Keys : /\ rows[j.g][k] \in alive' <=> rows[j.g][k] \in alive
                        /\ j.writes[k] \in alive' <=> j.writes[k] \in alive
    <3>1. n \notin 0 .. Len(threads) /\ alive' = alive \cup {n}
      BY <1>2, <1>5, <2>0, <2>2
    <3>2. \A k \in Keys : rows[j.g][k] \in 0 .. Len(threads) /\ j.writes[k] \in 0 .. Len(threads)
      BY <1>2, <1>3 DEF TablesOK, Maps
    <3>. QED  BY <3>1, <3>2
  <2>7. Agrees(j, rows, alive) => Agrees(m, rows, alive')
    BY <2>4, <2>6 DEF Agrees
  <2>8. Knows(m, rows, alive')
    BY <1>1, <1>2, <1>3, <2>4, <2>5, <2>6, <2>7 DEF Knows
  <2>9. job'[r] = m /\ \A q \in Runs : q # r => job[q] = NoJob /\ job'[q] = NoJob
    BY <1>2, <1>5, <2>2, <2>3, OnlyRun
  <2>10. \A q \in Runs : Knows(job'[q], rows', alive')
    BY <1>1, <2>8, <2>9, IdleKnows
  <2>11. ASSUME NEW x \in alive' PROVE rows[threads'[x].g][threads'[x].k] = x \/ \E q \in Runs : Held(x, job'[q], threads')
    <3>1. CASE x = n
      BY <2>1, <2>2, <2>4, <2>9, <3>1 DEF Held
    <3>2. CASE x # n
      <4>1. x \in alive /\ x \in 1 .. Len(threads) /\ threads'[x] = threads[x]
        BY <1>2, <1>5, <2>2, <3>2 DEF TablesOK
      <4>2. rows[threads[x].g][threads[x].k] = x \/ \E q \in Runs : Held(x, job[q], threads)
        BY <4>1 DEF TopicsInv, Accounted
      <4>3. Held(x, j, threads) => Held(x, m, threads')
        BY <1>1, <2>4, <4>1 DEF Held
      <4>4. \A q \in Runs : q # r /\ Held(x, job[q], threads) => Held(x, job'[q], threads')
        BY <2>9, <4>1 DEF Held
      <4>. QED  BY <1>0, <2>9, <4>1, <4>2, <4>3, <4>4
    <3>. QED  BY <3>1, <3>2
  <2>12. Accounted'
    BY <1>1, <2>11 DEF Accounted
  <2>. QED  BY <2>10, <2>12 DEF TopicsInv
<1>. QED  BY <1>0, <1>4, <1>5 DEF Create

LEMMA TopicsSelectRow ==
    ASSUME SetupInv, SerialInv, TopicsInv, ~ overlapped, ~ lost, NEW r \in Runs, SelectRow(r)
    PROVE  TopicsInv'
<1>0. PICK j : j = job[r]
  OBVIOUS
<1>1. j.pc = "record" /\ UNCHANGED <<rows, threads, alive>>
  BY <1>0 DEF SelectRow, tables, telegram
<1>2. j \in Job(Len(threads)) /\ Running \subseteq {r} /\ Knows(j, rows, alive) /\ ~ j.broken
  BY <1>0, <1>1, KnowingRun
<1>3. PICK s : Do(r, [j EXCEPT !.pc = "write", !.seen = s])
  <2>1. Do(r, [j EXCEPT !.pc = "write", !.seen = rows[j.g][Key(j)] # 0])
    BY <1>0, <1>2 DEF SelectRow
  <2>. QED  BY <2>1
<1>4. PICK m : m = [j EXCEPT !.pc = "write", !.seen = s]
  OBVIOUS
<1>5. /\ m.pc = "write" /\ m.thread = j.thread /\ m.t = j.t /\ m.g = j.g /\ m.i = j.i
      /\ m.writes = j.writes /\ m.map = j.map
  BY <1>2, <1>4 DEF Job
<1>6. (InMenu(m) <=> InMenu(j)) /\ Key(m) = Key(j)
  BY <1>5 DEF InMenu, InCabinet, Key
<1>7. Agrees(j, rows, alive) => Agrees(m, rows, alive)
  BY <1>5 DEF Agrees
<1>8. Knows(m, rows, alive)
  BY <1>1, <1>2, <1>5, <1>6, <1>7 DEF Knows
<1>9. \A x : Held(x, j, threads) => Held(x, m, threads)
  BY <1>5, HoldsOn
<1>. QED  BY <1>0, <1>1, <1>2, <1>3, <1>4, <1>8, <1>9, TopicsGo

LEMMA TopicsWriteRow ==
    ASSUME SetupInv, SerialInv, TopicsInv, ~ overlapped, ~ lost, NEW r \in Runs, WriteRow(r)
    PROVE  TopicsInv'
<1>0. PICK j : j = job[r]
  OBVIOUS
<1>1. j.pc = "write" /\ ~ InMenu(j) /\ UNCHANGED <<rows, threads, alive>>
  BY <1>0 DEF WriteRow, tables, telegram
<1>2. /\ j \in Job(Len(threads)) /\ Len(threads) \in Nat /\ RunOK(j, threads, rows, group)
      /\ Running \subseteq {r} /\ Knows(j, rows, alive) /\ 0 \notin alive
      /\ (rows[j.g][Key(j)] # 0 => j.seen)
  BY <1>0, <1>1, KnowingRun
<1>3. Do(r, NextTopic([j EXCEPT !.writes[Key(j)] = j.thread, !.map[Key(j)] = j.thread]))
  BY <1>0, <1>2 DEF WriteRow, Conflict
<1>4. /\ Key(j) \in Keys /\ (InCabinet(j) \/ j.i <= Len(Order)) /\ ~ InCabinet(j) /\ j.thread \in 0 .. Len(threads)
      /\ j.map \in Maps(Len(threads)) /\ j.writes \in Maps(Len(threads)) /\ Agrees(j, rows, alive)
      /\ MadeFor(j.thread, j.g, Key(j), threads)
  BY <1>1, <1>2, AtTopic, JobFields DEF InMenu, Knows, RunOK, Own
<1>5. PICK x, y : x = [j.writes EXCEPT ![Key(j)] = j.thread] /\ y = [j.map EXCEPT ![Key(j)] = j.thread]
  OBVIOUS
<1>6. /\ x \in Maps(Len(threads)) /\ y \in Maps(Len(threads))
      /\ \A k \in Keys : /\ x[k] = IF k = Key(j) THEN j.thread ELSE j.writes[k]
                         /\ y[k] = IF k = Key(j) THEN j.thread ELSE j.map[k]
  BY <1>4, <1>5 DEF Maps
<1>7. PICK m : m = [j EXCEPT !.writes = x, !.map = y]
  OBVIOUS
<1>8. m = [j EXCEPT !.writes[Key(j)] = j.thread, !.map[Key(j)] = j.thread]
  BY <1>2, <1>5, <1>7 DEF Job
<1>9. /\ m \in Job(Len(threads)) /\ m.t = j.t /\ m.g = j.g /\ m.i = j.i /\ m.writes = x /\ m.map = y
  BY <1>2, <1>6, <1>7 DEF Job
<1>10. ~ InCabinet(m) /\ ~ InMenu(m)
  BY <1>1, <1>4, <1>9 DEF InCabinet, InMenu
<1>11. \A k \in Keys : m.writes[k] # 0 /\ rows[m.g][k] \in alive => m.writes[k] = rows[m.g][k]
  BY <1>1, <1>2, <1>6, <1>9 DEF Knows
<1>12. Agrees(m, rows, alive)
  BY <1>1, <1>2, <1>4, <1>6, <1>9 DEF Knows, Agrees
<1>13. PICK n : n = NextTopic(m)
  OBVIOUS
<1>14. Knows(n, rows, alive)
  BY <1>2, <1>4, <1>9, <1>11, <1>12, <1>13, NextKnows
<1>15. ASSUME NEW z \in alive, z # 0, threads[z].k \in Keys, Held(z, j, threads) PROVE Held(z, n, threads)
  <2>1. m.writes[threads[z].k] = z
    <3>1. CASE j.thread = z
      BY <1>4, <1>6, <1>9, <1>15, <3>1 DEF MadeFor
    <3>2. CASE j.writes[threads[z].k] = z
      BY <1>1, <1>2, <1>6, <1>9, <1>15, <3>2 DEF Knows
    <3>. QED  BY <1>15, <3>1, <3>2 DEF Held
  <2>2. j.g = threads[z].g
    BY <1>15 DEF Held
  <2>. QED  BY <1>2, <1>4, <1>9, <1>10, <1>13, <1>15, <2>1, <2>2, NextHolds
<1>. QED  BY <1>0, <1>1, <1>2, <1>3, <1>8, <1>13, <1>14, <1>15, TopicsGo

\* Rows are written: those that are there stay, and what the run held is recorded.
LEMMA TopicsRecorded ==
    ASSUME SetupInv, TopicsInv, ~ overlapped, ~ lost, NEW r \in Runs, NEW m, Do(r, m), Running \subseteq {r},
           UNCHANGED <<threads, alive>>, Knows(m, rows', alive),
           \A g \in Groups, k \in Keys : rows[g][k] \in alive => rows'[g][k] = rows[g][k],
           \A x \in alive : x # 0 /\ threads[x].g \in Groups /\ threads[x].k \in Keys /\ Held(x, job[r], threads)
                            => rows'[threads[x].g][threads[x].k] = x
    PROVE  TopicsInv'
<1>1. job'[r] = m /\ \A q \in Runs : q # r => job[q] = NoJob /\ job'[q] = NoJob
  BY OnlyRun
<1>2. \A q \in Runs : Knows(job'[q], rows', alive')
  BY <1>1, IdleKnows
<1>3. ASSUME NEW x \in alive PROVE rows'[threads[x].g][threads[x].k] = x
  <2>1. x # 0 /\ threads[x].g \in Groups /\ threads[x].k \in Keys
    <3>1. PICK T : T = [g : Groups, k : Keys]
      OBVIOUS
    <3>2. x \in 1 .. Len(threads) /\ threads \in Seq(T)
      BY <3>1, Types DEF SetupInv, Inv, TablesOK
    <3>3. threads[x] \in T
      BY <3>2
    <3>. QED  BY <3>1, <3>2, <3>3
  <2>2. ~ Held(x, NoJob, threads)
    BY <2>1, IdleFacts DEF Held
  <2>3. rows[threads[x].g][threads[x].k] = x \/ Held(x, job[r], threads)
    BY <1>1, <2>2 DEF TopicsInv, Accounted
  <2>. QED  BY <2>1, <2>3
<1>4. Accounted'
  BY <1>3 DEF Accounted
<1>. QED  BY <1>2, <1>4 DEF TopicsInv

LEMMA TopicsCommit ==
    ASSUME SetupInv, SerialInv, TopicsInv, ~ overlapped, ~ lost, NEW r \in Runs, Commit(r)
    PROVE  TopicsInv'
<1>0. PICK j : j = job[r]
  OBVIOUS
<1>1. j.pc = "commit" /\ UNCHANGED <<threads, alive>>
  BY <1>0 DEF Commit, telegram
<1>2. /\ j \in Job(Len(threads)) /\ Len(threads) \in Nat /\ RunOK(j, threads, rows, group) /\ TablesOK
      /\ Running \subseteq {r} /\ Knows(j, rows, alive) /\ 0 \notin alive /\ ~ j.broken
  BY <1>0, <1>1, KnowingRun
<1>3. j.g \in Groups /\ ~ InCabinet(j) /\ j.i = Len(Topics) + 1 /\ Agrees(j, rows, alive)
  BY <1>1, <1>2 DEF RunOK, Shape, Knows
<1>4. /\ rows' = [rows EXCEPT ![j.g] = [k \in Keys |-> IF j.writes[k] # 0 THEN j.writes[k] ELSE @[k]]]
      /\ Do(r, [j EXCEPT !.pc = "invalidate", !.writes = None])
  BY <1>0, <1>2 DEF Commit
<1>5. PICK w : w = [k \in Keys |-> IF j.writes[k] # 0 THEN j.writes[k] ELSE rows[j.g][k]]
  OBVIOUS
<1>6. /\ \A k \in Keys : w[k] = IF j.writes[k] # 0 THEN j.writes[k] ELSE rows[j.g][k]
      /\ rows'[j.g] = w /\ \A g \in Groups : g # j.g => rows'[g] = rows[g]
  BY <1>2, <1>3, <1>4, <1>5 DEF TablesOK
<1>7. PICK m : m = [j EXCEPT !.pc = "invalidate", !.writes = None]
  OBVIOUS
<1>8. /\ m.pc = "invalidate" /\ m.t = j.t /\ m.g = j.g /\ m.i = j.i /\ m.writes = None /\ m.map = j.map
  BY <1>2, <1>7 DEF Job
<1>9. InMenu(m)
  BY <1>3, <1>8, OrderFacts DEF InMenu, InCabinet
<1>10. Agrees(m, rows', alive)
  BY <1>2, <1>3, <1>6, <1>8, IdleFacts DEF Agrees
<1>11. Knows(m, rows', alive)
  BY <1>2, <1>8, <1>9, <1>10, IdleFacts DEF Knows
<1>12. \A g \in Groups, k \in Keys : rows[g][k] \in alive => rows'[g][k] = rows[g][k]
  BY <1>2, <1>3, <1>6 DEF Knows
<1>13. ASSUME NEW x \in alive, x # 0, threads[x].k \in Keys, Held(x, j, threads)
       PROVE  rows'[threads[x].g][threads[x].k] = x
  BY <1>1, <1>6, <1>13 DEF Held
<1>. QED  BY <1>0, <1>1, <1>2, <1>4, <1>7, <1>11, <1>12, <1>13, TopicsRecorded

LEMMA TopicsWriteMenuRow ==
    ASSUME SetupInv, SerialInv, TopicsInv, ~ overlapped, ~ lost, NEW r \in Runs, WriteMenuRow(r)
    PROVE  TopicsInv'
<1>0. PICK j : j = job[r]
  OBVIOUS
<1>1. j.pc = "write" /\ InMenu(j) /\ UNCHANGED <<threads, alive>>
  BY <1>0 DEF WriteMenuRow, telegram
<1>2. /\ j \in Job(Len(threads)) /\ Len(threads) \in Nat /\ RunOK(j, threads, rows, group) /\ TablesOK
      /\ Running \subseteq {r} /\ Knows(j, rows, alive) /\ 0 \notin alive /\ j.writes = None
      /\ (rows[j.g][Key(j)] # 0 => j.seen)
  BY <1>0, <1>1, KnowingRun
<1>3. /\ j.g \in Groups /\ Key(j) \in Keys /\ j.thread # 0
      /\ MadeFor(j.thread, j.g, Key(j), threads)
  BY <1>1, <1>2, AtTopic DEF RunOK, Shape, Own
<1>4. rows' = [rows EXCEPT ![j.g][Key(j)] = j.thread] /\ Do(r, [j EXCEPT !.pc = "invalidate"])
  BY <1>0, <1>2 DEF WriteMenuRow, Conflict
<1>5. PICK w : w = [rows[j.g] EXCEPT ![Key(j)] = j.thread]
  OBVIOUS
<1>6. /\ \A k \in Keys : w[k] = IF k = Key(j) THEN j.thread ELSE rows[j.g][k]
      /\ rows'[j.g] = w /\ \A g \in Groups : g # j.g => rows'[g] = rows[g]
  BY <1>2, <1>3, <1>4, <1>5 DEF TablesOK, Maps
<1>7. PICK m : m = [j EXCEPT !.pc = "invalidate"]
  OBVIOUS
<1>8. /\ m.pc = "invalidate" /\ m.t = j.t /\ m.g = j.g /\ m.i = j.i /\ m.writes = None /\ m.thread # 0
  BY <1>2, <1>3, <1>7 DEF Job
<1>9. InMenu(m)
  BY <1>1, <1>8 DEF InMenu, InCabinet
<1>10. Knows(m, rows', alive)
  BY <1>8, <1>9, IdleFacts DEF Knows
<1>11. \A g \in Groups, k \in Keys : rows[g][k] \in alive => rows'[g][k] = rows[g][k]
  BY <1>1, <1>2, <1>6 DEF Knows
<1>12. ASSUME NEW x \in alive, x # 0, threads[x].k \in Keys, Held(x, j, threads)
       PROVE  rows'[threads[x].g][threads[x].k] = x
  <2>1. j.thread = x /\ j.g = threads[x].g
    BY <1>2, <1>12, IdleFacts DEF Held
  <2>2. threads[x].k = Key(j)
    BY <1>3, <2>1 DEF MadeFor
  <2>. QED  BY <1>3, <1>6, <2>1, <2>2
<1>. QED  BY <1>0, <1>1, <1>2, <1>4, <1>7, <1>10, <1>11, <1>12, TopicsRecorded

\* Among the menus a run holds nothing but the topic at hand.
LEMMA TopicsMenu ==
    ASSUME SetupInv, TopicsInv, ~ overlapped, ~ lost, NEW r \in Runs, NEW m, Do(r, m), Running \subseteq {r},
           UNCHANGED <<rows, threads, alive>>, Knows(m, rows, alive),
           job[r].pc \notin {"record", "write"}, job[r].writes = None
    PROVE  TopicsInv'
<1>1. \A x : ~ (x # 0 /\ threads[x].k \in Keys /\ Held(x, job[r], threads))
  BY IdleFacts DEF Held
<1>. QED  BY <1>1, TopicsGo

LEMMA MenuKnows ==
    ASSUME NEW m, NEW rw, NEW al, 0 \notin al, InMenu(m), m.writes = None,
           m.pc \in {"create", "resolve", "menu", "message", "bind"},
           m.pc = "create" => rw[m.g][Key(m)] \notin al,
           m.pc = "menu" /\ rw[m.g][Key(m)] \in al => rw[m.g][Key(m)] = m.thread,
           Key(m) \in Keys \/ m.pc \notin {"create", "menu"}
    PROVE  Knows(m, rw, al)
BY IdleFacts DEF Knows

LEMMA TopicsInvalidate ==
    ASSUME SetupInv, SerialInv, TopicsInv, ~ overlapped, ~ lost, NEW r \in Runs, Invalidate(r)
    PROVE  TopicsInv'
<1>0. PICK j : j = job[r]
  OBVIOUS
<1>1. j.pc = "invalidate" /\ Do(r, AfterInvalidate(j)) /\ UNCHANGED <<rows, threads, alive>>
  BY <1>0 DEF Invalidate, tables, telegram
<1>2. /\ j \in Job(Len(threads)) /\ Len(threads) \in Nat /\ RunOK(j, threads, rows, group)
      /\ Running \subseteq {r} /\ Knows(j, rows, alive) /\ 0 \notin alive
      /\ (InMenu(j) => j.writes = None)
  BY <1>0, <1>1, KnowingRun
<1>3. j.i \in Nat /\ Len(Topics) \in Nat
  BY <1>2, JobFields, OrderFacts
<1>4. InMenu(j) /\ (InCabinet(j) \/ j.i <= Len(Order)) /\ j.writes = None
  <2>1. InMenu(j)
    BY <1>1, <1>2, <1>3 DEF RunOK, Shape, InMenu
  <2>. QED  BY <1>1, <1>2, <2>1, AtTopic
<1>5. Knows(AfterInvalidate(j), rows, alive)
  <2>1. CASE AfterInvalidate(j) = NextTopic(j)
    BY <1>2, <1>4, <2>1, MenuNextKnows
  <2>2. ASSUME NEW p \in {"message", "resolve"}, AfterInvalidate(j) = [j EXCEPT !.pc = p]
        PROVE  Knows(AfterInvalidate(j), rows, alive)
    <3>1. PICK m : m = [j EXCEPT !.pc = p]
      OBVIOUS
    <3>2. m.pc = p /\ m.t = j.t /\ m.g = j.g /\ m.i = j.i /\ m.writes = j.writes
      BY <1>2, <3>1 DEF Job
    <3>3. InMenu(m)
      BY <1>4, <3>2 DEF InMenu, InCabinet
    <3>. QED  BY <1>2, <1>4, <2>2, <3>1, <3>2, <3>3, MenuKnows
  <2>3. CASE AfterInvalidate(j) = [j EXCEPT !.i = @ + 1, !.pc = "resolve"]
    <3>1. PICK m : m = [j EXCEPT !.i = @ + 1, !.pc = "resolve"]
      OBVIOUS
    <3>2. m.pc = "resolve" /\ m.t = j.t /\ m.g = j.g /\ m.i = j.i + 1 /\ m.writes = j.writes
      BY <1>2, <3>1 DEF Job
    <3>3. InMenu(m)
      BY <1>3, <1>4, <3>2 DEF InMenu, InCabinet
    <3>. QED  BY <1>2, <1>4, <2>3, <3>1, <3>2, <3>3, MenuKnows
  <2>4. CASE /\ InPanel(j) /\ j.thread = 0
             /\ AfterInvalidate(j) = [j EXCEPT !.pc = "menu", !.thread = j.map[Panel]]
    <3>1. PICK m : m = [j EXCEPT !.pc = "menu", !.thread = j.map[Panel]]
      OBVIOUS
    <3>2. m.pc = "menu" /\ m.t = j.t /\ m.g = j.g /\ m.i = j.i /\ m.writes = j.writes /\ m.thread = j.map[Panel]
      BY <1>2, <3>1 DEF Job
    <3>3. InMenu(m) /\ Key(m) = Panel /\ Panel \in Keys
      BY <1>4, <2>4, <3>2, OrderFacts DEF InMenu, InCabinet, InPanel, Key
    <3>4. Agrees(j, rows, alive)
      BY <1>1, <1>2, <2>4 DEF Knows
    <3>5. rows[m.g][Key(m)] \in alive => rows[m.g][Key(m)] = m.thread
      BY <3>2, <3>3, <3>4 DEF Agrees
    <3>. QED  BY <1>2, <1>4, <2>4, <3>1, <3>2, <3>3, <3>5, MenuKnows
  <2>5. j.thread = 0 => AfterInvalidate(j) = Ensure(j)
    BY DEF AfterInvalidate
  <2>6. j.thread # 0 => AfterInvalidate(j) \in {[j EXCEPT !.pc = "message"], NextTopic(j)}
    BY DEF AfterInvalidate
  <2>7. \/ InPanel(j) /\ Ensure(j) = [j EXCEPT !.pc = "menu", !.thread = j.map[Panel]]
        \/ Ensure(j) = [j EXCEPT !.i = @ + 1, !.pc = "resolve"] \/ Ensure(j) = [j EXCEPT !.pc = "resolve"]
    BY DEF Ensure
  <2>. QED  BY <2>1, <2>2, <2>3, <2>4, <2>5, <2>6, <2>7
<1>. QED  BY <1>0, <1>1, <1>2, <1>4, <1>5, TopicsMenu

LEMMA TopicsResolve ==
    ASSUME SetupInv, SerialInv, CacheInv, TopicsInv, ~ overlapped, ~ lost, NEW r \in Runs, Resolve(r)
    PROVE  TopicsInv'
<1>0. PICK j : j = job[r]
  OBVIOUS
<1>1. j.pc = "resolve" /\ UNCHANGED <<rows, threads, alive>>
  BY <1>0 DEF Resolve, tables, telegram
<1>2. /\ j \in Job(Len(threads)) /\ Len(threads) \in Nat /\ RunOK(j, threads, rows, group)
      /\ Running \subseteq {r} /\ Knows(j, rows, alive) /\ 0 \notin alive /\ ~ j.broken
      /\ (InMenu(j) => j.writes = None)
  BY <1>0, <1>1, KnowingRun
<1>3. InMenu(j) /\ j.writes = None /\ j.g \in Groups /\ Key(j) \in Keys
  <2>1. InMenu(j)
    BY <1>1, <1>2, JobFields, OrderFacts DEF RunOK, Shape, InMenu
  <2>. QED  BY <1>1, <1>2, <2>1, AtTopic
<1>4. cache[j.g] \in {NoMap, rows[j.g]}
  <2>1. \A q \in Runs : job[q].pc # "invalidate"
    BY <1>0, <1>1, <1>2 DEF Running
  <2>. QED  BY <1>3, <2>1 DEF CacheInv
<1>5. Do(r, [j EXCEPT !.pc = "menu", !.thread = rows[j.g][Key(j)]])
  <2>1. \/ cache[j.g] # NoMap /\ Do(r, [j EXCEPT !.pc = "menu", !.thread = cache[j.g][Key(j)]])
        \/ Do(r, [j EXCEPT !.pc = "menu", !.thread = rows[j.g][Key(j)]])
    BY <1>0, <1>2 DEF Resolve
  <2>. QED  BY <1>4, <2>1
<1>6. PICK m : m = [j EXCEPT !.pc = "menu", !.thread = rows[j.g][Key(j)]]
  OBVIOUS
<1>7. m.pc = "menu" /\ m.t = j.t /\ m.g = j.g /\ m.i = j.i /\ m.writes = j.writes /\ m.thread = rows[j.g][Key(j)]
  BY <1>2, <1>6 DEF Job
<1>8. InMenu(m) /\ Key(m) = Key(j)
  BY <1>3, <1>7 DEF InMenu, InCabinet, Key
<1>9. Knows(m, rows, alive)
  BY <1>2, <1>3, <1>7, <1>8, MenuKnows
<1>. QED  BY <1>0, <1>1, <1>2, <1>3, <1>5, <1>6, <1>9, TopicsMenu

LEMMA TopicsMenus ==
    ASSUME SetupInv, SerialInv, TopicsInv, ~ overlapped, ~ lost, NEW r \in Runs,
           EnsurePanel(r) \/ EnsureMenu(r) \/ EnsureCabinet(r)
    PROVE  TopicsInv'
<1>0. PICK j : j = job[r]
  OBVIOUS
<1>1. /\ j.pc = "menu" /\ UNCHANGED <<rows, threads, alive>>
      /\ \/ Do(r, [j EXCEPT !.pc = "message"]) \/ Do(r, NextTopic(j))
         \/ j.thread \notin alive /\ Do(r, [j EXCEPT !.pc = "create"])
  BY <1>0 DEF EnsurePanel, EnsureMenu, EnsureCabinet, EnsureTopic, tables, telegram
<1>2. /\ j \in Job(Len(threads)) /\ Len(threads) \in Nat /\ RunOK(j, threads, rows, group)
      /\ Running \subseteq {r} /\ Knows(j, rows, alive) /\ 0 \notin alive /\ (InMenu(j) => j.writes = None)
  BY <1>0, <1>1, KnowingRun
<1>3. InMenu(j) /\ j.writes = None /\ Key(j) \in Keys /\ (InCabinet(j) \/ j.i <= Len(Order))
  <2>1. InMenu(j)
    BY <1>1, <1>2, JobFields, OrderFacts DEF RunOK, Shape, InMenu
  <2>. QED  BY <1>1, <1>2, <2>1, AtTopic
<1>4. CASE Do(r, NextTopic(j))
  <2>1. Knows(NextTopic(j), rows, alive)
    BY <1>2, <1>3, MenuNextKnows
  <2>. QED  BY <1>0, <1>1, <1>2, <1>3, <1>4, <2>1, TopicsMenu
<1>5. ASSUME NEW p \in {"message", "create"}, p = "create" => j.thread \notin alive, Do(r, [j EXCEPT !.pc = p])
      PROVE  TopicsInv'
  <2>1. PICK m : m = [j EXCEPT !.pc = p]
    OBVIOUS
  <2>2. m.pc = p /\ m.t = j.t /\ m.g = j.g /\ m.i = j.i /\ m.writes = j.writes
    BY <1>2, <2>1 DEF Job
  <2>3. InMenu(m) /\ Key(m) = Key(j)
    BY <1>3, <2>2 DEF InMenu, InCabinet, Key
  <2>4. p = "create" => rows[m.g][Key(m)] \notin alive
    BY <1>1, <1>2, <1>5, <2>2, <2>3 DEF Knows
  <2>5. Knows(m, rows, alive)
    BY <1>2, <1>3, <2>2, <2>3, <2>4, MenuKnows
  <2>. QED  BY <1>0, <1>1, <1>2, <1>3, <1>5, <2>1, <2>5, TopicsMenu
<1>. QED  BY <1>1, <1>4, <1>5

LEMMA TopicsPanelMessage ==
    ASSUME SetupInv, SerialInv, TopicsInv, ~ overlapped, ~ lost, NEW r \in Runs, PanelMessage(r)
    PROVE  TopicsInv'
<1>0. PICK j : j = job[r]
  OBVIOUS
<1>1. /\ j.pc = "message" /\ UNCHANGED <<rows, threads, alive>>
      /\ Do(r, NextTopic(j)) \/ Do(r, NextTopic([j EXCEPT !.err = TRUE]))
  BY <1>0 DEF PanelMessage, tables, telegram
<1>2. /\ j \in Job(Len(threads)) /\ Len(threads) \in Nat /\ RunOK(j, threads, rows, group)
      /\ Running \subseteq {r} /\ Knows(j, rows, alive) /\ 0 \notin alive /\ (InMenu(j) => j.writes = None)
  BY <1>0, <1>1, KnowingRun
<1>3. InMenu(j) /\ j.writes = None /\ (InCabinet(j) \/ j.i <= Len(Order))
  <2>1. InMenu(j)
    BY <1>1, <1>2, JobFields, OrderFacts DEF RunOK, Shape, InMenu
  <2>. QED  BY <1>1, <1>2, <2>1, AtTopic
<1>4. CASE Do(r, NextTopic(j))
  <2>1. Knows(NextTopic(j), rows, alive)
    BY <1>2, <1>3, NextKnows DEF Knows
  <2>. QED  BY <1>0, <1>1, <1>2, <1>3, <1>4, <2>1, TopicsMenu
<1>5. CASE Do(r, NextTopic([j EXCEPT !.err = TRUE]))
  <2>1. PICK m : m = [j EXCEPT !.err = TRUE]
    OBVIOUS
  <2>2. m \in Job(Len(threads)) /\ m.t = j.t /\ m.g = j.g /\ m.i = j.i /\ m.writes = j.writes
    BY <1>2, <2>1 DEF Job
  <2>3. InMenu(m) /\ (InCabinet(m) \/ m.i <= Len(Order))
    BY <1>3, <2>2 DEF InMenu, InCabinet
  <2>4. Knows(NextTopic(m), rows, alive)
    BY <1>2, <1>3, <2>2, <2>3, MenuNextKnows
  <2>. QED  BY <1>0, <1>1, <1>2, <1>3, <1>5, <2>1, <2>4, TopicsMenu
<1>. QED  BY <1>1, <1>4, <1>5

LEMMA TopicsBind ==
    ASSUME SetupInv, SerialInv, TopicsInv, ~ overlapped, ~ lost, NEW r \in Runs, Bind(r)
    PROVE  TopicsInv'
<1>0. PICK j : j = job[r]
  OBVIOUS
<1>1. j.pc = "bind" /\ Do(r, NoJob) /\ UNCHANGED <<rows, threads, alive>>
  BY <1>0 DEF Bind, telegram
<1>2. /\ j \in Job(Len(threads)) /\ RunOK(j, threads, rows, group) /\ Running \subseteq {r}
      /\ (InMenu(j) => j.writes = None)
  BY <1>0, <1>1, KnowingRun
<1>3. InMenu(j)
  BY <1>1, <1>2 DEF RunOK, Shape, InMenu
<1>. QED  BY <1>0, <1>1, <1>2, <1>3, IdleKnows, TopicsMenu

\* A run begins when there is no other one.
LEMMA TopicsStart ==
    ASSUME SetupInv, TopicsInv, ~ overlapped, ~ lost, NEW r \in Runs, NEW m, Do(r, m), Running = {},
           UNCHANGED <<rows, threads, alive>>, m.pc \in {"map", "resolve"}, m.writes = None,
           m.pc = "resolve" => InMenu(m)
    PROVE  TopicsInv'
<1>1. job[r] = NoJob
  <2>1. job[r].pc = "idle"
    BY DEF Running
  <2>. QED  BY <2>1, OfRun DEF RunOK, Shape
<1>2. Knows(m, rows, alive)
  BY IdleFacts DEF Knows
<1>. QED  BY <1>1, <1>2, IdleFacts, TopicsMenu

LEMMA TopicsCommands ==
    ASSUME SetupInv, TopicsInv, ~ overlapped, ~ lost, ~ overlapped', NEW r \in Runs, NEW g \in Groups,
           CmdSetup(r, g) \/ CmdCabinet(r, g) \/ \E t \in Tenants : SelectTenant(r, t, g)
    PROVE  TopicsInv'
<1>1. UNCHANGED <<rows, threads, alive>>
  BY DEF CmdSetup, CmdCabinet, SelectTenant, tables, telegram
<1>2. Len(threads) \in Nat
  BY OfRun
<1>3. NoJob \in Job(Len(threads)) /\ NoJob.writes = None /\ NoJob.t = Absent
  BY <1>2, IdleFacts
<1>4. ASSUME NEW t \in Tenants, NEW b \in BOOLEAN, Start(r, t, g, b) PROVE TopicsInv'
  <2>1. Do(r, [NoJob EXCEPT !.pc = "map", !.t = t, !.g = g, !.bind = b]) /\ Running = {}
    BY <1>4 DEF Start
  <2>2. PICK m : m = [NoJob EXCEPT !.pc = "map", !.t = t, !.g = g, !.bind = b]
    OBVIOUS
  <2>3. m.pc = "map" /\ m.writes = NoJob.writes
    BY <1>3, <2>2 DEF Job
  <2>. QED  BY <1>1, <1>3, <2>1, <2>2, <2>3, TopicsStart
<1>5. CASE CmdCabinet(r, g)
  <2>1. Do(r, [NoJob EXCEPT !.pc = "resolve", !.g = g]) /\ Running = {}
    BY <1>5 DEF CmdCabinet
  <2>2. PICK m : m = [NoJob EXCEPT !.pc = "resolve", !.g = g]
    OBVIOUS
  <2>3. m.pc = "resolve" /\ m.writes = NoJob.writes /\ m.t = NoJob.t
    BY <1>3, <2>2 DEF Job
  <2>4. InMenu(m)
    BY <1>3, <2>3 DEF InMenu, InCabinet
  <2>. QED  BY <1>1, <1>3, <2>1, <2>2, <2>3, <2>4, TopicsStart
<1>6. CASE UNCHANGED job
  BY <1>1, <1>6 DEF TopicsInv, Accounted
<1>. QED  BY <1>4, <1>5, <1>6 DEF CmdSetup, SelectTenant

LEMMA TopicsDelete ==
    ASSUME SetupInv, TopicsInv, ~ overlapped, ~ lost, NEW z \in alive, DeleteTopic(z)
    PROVE  TopicsInv'
<1>1. /\ UNCHANGED <<rows, threads>> /\ alive' = alive \ {z}
      /\ job' = [r \in Runs |-> IF job[r].g = threads[z].g THEN [job[r] EXCEPT !.shaken = TRUE] ELSE job[r]]
  BY DEF DeleteTopic, tables, cached
<1>2. ASSUME NEW q \in Runs
      PROVE  /\ Knows(job'[q], rows, alive')
             /\ \A x : Held(x, job[q], threads) => Held(x, job'[q], threads)
  <2>1. PICK j, m : j = job[q] /\ m = job'[q]
    OBVIOUS
  <2>2. j \in Job(Len(threads)) /\ Knows(j, rows, alive)
    BY <2>1, OfRun DEF TopicsInv
  <2>3. /\ m.pc = j.pc /\ m.t = j.t /\ m.g = j.g /\ m.i = j.i /\ m.map = j.map /\ m.writes = j.writes
        /\ m.thread = j.thread
    <3>1. m = j \/ m = [j EXCEPT !.shaken = TRUE]
      BY <1>1, <2>1
    <3>. QED  BY <2>2, <3>1 DEF Job
  <2>4. (InMenu(m) <=> InMenu(j)) /\ Key(m) = Key(j) /\ alive' \subseteq alive
    BY <1>1, <2>3 DEF InMenu, InCabinet, Key
  <2>5. Agrees(j, rows, alive) => Agrees(m, rows, alive')
    BY <2>3, <2>4 DEF Agrees
  <2>6. Knows(m, rows, alive')
    BY <2>2, <2>3, <2>4, <2>5 DEF Knows
  <2>. QED  BY <2>1, <2>3, <2>6 DEF Held
<1>3. Accounted'
  BY <1>1, <1>2 DEF TopicsInv, Accounted
<1>. QED  BY <1>1, <1>2, <1>3 DEF TopicsInv

LEMMA TopicsInit == Init => TopicsInv
<1>. SUFFICES ASSUME Init PROVE TopicsInv
  OBVIOUS
<1>1. alive = {} /\ job = [r \in Runs |-> NoJob]
  BY DEF Init
<1>. QED  BY <1>1, IdleKnows DEF TopicsInv, Accounted

LEMMA TopicsStep == SetupInv /\ SerialInv /\ CacheInv /\ TopicsInv /\ [Next]_vars => TopicsInv'
<1>. SUFFICES ASSUME SetupInv, SerialInv, CacheInv, TopicsInv, [Next]_vars, ~ overlapped', ~ lost' PROVE TopicsInv'
  BY DEF TopicsInv
<1>1. CASE \E r \in Runs, g \in Groups :
              CmdSetup(r, g) \/ CmdCabinet(r, g) \/ \E t \in Tenants : SelectTenant(r, t, g)
  <2>1. ~ overlapped
    BY <1>1 DEF CmdSetup, CmdCabinet, SelectTenant, Start
  <2>2. ~ lost
    BY <1>1 DEF CmdSetup, CmdCabinet, SelectTenant
  <2>. QED  BY <1>1, <2>1, <2>2, TopicsCommands
<1>2. CASE \E r \in Runs : ReadMap(r) \/ Probe(r) \/ Create(r) \/ SelectRow(r) \/ WriteRow(r)
  <2>1. ~ overlapped /\ ~ lost
    BY <1>2 DEF ReadMap, Probe, Create, SelectRow, WriteRow, history
  <2>. QED  BY <1>2, <2>1, TopicsReadMap, TopicsProbe, TopicsCreate, TopicsSelectRow, TopicsWriteRow
<1>3. CASE \E r \in Runs : Commit(r) \/ WriteMenuRow(r) \/ Bind(r)
  <2>1. ~ overlapped
    BY <1>3 DEF Commit, WriteMenuRow, Bind
  <2>2. ~ lost
    BY <1>3 DEF Commit, WriteMenuRow, Bind
  <2>. QED  BY <1>3, <2>1, <2>2, TopicsCommit, TopicsWriteMenuRow, TopicsBind
<1>4. CASE \E r \in Runs : Invalidate(r) \/ Resolve(r) \/ EnsurePanel(r) \/ PanelMessage(r) \/ EnsureMenu(r)
                           \/ EnsureCabinet(r)
  <2>1. ~ overlapped /\ ~ lost
    BY <1>4 DEF Invalidate, Resolve, EnsurePanel, PanelMessage, EnsureMenu, EnsureCabinet, EnsureTopic, history
  <2>. QED  BY <1>4, <2>1, TopicsInvalidate, TopicsResolve, TopicsMenus, TopicsPanelMessage
<1>5. CASE \E x \in alive : DeleteTopic(x)
  <2>1. ~ overlapped /\ ~ lost
    BY <1>5 DEF DeleteTopic
  <2>. QED  BY <1>5, <2>1, TopicsDelete
<1>6. CASE Crash \/ \E r \in Runs : Dies(r)
  BY <1>6 DEF Crash, Dies
<1>7. CASE \/ UNCHANGED vars \/ SetCached \/ \E g \in Groups : LookUp(g) \/ CacheExpires(g)
           \/ \E t \in Tenants : RegisterUnbound(t) \/ \E g \in Groups : RegisterGroup(t, g)
  <2>1. UNCHANGED <<rows, threads, alive, job, overlapped, lost>>
    BY <1>7 DEF vars, SetCached, LookUp, CacheExpires, RegisterUnbound, RegisterGroup, tables, telegram, history
  <2>. QED  BY <2>1 DEF TopicsInv, Accounted
<1>. QED  BY <1>1, <1>2, <1>3, <1>4, <1>5, <1>6, <1>7 DEF Next, RunStep

\* As long as runs do not overlap and no handler dies, every forum topic in Telegram is the
\* one recorded for its key when no run is under way: repeating /setup or /cabinet, after
\* whatever error, makes no second topic (_probe_topic_thread, create_forum_topic, upsert_topic).
THEOREM TopicsAreMadeOnce == Spec => []NoDuplicateTopics
<1>1. SetupInv /\ TopicsInv => NoDuplicateTopics
  <2>. SUFFICES ASSUME SetupInv, TopicsInv, ~ overlapped, ~ lost, Running = {}, NEW x \in alive
                PROVE  rows[threads[x].g][threads[x].k] = x
    BY DEF NoDuplicateTopics
  <2>1. \A r \in Runs : job[r] = NoJob
    BY OfRun DEF RunOK, Shape, Running
  <2>2. x # 0 /\ threads[x].k \in Keys
    <3>1. PICK T : T = [g : Groups, k : Keys]
      OBVIOUS
    <3>2. x \in 1 .. Len(threads) /\ threads \in Seq(T)
      BY <3>1, Types DEF SetupInv, Inv, TablesOK
    <3>3. threads[x] \in T
      BY <3>2
    <3>. QED  BY <3>1, <3>2, <3>3
  <2>3. ~ Held(x, NoJob, threads)
    BY <2>2, IdleFacts DEF Held
  <2>. QED  BY <2>1, <2>3 DEF TopicsInv, Accounted
<1>. QED  BY <1>1, SetupInit, SetupStep, SerialInit, SerialStep, CacheInit, CacheStep, TopicsInit, TopicsStep, PTL DEF Spec
=============================================================================
