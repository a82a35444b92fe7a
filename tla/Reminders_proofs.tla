-------------------------- MODULE Reminders_proofs --------------------------
(***************************************************************************)
(* Reminders for any number of reminders, any delays, lease and back-off,  *)
(* any number of attempts, crashes and faults: no message is sent twice    *)
(* but for an unrecorded one, no message follows a cancelled reminder,     *)
(* and, without faults but crashes, only a crash in mid-delivery strands   *)
(* a reminder.                                                             *)
(***************************************************************************)
EXTENDS Reminders, TLAPS

\* A job that runs belongs to a row, whose attempt it has counted.
Started(r) == run[r] # "none" => up /\ row[r] # "none" /\ retry[r] > 0

\* While a reminder may still be sent, all its messages are unrecorded ones.
Unsent(r) ==
    run[r] \in {"claimed", "ready"} \/ (row[r] # "closed" /\ run[r] # "sent") => delivered[r] <= slips[r]

\* A handler's reminder is not there before its commit, and has a job in time for it; what
\* it replaces is there.
Prepared(r) ==
    /\ edit[r] # "none" => up /\ row[r] = "none"
    /\ row[r] = "none" => ~ processing[r]
    /\ old[r] # None => row[old[r]] # "none"
    /\ env = {} /\ edit[r] = "applied" => job[r] = due[r] /\ due[r] > 0

\* A cancelled reminder is closed, or it is one that a removed manager never set; and no
\* delivery of it has read the row again.
Gone(r) == r \in cancelled =>
    /\ run[r] # "ready"
    /\ row[r] = "closed" \/ (row[r] = "none" /\ edit[r] = "none" /\ ~ active)

\* Only a crash ends the process.
Down == ~ up => crashes > 0

IInv == /\ Inv /\ NoNeedlessDuplicate /\ Down
        /\ \A r \in Reminders : Started(r) /\ Unsent(r) /\ Prepared(r) /\ Gone(r)

-----------------------------------------------------------------------------
(* Lemmas                                                                  *)

\* The back-off of every attempt but the first is there.
LEMMA DelayIsPositive == ASSUME NEW n \in Nat \ {0} PROVE RetryDelay(n) \in Nat \ {0}
BY RemindersAssumption DEF RetryDelay

LEMMA LessIsLess == ASSUME NEW n \in Nat PROVE Less(n) \in Nat
BY DEF Less

LEMMA NumberFacts == Lease \in Nat /\ MaxCrashes \in Nat /\ Delays \subseteq Nat \ {0} /\ NoJob \notin Nat
                    /\ None \notin Reminders
BY RemindersAssumption

\* One more fault is within the bound.
LEMMA FaultsAreBounded ==
    ASSUME TypeOK, crashes < MaxCrashes, crashes' = crashes + 1
    PROVE  crashes' \in 0 .. MaxCrashes
BY NumberFacts DEF TypeOK

\* The reminder a handler may replace.
LEMMA SoonestIsOpen ==
    ASSUME TypeOK, NEW o \in Soonest
    PROVE  o \in Reminders \cup {None} /\ (o # None => row[o] = "open")
BY DEF Soonest

-----------------------------------------------------------------------------
(* Types                                                                   *)

LEMMA TypeInit == Init => TypeOK
BY RemindersAssumption DEF Init, TypeOK

LEMMA TypeFails ==
    ASSUME TypeOK, NEW r \in Reminders, retry[r] > 0, Fails(r)
    PROVE  /\ row' \in [Reminders -> {"none", "open", "closed"}]
           /\ processing' \in [Reminders -> BOOLEAN] /\ due' \in [Reminders -> Nat]
           /\ job' \in [Reminders -> Nat \cup {NoJob}]
           /\ run' \in [Reminders -> {"none", "claimed", "ready", "sent"}]
<1>1. RetryDelay(retry[r]) \in Nat
  BY DelayIsPositive DEF TypeOK
<1>2. row' \in [Reminders -> {"none", "open", "closed"}] /\ processing' \in [Reminders -> BOOLEAN]
  BY DEF Fails, TypeOK
<1>3. due' \in [Reminders -> Nat]
  BY <1>1 DEF Fails, TypeOK
<1>4. job' \in [Reminders -> Nat \cup {NoJob}]
  BY <1>1 DEF Fails, TypeOK
<1>5. run' \in [Reminders -> {"none", "claimed", "ready", "sent"}]
  BY DEF Fails, TypeOK
<1>. QED  BY <1>2, <1>3, <1>4, <1>5

LEMMA TypeStep == ASSUME IInv, [Next]_vars PROVE TypeOK'
<1>. TypeOK /\ \A r \in Reminders : Started(r)
  BY DEF IInv, Inv
<1>1. ASSUME NEW r \in Reminders, UNCHANGED env, Choose(r) \/ Commit(r) \/ Abort(r) PROVE TypeOK'
  <2>1. CASE Choose(r)
    BY <1>1, <2>1, SoonestIsOpen DEF Choose, TypeOK, rows, tg
  <2>2. CASE Commit(r)
    BY <1>1, <2>2 DEF Commit, EndEdit, TypeOK, tg
  <2>3. CASE Abort(r)
    <3>1. crashes' \in 0 .. MaxCrashes
      BY <2>3, FaultsAreBounded DEF Abort, Fault
    <3>. QED  BY <1>1, <2>3, <3>1 DEF Abort, EndEdit, TypeOK, rows, tg
  <2>. QED  BY <1>1, <2>1, <2>2, <2>3
<1>2. ASSUME NEW r \in Reminders, UNCHANGED env, Apply(r) PROVE TypeOK'
  <2>1. PICK d \in Delays : /\ due' = [due EXCEPT ![r] = d]
                            /\ \/ job' = [q \in Reminders |-> CASE q = r -> d [] q = old[r] -> NoJob
                                                               [] OTHER -> job[q]]
                               \/ job' = [job EXCEPT ![r] = d]
    BY <1>2 DEF Apply
  <2>2. d \in Nat
    BY RemindersAssumption
  <2>3. job' \in [Reminders -> Nat \cup {NoJob}]
    BY <2>1, <2>2 DEF TypeOK
  <2>. QED  BY <1>2, <2>1, <2>2, <2>3 DEF Apply, TypeOK, tg
<1>3. ASSUME NEW r \in Reminders, UNCHANGED env, Claim(r) \/ Reread(r) \/ Send(r) \/ MarkSent(r) PROVE TypeOK'
  <2>1. CASE Claim(r)
    <3>1. CASE Claimable(r)
      <4>1. 0 \in 0 .. Lease /\ retry[r] + 1 \in Nat
        BY NumberFacts DEF TypeOK
      <4>2. /\ job' = [job EXCEPT ![r] = NoJob] /\ processing' = [processing EXCEPT ![r] = TRUE]
            /\ age' = [age EXCEPT ![r] = 0] /\ retry' = [retry EXCEPT ![r] = retry[r] + 1]
            /\ run' = [run EXCEPT ![r] = "claimed"]
            /\ UNCHANGED <<row, due, active, edit, old, up, delivered, slips, crashes, cancelled, env>>
        BY <1>3, <2>1, <3>1 DEF Claim, edits, tg, TypeOK
      <4>. QED  BY <4>1, <4>2 DEF TypeOK
    <3>2. CASE ~ Claimable(r)
      BY <1>3, <2>1, <3>2 DEF Claim, TypeOK, edits, tg
    <3>. QED  BY <3>1, <3>2
  <2>2. CASE Reread(r)
    BY <1>3, <2>2 DEF Reread, TypeOK, rows, edits, tg
  <2>3. CASE Send(r)
    BY <1>3, <2>3 DEF Send, TypeOK, rows, edits
  <2>4. CASE MarkSent(r)
    BY <1>3, <2>4 DEF MarkSent, TypeOK, edits, tg
  <2>. QED  BY <1>3, <2>1, <2>2, <2>3, <2>4
<1>4. ASSUME NEW r \in Reminders, UNCHANGED env, SendFails(r) \/ AnswerLost(r) PROVE TypeOK'
  <2>1. Fails(r) /\ retry[r] > 0
    BY <1>4 DEF SendFails, AnswerLost, Started
  <2>2. UNCHANGED <<age, retry, active, edits, up, cancelled>>
    BY <2>1 DEF Fails
  <2>3. /\ delivered' \in [Reminders -> Nat] /\ slips' \in [Reminders -> Nat]
        /\ crashes' \in 0 .. MaxCrashes
    <3>1. CASE SendFails(r)
      BY <3>1 DEF SendFails, tg, TypeOK
    <3>2. CASE AnswerLost(r)
      BY <3>2, FaultsAreBounded DEF AnswerLost, Fault, TypeOK
    <3>. QED  BY <1>4, <3>1, <3>2
  <2>. QED  BY <1>4, <2>1, <2>2, <2>3, TypeFails DEF TypeOK, edits
<1>5. ASSUME NEW r \in Reminders, UNCHANGED env, JobDies(r) PROVE TypeOK'
  <2>1. RetryDelay(retry[r]) \in Nat
    BY <1>5, DelayIsPositive DEF JobDies, Started, TypeOK
  <2>2. crashes' \in 0 .. MaxCrashes
    BY <1>5, FaultsAreBounded DEF JobDies, Fault
  <2>3. job' \in [Reminders -> Nat \cup {NoJob}]
    BY <1>5, <2>1 DEF JobDies, TypeOK
  <2>4. slips' \in [Reminders -> Nat]
    BY <1>5 DEF JobDies, TypeOK
  <2>5. /\ UNCHANGED <<row, processing, age, retry, due, active, edit, old, up, delivered, cancelled, env>>
        /\ run' = [run EXCEPT ![r] = "none"]
    BY <1>5 DEF JobDies, rows, edits
  <2>. QED  BY <2>2, <2>3, <2>4, <2>5 DEF TypeOK
<1>6. ASSUME UNCHANGED env, DeactivateManager PROVE TypeOK'
  BY <1>6 DEF DeactivateManager, TypeOK, edits, tg
<1>7. ASSUME UNCHANGED env, Crash PROVE TypeOK'
  <2>1. crashes' \in 0 .. MaxCrashes
    BY <1>7, FaultsAreBounded DEF Crash
  <2>2. slips' \in [Reminders -> Nat]
    BY <1>7 DEF Crash, TypeOK
  <2>. QED  BY <1>7, <2>1, <2>2 DEF Crash, TypeOK, rows
<1>8. ASSUME UNCHANGED env, Restart PROVE TypeOK'
  BY <1>8 DEF Restart, TypeOK, rows, edits, tg
<1>9. ASSUME UNCHANGED env, Tick PROVE TypeOK'
  <2>1. due' \in [Reminders -> Nat]
    BY <1>9, LessIsLess DEF Tick, TypeOK
  <2>2. job' \in [Reminders -> Nat \cup {NoJob}]
    BY <1>9, LessIsLess DEF Tick, TypeOK
  <2>3. age' \in [Reminders -> 0 .. Lease]
    BY <1>9, RemindersAssumption DEF Tick, TypeOK
  <2>. QED  BY <1>9, <2>1, <2>2, <2>3 DEF Tick, TypeOK, edits, tg
<1>10. ASSUME UNCHANGED vars PROVE TypeOK'
  BY <1>10 DEF vars, system, rows, edits, tg, TypeOK
<1>. QED  BY <1>1, <1>2, <1>3, <1>4, <1>5, <1>6, <1>7, <1>8, <1>9, <1>10 DEF Next, Deliver

-----------------------------------------------------------------------------
(* Messages                                                                *)

LEMMA StartedStep == ASSUME IInv, [Next]_vars, NEW q \in Reminders PROVE Started(q)'
<1>. TypeOK /\ \A r \in Reminders : Started(r) /\ Prepared(r)
  BY DEF IInv, Inv
<1>1. ASSUME NEW r \in Reminders, Choose(r) \/ Apply(r) \/ Commit(r) \/ Abort(r) PROVE Started(q)'
  <2>1. UNCHANGED <<retry, up, run>> /\ (row[q] # "none" => row'[q] # "none")
    BY <1>1 DEF Choose, Apply, Commit, Abort, rows, TypeOK
  <2>. QED  BY <2>1 DEF Started
<1>2. ASSUME NEW r \in Reminders, Claim(r) \/ Reread(r) \/ Send(r) \/ MarkSent(r) PROVE Started(q)'
  <2>1. CASE Claim(r)
    BY <2>1 DEF Claim, Claimable, Started, TypeOK
  <2>2. CASE Reread(r)
    BY <2>2 DEF Reread, rows, Started, TypeOK
  <2>3. CASE Send(r)
    BY <2>3 DEF Send, rows, Started, TypeOK
  <2>4. CASE MarkSent(r)
    BY <2>4 DEF MarkSent, Started, TypeOK
  <2>. QED  BY <1>2, <2>1, <2>2, <2>3, <2>4
<1>3. ASSUME NEW r \in Reminders, Fails(r) PROVE Started(q)'
  BY <1>3 DEF Fails, Started, TypeOK
<1>4. ASSUME NEW r \in Reminders, JobDies(r) PROVE Started(q)'
  BY <1>4 DEF JobDies, rows, Started, TypeOK
<1>5. ASSUME DeactivateManager PROVE Started(q)'
  BY <1>5 DEF DeactivateManager, Started, TypeOK
<1>6. ASSUME Crash \/ Restart \/ Tick \/ UNCHANGED vars PROVE Started(q)'
  BY <1>6 DEF Crash, Restart, Tick, vars, system, rows, Started
<1>. QED  BY <1>1, <1>2, <1>3, <1>4, <1>5, <1>6 DEF Next, Deliver, SendFails, AnswerLost

\* The messages of a reminder: what a step does to it counts, nothing else.
LEMMA UnsentStep ==
    ASSUME IInv, [Next]_vars, NEW q \in Reminders
    PROVE  Unsent(q)' /\ delivered'[q] <= slips'[q] + 1
<1>1. /\ TypeOK /\ Started(q) /\ Unsent(q) /\ delivered[q] <= slips[q] + 1
      /\ delivered[q] \in Nat /\ slips[q] \in Nat
      /\ \A r \in Reminders : Prepared(r)
  BY DEF IInv, Inv, NoNeedlessDuplicate, TypeOK
<1>2. ASSUME NEW r \in Reminders, Choose(r) \/ Apply(r) \/ Abort(r) PROVE UNCHANGED <<row, run, tg>>
  BY <1>2 DEF Choose, Apply, Abort, rows
<1>3. ASSUME NEW r \in Reminders, Commit(r) PROVE Unsent(q)' /\ UNCHANGED tg
  <2>1. UNCHANGED <<run, tg>> /\ (row'[q] # "closed" => row[q] # "closed")
    BY <1>1, <1>3 DEF Commit, Prepared, TypeOK
  <2>. QED  BY <1>1, <2>1 DEF Unsent, tg
<1>4. ASSUME NEW r \in Reminders, Claim(r) \/ Reread(r) \/ MarkSent(r) PROVE Unsent(q)' /\ UNCHANGED tg
  <2>1. CASE Claim(r)
    BY <1>1, <2>1 DEF Claim, Claimable, Unsent, TypeOK, tg
  <2>2. CASE Reread(r)
    BY <1>1, <2>2 DEF Reread, rows, Unsent, TypeOK, tg
  <2>3. CASE MarkSent(r)
    BY <1>1, <2>3 DEF MarkSent, Unsent, TypeOK, tg
  <2>. QED  BY <1>4, <2>1, <2>2, <2>3
<1>5. ASSUME NEW r \in Reminders, Send(r) PROVE Unsent(q)' /\ delivered'[q] <= slips'[q] + 1
  BY <1>1, <1>5 DEF Send, rows, Unsent, TypeOK
<1>6. ASSUME NEW r \in Reminders, SendFails(r) PROVE Unsent(q)' /\ UNCHANGED tg
  BY <1>1, <1>6 DEF SendFails, Fails, Unsent, TypeOK, tg
<1>7. ASSUME NEW r \in Reminders, AnswerLost(r) PROVE Unsent(q)' /\ delivered'[q] <= slips'[q] + 1
  BY <1>1, <1>7 DEF AnswerLost, Fails, Unsent, TypeOK
<1>8. ASSUME NEW r \in Reminders, JobDies(r) PROVE Unsent(q)' /\ delivered'[q] <= slips'[q] + 1
  <2>1. /\ UNCHANGED <<row, delivered>> /\ run' = [run EXCEPT ![r] = "none"]
        /\ run[r] \in {"claimed", "ready", "sent"}
        /\ slips' = [slips EXCEPT ![r] = IF run[r] = "sent" THEN slips[r] + 1 ELSE slips[r]]
    BY <1>8 DEF JobDies, rows
  <2>2. run'[q] = IF q = r THEN "none" ELSE run[q]
    BY <1>1, <2>1 DEF TypeOK
  <2>3. slips'[q] = IF q = r /\ run[q] = "sent" THEN slips[q] + 1 ELSE slips[q]
    BY <1>1, <2>1 DEF TypeOK
  <2>. QED  BY <1>1, <2>1, <2>2, <2>3 DEF Unsent
<1>9. ASSUME Crash PROVE Unsent(q)' /\ delivered'[q] <= slips'[q] + 1
  BY <1>1, <1>9 DEF Crash, rows, Unsent, TypeOK
<1>10. ASSUME DeactivateManager PROVE Unsent(q)' /\ UNCHANGED tg
  BY <1>1, <1>10 DEF DeactivateManager, Unsent, TypeOK, tg
<1>11. ASSUME Restart \/ Tick \/ UNCHANGED vars PROVE UNCHANGED <<row, run, tg>>
  BY <1>11 DEF Restart, Tick, vars, system, rows
<1>12. ASSUME UNCHANGED tg PROVE delivered'[q] <= slips'[q] + 1
  BY <1>1, <1>12 DEF tg
<1>13. ASSUME UNCHANGED <<row, run, tg>> PROVE Unsent(q)'
  BY <1>1, <1>13 DEF Unsent, tg
<1>. QED  BY <1>2, <1>3, <1>4, <1>5, <1>6, <1>7, <1>8, <1>9, <1>10, <1>11, <1>12, <1>13 DEF Next, Deliver

-----------------------------------------------------------------------------
(* Handlers and jobs                                                       *)

\* A handler is over, or has not begun: it has no reminder to commit.
LEMMA PreparedStep == ASSUME IInv, [Next]_vars, NEW q \in Reminders PROVE Prepared(q)'
<1>1. /\ TypeOK /\ Prepared(q)
      /\ \A r \in Reminders : Started(r) /\ Prepared(r)
      /\ old[q] \in Reminders \cup {None} /\ None \notin Reminders
  BY NumberFacts DEF IInv, Inv, TypeOK
<1>2. env' = env
  BY DEF Next, vars
\* A row that is there stays; a reminder that is being made keeps its job and time.
<1>3. ASSUME UNCHANGED edits,
             /\ UNCHANGED up \/ ~ up
             /\ \A r \in Reminders : /\ row[r] # "none" => row'[r] # "none"
                                     /\ row[r] = "none" => row'[r] = "none" /\ processing'[r] = processing[r],
             env = {} /\ edit[q] = "applied" => job'[q] = job[q] /\ due'[q] = due[q]
      PROVE  Prepared(q)'
  BY <1>1, <1>2, <1>3 DEF Prepared, edits
<1>4. ASSUME NEW r \in Reminders, Choose(r) PROVE Prepared(q)'
  <2>1. PICK o \in Soonest : old' = [old EXCEPT ![r] = o]
    BY <1>4 DEF Choose
  <2>2. /\ UNCHANGED <<row, processing, up, job, due>> /\ up /\ row[r] = "none"
        /\ o # None => row[o] = "open"
    BY <1>1, <1>4, SoonestIsOpen DEF Choose, rows
  <2>3. CASE q = r
    <3>1. edit'[q] = "chosen" /\ old'[q] = o
      BY <1>1, <1>4, <2>1, <2>3 DEF Choose, TypeOK
    <3>. QED  BY <1>1, <2>2, <2>3, <3>1 DEF Prepared
  <2>4. CASE q # r
    <3>1. edit'[q] = edit[q] /\ old'[q] = old[q]
      BY <1>1, <1>4, <2>1, <2>4 DEF Choose, TypeOK
    <3>. QED  BY <1>1, <1>2, <2>2, <3>1 DEF Prepared
  <2>. QED  BY <2>3, <2>4
<1>5. ASSUME NEW r \in Reminders, Apply(r) PROVE Prepared(q)'
  <2>1. PICK d \in Delays : /\ due' = [due EXCEPT ![r] = d]
                            /\ \/ job' = [x \in Reminders |-> CASE x = r -> d [] x = old[r] -> NoJob
                                                               [] OTHER -> job[x]]
                               \/ job' = [job EXCEPT ![r] = d]
    BY <1>5 DEF Apply
  <2>2. /\ d \in Nat \ {0} /\ edit[r] = "chosen" /\ edit' = [edit EXCEPT ![r] = "applied"]
        /\ UNCHANGED <<row, processing, up, old>>
    BY <1>5, NumberFacts DEF Apply
  <2>3. row[r] = "none" /\ (old[r] # None => row[old[r]] # "none")
    BY <1>1, <2>2 DEF Prepared
  <2>4. CASE q = r
    BY <1>1, <1>2, <2>1, <2>2, <2>3, <2>4 DEF Prepared, TypeOK
  <2>5. CASE q # r
    <3>1. edit'[q] = edit[q] /\ due'[q] = due[q]
      BY <1>1, <2>1, <2>2, <2>5 DEF TypeOK
    <3>2. row[q] = "none" => job'[q] = job[q]
      BY <1>1, <2>1, <2>3, <2>5 DEF TypeOK
    <3>. QED  BY <1>1, <1>2, <2>2, <3>1, <3>2 DEF Prepared
  <2>. QED  BY <2>4, <2>5
<1>6. ASSUME NEW r \in Reminders, Commit(r) PROVE Prepared(q)'
  <2>1. /\ edit[r] = "applied" /\ edit' = [edit EXCEPT ![r] = "none"] /\ old' = [old EXCEPT ![r] = None]
        /\ row' = [x \in Reminders |-> CASE x = r -> "open" [] x = old[r] -> "closed" [] OTHER -> row[x]]
        /\ processing' = [x \in Reminders |-> processing[x] /\ x # old[r]]
        /\ UNCHANGED <<due, up, job>>
    BY <1>6 DEF Commit, EndEdit
  <2>2. row[r] = "none" /\ (old[r] # None => row[old[r]] # "none")
    BY <1>1, <2>1 DEF Prepared
  <2>3. \A x \in Reminders : /\ row[x] # "none" => row'[x] # "none"
                             /\ x # r /\ row[x] = "none" => row'[x] = "none" /\ ~ processing'[x]
    BY <1>1, <2>1, <2>2 DEF Prepared
  <2>4. CASE q = r
    <3>1. edit'[q] = "none" /\ old'[q] = None
      BY <1>1, <2>1, <2>4 DEF TypeOK
    <3>2. r # old[r]
      BY <2>2, NumberFacts
    <3>3. row'[r] = "open"
      BY <2>1, <3>2
    <3>. QED  BY <2>4, <3>1, <3>3 DEF Prepared
  <2>5. CASE q # r
    <3>1. edit'[q] = edit[q] /\ old'[q] = old[q]
      BY <1>1, <2>1, <2>5 DEF TypeOK
    <3>2. row'[q] = "none" => ~ processing'[q]
      BY <2>3, <2>5
    <3>. QED  BY <1>1, <1>2, <2>1, <2>3, <2>5, <3>1, <3>2 DEF Prepared
  <2>. QED  BY <2>4, <2>5
<1>7. ASSUME NEW r \in Reminders, Abort(r) PROVE Prepared(q)'
  <2>1. /\ edit' = [edit EXCEPT ![r] = "none"] /\ old' = [old EXCEPT ![r] = None]
        /\ UNCHANGED <<row, processing, due, up, job>>
    BY <1>7 DEF Abort, EndEdit, rows
  <2>2. edit'[q] \in {"none", edit[q]} /\ old'[q] \in {None, old[q]}
    BY <1>1, <2>1 DEF TypeOK
  <2>. QED  BY <1>1, <1>2, <2>1, <2>2 DEF Prepared
<1>8. ASSUME NEW r \in Reminders, Claim(r) PROVE Prepared(q)'
  <2>1. /\ job[r] = 0 /\ job' = [job EXCEPT ![r] = NoJob] /\ UNCHANGED <<row, due, edits, up>>
        /\ row[r] # "open" => UNCHANGED processing
        /\ row[r] = "open" => \A x \in Reminders : x # r => processing'[x] = processing[x]
    BY <1>1, <1>8 DEF Claim, Claimable, TypeOK
  <2>2. env = {} /\ edit[q] = "applied" => q # r
    BY <1>1, <2>1 DEF Prepared
  <2>3. env = {} /\ edit[q] = "applied" => job'[q] = job[q]
    BY <1>1, <2>1, <2>2 DEF TypeOK
  <2>. QED  BY <1>3, <2>1, <2>3
<1>9. ASSUME NEW r \in Reminders, run[r] # "none", UNCHANGED <<edits, up>>,
             \A x \in Reminders : x # r => /\ row'[x] = row[x] /\ processing'[x] = processing[x]
                                           /\ due'[x] = due[x] /\ job'[x] = job[x],
             row'[r] \in {row[r], "closed"}
      PROVE  Prepared(q)'
  <2>1. row[r] # "none"
    BY <1>1, <1>9 DEF Started
  <2>2. edit[q] = "applied" => q # r
    BY <1>1, <2>1 DEF Prepared
  <2>. QED  BY <1>3, <1>9, <2>1, <2>2
<1>10. ASSUME NEW r \in Reminders, Reread(r) \/ Send(r) \/ MarkSent(r) PROVE Prepared(q)'
  <2>1. CASE Reread(r) \/ Send(r)
    BY <1>9, <2>1 DEF Reread, Send, rows
  <2>2. CASE MarkSent(r)
    BY <1>1, <1>9, <2>2 DEF MarkSent, TypeOK
  <2>. QED  BY <1>10, <2>1, <2>2
<1>11. ASSUME NEW r \in Reminders, SendFails(r) \/ AnswerLost(r) PROVE Prepared(q)'
  <2>1. run[r] = "ready" /\ Fails(r)
    BY <1>11 DEF SendFails, AnswerLost
  <2>. QED  BY <1>1, <1>9, <2>1 DEF Fails, TypeOK
<1>12. ASSUME NEW r \in Reminders, JobDies(r) PROVE Prepared(q)'
  <2>1. run[r] # "none" /\ UNCHANGED <<rows, edits, up>>
    BY <1>12 DEF JobDies
  <2>2. \A x \in Reminders : x # r => job'[x] = job[x]
    BY <1>1, <1>12 DEF JobDies, TypeOK
  <2>. QED  BY <1>9, <2>1, <2>2 DEF rows
<1>13. ASSUME DeactivateManager PROVE Prepared(q)'
  BY <1>1, <1>3, <1>13 DEF DeactivateManager, TypeOK
<1>14. ASSUME Crash PROVE Prepared(q)'
  BY <1>1, <1>14 DEF Crash, rows, Prepared
<1>15. ASSUME Restart PROVE Prepared(q)'
  <2>1. ~ up /\ UNCHANGED <<rows, edits>>
    BY <1>15 DEF Restart
  <2>2. edit[q] = "none"
    BY <1>1, <2>1 DEF Prepared, TypeOK
  <2>. QED  BY <1>3, <2>1, <2>2 DEF rows
<1>16. ASSUME Tick PROVE Prepared(q)'
  <2>1. /\ UNCHANGED <<row, processing, edits, up>>
        /\ env = {} => edit[q] # "applied"
    BY <1>16 DEF Tick
  <2>. QED  BY <1>3, <2>1
<1>17. ASSUME UNCHANGED vars PROVE Prepared(q)'
  BY <1>3, <1>17 DEF vars, system, rows
<1>. QED  BY <1>4, <1>5, <1>6, <1>7, <1>8, <1>10, <1>11, <1>12, <1>13, <1>14, <1>15, <1>16, <1>17
          DEF Next, Deliver

-----------------------------------------------------------------------------
(* Nobody is stranded                                                      *)

\* An open reminder that nobody delivers, while the bot is up.
Waits(r) == up /\ row[r] = "open" /\ run[r] = "none" /\ ~ Locked(r)
Kept(r)  == (job[r] = due[r] \/ Forgotten(r)) /\ (processing[r] => crashes > 0)
Safe(r)  == env = {} /\ Waits(r) => Kept(r)

LEMMA NoneStrandedIsSafe == NoneStranded <=> \A r \in Reminders : Safe(r)
BY DEF NoneStranded, Safe, Kept, Waits

LEMMA SafeStep == ASSUME IInv, [Next]_vars, NEW q \in Reminders PROVE Safe(q)'
<1>1. /\ TypeOK /\ Safe(q) /\ Started(q) /\ Prepared(q) /\ Down
      /\ \A r \in Reminders : Started(r) /\ Prepared(r) /\ Safe(r)
  BY NoneStrandedIsSafe DEF IInv, Inv
<1>2. env' = env
  BY DEF Next, vars
<1>. SUFFICES ASSUME env = {}, Waits(q)' PROVE Kept(q)'
  BY <1>2 DEF Safe
<1>3. up' /\ row'[q] = "open" /\ run'[q] = "none" /\ ~ Locked(q)'
  BY DEF Waits
\* It was safe, and has not been touched.
<1>4. ASSUME Waits(q), job'[q] = job[q], due'[q] = due[q], processing'[q] = processing[q],
             crashes' = crashes
      PROVE  Kept(q)'
  BY <1>1, <1>4 DEF Safe, Kept, Forgotten
<1>5. ASSUME row'[q] = row[q], UNCHANGED edits PROVE Locked(q)' <=> Locked(q)
  BY <1>5 DEF Locked, edits
<1>6. ASSUME NEW r \in Reminders, Choose(r) PROVE Kept(q)'
  <2>1. UNCHANGED <<row, up, run, job, due, processing, crashes>> /\ edit' = [edit EXCEPT ![r] = "chosen"]
        /\ edit[r] = "none"
    BY <1>6 DEF Choose, rows
  <2>2. \A e \in Reminders : edit[e] = "applied" => edit'[e] = "applied" /\ old'[e] = old[e]
    BY <1>1, <1>6, <2>1 DEF Choose, TypeOK
  <2>3. ~ Locked(q)
    BY <1>3, <2>1, <2>2 DEF Locked
  <2>. QED  BY <1>3, <1>4, <2>1, <2>3 DEF Waits
<1>7. ASSUME NEW r \in Reminders, Apply(r) PROVE Kept(q)'
  <2>1. PICK d \in Delays : /\ due' = [due EXCEPT ![r] = d]
                            /\ \/ job' = [x \in Reminders |-> CASE x = r -> d [] x = old[r] -> NoJob
                                                               [] OTHER -> job[x]]
                               \/ job' = [job EXCEPT ![r] = d]
    BY <1>7 DEF Apply
  <2>2. /\ edit[r] = "chosen" /\ edit' = [edit EXCEPT ![r] = "applied"]
        /\ UNCHANGED <<row, processing, crashes, up, run, old>>
    BY <1>7 DEF Apply
  <2>3. row[r] = "none" /\ q # r
    BY <1>1, <1>3, <2>2 DEF Prepared
  <2>4. edit'[r] = "applied" /\ \A e \in Reminders : edit[e] = "applied" => edit'[e] = "applied"
    BY <1>1, <2>2 DEF TypeOK
  <2>5. q # old[r] /\ ~ Locked(q)
    BY <1>3, <2>2, <2>4 DEF Locked
  <2>6. due'[q] = due[q] /\ job'[q] = job[q]
    BY <1>1, <2>1, <2>3, <2>5 DEF TypeOK
  <2>. QED  BY <1>3, <1>4, <2>2, <2>5, <2>6 DEF Waits
<1>8. ASSUME NEW r \in Reminders, Commit(r) PROVE Kept(q)'
  <2>1. /\ edit[r] = "applied" /\ edit' = [edit EXCEPT ![r] = "none"] /\ old' = [old EXCEPT ![r] = None]
        /\ row' = [x \in Reminders |-> CASE x = r -> "open" [] x = old[r] -> "closed" [] OTHER -> row[x]]
        /\ processing' = [x \in Reminders |-> processing[x] /\ x # old[r]]
        /\ UNCHANGED <<crashes, due, up, job, run>>
    BY <1>8 DEF Commit, EndEdit
  <2>2. CASE q = r
    <3>1. row[r] = "none" /\ job[r] = due[r] /\ ~ processing[r]
      BY <1>1, <2>1 DEF Prepared
    <3>2. job'[q] = due'[q] /\ ~ processing'[q]
      BY <2>1, <2>2, <3>1
    <3>. QED  BY <3>2 DEF Kept
  <2>3. CASE q # r
    <3>1. row'[q] = row[q] /\ q # old[r]
      BY <1>3, <2>1, <2>3
    <3>2. processing'[q] = processing[q]
      BY <1>1, <2>1, <3>1 DEF TypeOK
    <3>3. \A e \in Reminders : e # r => edit'[e] = edit[e] /\ old'[e] = old[e]
      BY <1>1, <2>1 DEF TypeOK
    <3>4. ~ Locked(q)
      BY <1>3, <3>1, <3>3 DEF Locked
    <3>. QED  BY <1>3, <1>4, <2>1, <3>1, <3>2, <3>4 DEF Waits
  <2>. QED  BY <2>2, <2>3
<1>9. ASSUME NEW r \in Reminders PROVE ~ Abort(r) /\ ~ AnswerLost(r) /\ ~ JobDies(r)
  BY DEF Abort, AnswerLost, JobDies, Fault
<1>10. ASSUME NEW r \in Reminders, Claim(r) PROVE Kept(q)'
  <2>1. /\ up /\ run[r] = "none" /\ ~ Locked(r) /\ UNCHANGED <<row, due, edits, up, crashes>>
        /\ \A x \in Reminders : x # r => /\ run'[x] = run[x] /\ processing'[x] = processing[x]
                                         /\ job'[x] = job[x]
        /\ job'[r] = NoJob
        /\ IF Claimable(r) THEN run'[r] = "claimed" ELSE processing' = processing
    BY <1>1, <1>10 DEF Claim, TypeOK
\* A claim whose lease is not over stays, and its job is gone.
  <2>2. CASE q = r
    <3>1. ~ Claimable(q) /\ processing[q] /\ Waits(q)
      BY <1>3, <2>1, <2>2 DEF Claimable, Waits
    <3>2. crashes > 0
      BY <1>1, <3>1 DEF Safe, Kept
    <3>. QED  BY <2>1, <2>2, <3>1, <3>2 DEF Kept, Forgotten
  <2>3. CASE q # r
    BY <1>3, <1>4, <1>5, <2>1, <2>3 DEF Waits
  <2>. QED  BY <2>2, <2>3
<1>11. ASSUME NEW r \in Reminders, Reread(r) \/ Send(r) \/ MarkSent(r)
       PROVE  Kept(q)'
  <2>1. /\ UNCHANGED <<due, crashes, job, edits, up>>
        /\ \A x \in Reminders : x # r => /\ row'[x] = row[x] /\ run'[x] = run[x]
                                         /\ processing'[x] = processing[x]
    BY <1>1, <1>11 DEF Reread, Send, MarkSent, rows, TypeOK
  <2>2. run'[r] # "none" \/ row'[r] = "closed"
    BY <1>1, <1>11 DEF Reread, Send, MarkSent, rows, TypeOK
  <2>3. q # r
    BY <1>3, <2>2
  <2>. QED  BY <1>3, <1>4, <1>5, <2>1, <2>3 DEF Waits
<1>12. ASSUME NEW r \in Reminders, SendFails(r) PROVE Kept(q)'
  <2>1. Fails(r) /\ run[r] = "ready"
    BY <1>12 DEF SendFails
  <2>2. /\ UNCHANGED <<crashes, edits, up>>
        /\ \A x \in Reminders : x # r => /\ row'[x] = row[x] /\ run'[x] = run[x] /\ due'[x] = due[x]
                                         /\ processing'[x] = processing[x] /\ job'[x] = job[x]
    BY <1>1, <1>12, <2>1 DEF SendFails, Fails, TypeOK
  <2>3. CASE q = r
    BY <1>1, <1>3, <2>1, <2>3 DEF Fails, TypeOK, Kept
  <2>4. CASE q # r
    BY <1>3, <1>4, <1>5, <2>2, <2>4 DEF Waits
  <2>. QED  BY <2>3, <2>4
<1>13. ASSUME DeactivateManager PROVE Kept(q)'
  <2>1. /\ UNCHANGED <<crashes, due, edits, up, job, run>> /\ row'[q] = row[q]
        /\ processing'[q] = processing[q]
    BY <1>1, <1>3, <1>13 DEF DeactivateManager, TypeOK
  <2>. QED  BY <1>3, <1>4, <1>5, <2>1 DEF Waits
<1>14. ASSUME Crash PROVE Kept(q)'
  BY <1>3, <1>14 DEF Crash
<1>15. ASSUME Restart PROVE Kept(q)'
  BY <1>1, <1>3, <1>15 DEF Restart, rows, Down, Kept
<1>16. ASSUME Tick PROVE Kept(q)'
  <2>1. /\ UNCHANGED <<row, processing, edits, up, run, crashes>>
        /\ due'[q] = Less(due[q]) /\ job'[q] = IF job[q] = NoJob THEN NoJob ELSE Less(job[q])
    BY <1>16 DEF Tick
  <2>2. Kept(q)
    BY <1>1, <1>3, <1>5, <2>1 DEF Safe, Waits
  <2>3. due[q] \in Nat /\ due[q] # NoJob
    BY <1>1, NumberFacts DEF TypeOK
  <2>. QED  BY <2>1, <2>2, <2>3 DEF Kept, Forgotten
<1>17. ASSUME UNCHANGED vars PROVE Kept(q)'
  BY <1>3, <1>4, <1>5, <1>17 DEF vars, system, rows, Waits
<1>. QED  BY <1>6, <1>7, <1>8, <1>9, <1>10, <1>11, <1>12, <1>13, <1>14, <1>15, <1>16, <1>17 DEF Next, Deliver

-----------------------------------------------------------------------------
(* Cancelled reminders                                                     *)

LEMMA DownStep == ASSUME IInv, [Next]_vars PROVE Down'
<1>1. TypeOK /\ Down /\ crashes \in Nat
  BY DEF IInv, Inv, TypeOK
<1>2. ASSUME NEW f, Fault(f) PROVE crashes' > 0
  BY <1>1, <1>2 DEF Fault
<1>3. CASE Crash
  BY <1>1, <1>3 DEF Crash, Down
<1>4. CASE Restart
  BY <1>4 DEF Restart, Down
<1>5. ASSUME NEW r \in Reminders,
             Choose(r) \/ Apply(r) \/ Commit(r) \/ Deliver(r) \/ Abort(r) \/ AnswerLost(r) \/ JobDies(r)
      PROVE  UNCHANGED <<up, crashes>> \/ crashes' > 0
  <2>1. CASE Abort(r) \/ AnswerLost(r) \/ JobDies(r)
    BY <1>2, <2>1 DEF Abort, AnswerLost, JobDies
  <2>2. CASE Choose(r) \/ Apply(r) \/ Commit(r)
    BY <2>2 DEF Choose, Apply, Commit
  <2>3. CASE Claim(r) \/ Reread(r) \/ Send(r) \/ MarkSent(r)
    BY <2>3 DEF Claim, Reread, Send, MarkSent
  <2>4. CASE SendFails(r)
    BY <2>4 DEF SendFails, Fails
  <2>. QED  BY <1>5, <2>1, <2>2, <2>3, <2>4 DEF Deliver
<1>6. ASSUME DeactivateManager \/ Tick \/ UNCHANGED vars PROVE UNCHANGED <<up, crashes>>
  BY <1>6 DEF DeactivateManager, Tick, vars, system
<1>. QED  BY <1>1, <1>3, <1>4, <1>5, <1>6 DEF Next, Down

LEMMA GoneStep == ASSUME IInv, [Next]_vars, NEW q \in Reminders PROVE Gone(q)'
<1>1. /\ TypeOK /\ Gone(q) /\ Started(q) /\ Prepared(q) /\ q # None
  BY NumberFacts DEF IInv, Inv
\* Nothing happens to q, or its row is closed and no delivery of it reads it again.
<1>2. ASSUME UNCHANGED cancelled, row'[q] = row[q] \/ row'[q] = "closed",
             edit'[q] = edit[q] \/ edit'[q] = "none", active' => active,
             run'[q] = "ready" => run[q] = "ready"
      PROVE  Gone(q)'
  BY <1>1, <1>2 DEF Gone
<1>3. ASSUME NEW r \in Reminders, Choose(r) \/ Apply(r) PROVE Gone(q)'
  <2>1. /\ UNCHANGED <<row, run, cancelled, active>>
        /\ q # r => edit'[q] = edit[q]
    BY <1>1, <1>3 DEF Choose, Apply, rows, TypeOK
  <2>2. CASE q # r
    BY <1>2, <2>1, <2>2
  <2>3. CASE q = r
    <3>1. q \notin cancelled
      BY <1>1, <1>3, <2>3 DEF Choose, Apply, Gone, Prepared
    <3>. QED  BY <2>1, <3>1 DEF Gone
  <2>. QED  BY <2>2, <2>3
<1>4. ASSUME NEW r \in Reminders, Commit(r) PROVE Gone(q)'
  <2>1. /\ edit[r] = "applied" /\ row[r] = "none" /\ (old[r] # None => row[old[r]] # "none")
        /\ UNCHANGED <<run, active>> /\ edit' = [edit EXCEPT ![r] = "none"]
        /\ cancelled' = cancelled \cup ({old[r]} \ (Unstoppable \cup {None}))
        /\ row'[q] = CASE q = r -> "open" [] q = old[r] -> "closed" [] OTHER -> row[q]
    BY <1>4 DEF Commit, EndEdit, IInv, Prepared
  <2>2. CASE q \in cancelled
    <3>1. q # r
      BY <1>1, <2>1, <2>2 DEF Gone
    <3>2. edit'[q] = edit[q] /\ row'[q] \in {row[q], "closed"}
      BY <1>1, <2>1, <3>1 DEF TypeOK
    <3>. QED  BY <1>1, <2>1, <2>2, <3>2 DEF Gone
  <2>3. CASE q = old[r] /\ q \notin Unstoppable
    <3>1. q # r
      BY <1>1, <2>1, <2>3
    <3>2. row'[q] = "closed" /\ run'[q] # "ready"
      BY <2>1, <2>3, <3>1 DEF Unstoppable
    <3>. QED  BY <3>2 DEF Gone
  <2>4. CASE q \notin cancelled'
    BY <2>4 DEF Gone
  <2>. QED  BY <1>1, <2>1, <2>2, <2>3, <2>4
<1>5. ASSUME NEW r \in Reminders, Abort(r) PROVE Gone(q)'
  BY <1>1, <1>2, <1>5 DEF Abort, EndEdit, rows, TypeOK
<1>6. ASSUME NEW r \in Reminders, Claim(r) \/ Send(r) \/ MarkSent(r) PROVE Gone(q)'
  <2>1. UNCHANGED <<cancelled, active, edits>> /\ (row'[q] = row[q] \/ row'[q] = "closed")
    BY <1>1, <1>6 DEF Claim, Send, MarkSent, rows, TypeOK
  <2>2. run'[q] = "ready" => run[q] = "ready"
    BY <1>1, <1>6 DEF Claim, Send, MarkSent, TypeOK
  <2>. QED  BY <1>2, <2>1, <2>2 DEF edits
<1>7. ASSUME NEW r \in Reminders, Reread(r) PROVE Gone(q)'
  <2>1. /\ UNCHANGED <<rows, edits, cancelled>> /\ run[r] = "claimed"
        /\ run' = [run EXCEPT ![r] = IF row[r] = "closed" THEN "none" ELSE "ready"]
    BY <1>7 DEF Reread
  <2>2. q \in cancelled /\ q = r => row[q] = "closed"
    BY <1>1, <2>1 DEF Gone, Started
  <2>3. q \in cancelled => run'[q] # "ready"
    BY <1>1, <2>1, <2>2 DEF Gone, TypeOK
  <2>. QED  BY <1>1, <2>1, <2>3 DEF Gone, rows, edits
<1>8. ASSUME NEW r \in Reminders, SendFails(r) \/ AnswerLost(r) PROVE Gone(q)'
  <2>1. /\ UNCHANGED <<cancelled, active, edits>> /\ (row'[q] = row[q] \/ row'[q] = "closed")
        /\ run' = [run EXCEPT ![r] = "none"]
    BY <1>1, <1>8 DEF SendFails, AnswerLost, Fails, TypeOK
  <2>2. run'[q] = "ready" => run[q] = "ready"
    BY <1>1, <2>1 DEF TypeOK
  <2>. QED  BY <1>2, <2>1, <2>2 DEF edits
<1>9. ASSUME NEW r \in Reminders, JobDies(r) PROVE Gone(q)'
  <2>1. UNCHANGED <<cancelled, rows, edits>> /\ run' = [run EXCEPT ![r] = "none"]
    BY <1>9 DEF JobDies
  <2>2. run'[q] = "ready" => run[q] = "ready"
    BY <1>1, <2>1 DEF TypeOK
  <2>. QED  BY <1>2, <2>1, <2>2 DEF rows, edits
\* A removal cancels what is to come, and what is nowhere can no longer be set.
<1>10. ASSUME DeactivateManager PROVE Gone(q)'
  <2>1. /\ UNCHANGED <<run, edits>> /\ ~ active'
        /\ row'[q] = IF row[q] = "open" /\ due[q] > 0 THEN "closed" ELSE row[q]
    BY <1>10 DEF DeactivateManager
  <2>2. CASE q \in cancelled
    BY <1>1, <2>1, <2>2 DEF Gone, edits
  <2>3. CASE /\ run[q] # "ready" /\ edit[q] = "none"
             /\ ~ (row[q] = "open" /\ due[q] = 0)
    <3>1. row[q] \in {"none", "closed"} \/ (row[q] = "open" /\ due[q] > 0)
      BY <1>1, <2>3 DEF TypeOK
    <3>. QED  BY <2>1, <2>3, <3>1 DEF Gone, edits
  <2>4. q \in cancelled' => \/ q \in cancelled
                            \/ /\ run[q] # "ready" /\ edit[q] = "none"
                               /\ ~ (row[q] = "open" /\ due[q] = 0)
    BY <1>10 DEF DeactivateManager, Unstoppable
  <2>5. CASE q \notin cancelled'
    BY <2>5 DEF Gone
  <2>. QED  BY <2>2, <2>3, <2>4, <2>5
<1>11. ASSUME Crash PROVE Gone(q)'
  BY <1>2, <1>11 DEF Crash, rows
<1>12. ASSUME Restart \/ Tick \/ UNCHANGED vars PROVE Gone(q)'
  <2>1. UNCHANGED <<cancelled, row, active, edits, run>>
    BY <1>12 DEF Restart, Tick, vars, system, rows
  <2>. QED  BY <1>2, <2>1 DEF edits
<1>. QED  BY <1>3, <1>4, <1>5, <1>6, <1>7, <1>8, <1>9, <1>10, <1>11, <1>12 DEF Next, Deliver

-----------------------------------------------------------------------------
(* Theorems                                                                *)

LEMMA Begins == Init => IInv
<1>. SUFFICES ASSUME Init PROVE IInv
  OBVIOUS
<1>1. TypeOK
  BY TypeInit
<1>2. ASSUME NEW r \in Reminders
      PROVE  /\ Started(r) /\ Unsent(r) /\ Prepared(r) /\ Safe(r) /\ Gone(r)
             /\ delivered[r] <= slips[r] + 1
  <2>1. /\ row[r] = "none" /\ run[r] = "none" /\ edit[r] = "none" /\ old[r] = None
        /\ delivered[r] = 0 /\ slips[r] = 0 /\ cancelled = {}
    BY DEF Init
  <2>2. ~ processing[r]
    BY DEF Init
  <2>. QED  BY <2>1, <2>2 DEF Started, Unsent, Prepared, Safe, Waits, Gone
<1>3. Down
  BY DEF Init, Down
<1>. QED  BY <1>1, <1>2, <1>3, NoneStrandedIsSafe DEF IInv, Inv, NoNeedlessDuplicate

\* The invariant of the reminders: what a running job has counted, which messages nobody
\* has recorded, and which job waits for which row.
THEOREM Invariant == Spec => []IInv
<1>1. IInv /\ [Next]_vars => IInv'
  <2>. SUFFICES ASSUME IInv, [Next]_vars PROVE IInv'
    OBVIOUS
  <2>1. NoneStranded' <=> \A r \in Reminders : Safe(r)'
    BY DEF NoneStranded, Safe, Kept, Waits
  <2>2. TypeOK' /\ NoneStranded'
    BY <2>1, TypeStep, SafeStep
  <2>3. \A r \in Reminders : /\ Started(r)' /\ Unsent(r)' /\ Prepared(r)' /\ Gone(r)'
                              /\ delivered'[r] <= slips'[r] + 1
    BY StartedStep, UnsentStep, PreparedStep, GoneStep
  <2>. QED  BY <2>2, <2>3, DownStep DEF IInv, Inv, NoNeedlessDuplicate
<1>. QED  BY <1>1, Begins, PTL DEF Spec

\* Inv: as long as there are no faults but crashes, every open reminder that nobody is
\* delivering has a job at its time while the bot is up, but for one that a crash
\* interrupted in mid-delivery and whose job came before the lease of its claim was over
\* (start_scheduler, claim_reminder_for_delivery).
THEOREM NobodyIsStranded == Spec => []Inv
<1>1. IInv => Inv
  BY DEF IInv
<1>. QED  BY <1>1, Invariant, PTL

\* NoNeedlessDuplicate: for any crashes and faults, of the messages of a reminder at most one
\* has been recorded or still may be (claim_reminder_for_delivery, mark_reminder_sent).
THEOREM NothingIsSentTwice == Spec => []NoNeedlessDuplicate
<1>1. IInv => NoNeedlessDuplicate
  BY DEF IInv
<1>. QED  BY <1>1, Invariant, PTL

\* CancelledIsNotSent: no message follows a reminder that was replaced or whose manager was
\* removed, unless its delivery had read the row again or, at a removal, it was overdue or
\* being set (replace_reminder, deactivate_manager, _send_reminder_job).
THEOREM NothingCancelledIsSent == Spec => CancelledIsNotSent
<1>. DEFINE Silent == \A r \in cancelled : delivered'[r] = delivered[r]
<1>1. ASSUME IInv, [Next]_vars PROVE [Silent]_vars
  <2>. SUFFICES ASSUME NEW q \in cancelled, Next PROVE delivered'[q] = delivered[q]
    BY <1>1
  <2>1. TypeOK /\ q \in Reminders /\ run[q] # "ready"
    BY <1>1 DEF IInv, Inv, TypeOK, Gone
  <2>2. ASSUME NEW r \in Reminders, Send(r) \/ AnswerLost(r) PROVE delivered'[q] = delivered[q]
    BY <2>1, <2>2 DEF Send, AnswerLost, TypeOK
  <2>3. ASSUME NEW r \in Reminders,
               Choose(r) \/ Apply(r) \/ Commit(r) \/ Abort(r) \/ Claim(r) \/ Reread(r) \/ SendFails(r)
               \/ MarkSent(r) \/ JobDies(r)
        PROVE  UNCHANGED delivered
    BY <2>3 DEF Choose, Apply, Commit, Abort, Claim, Reread, SendFails, MarkSent, JobDies, tg
  <2>4. ASSUME DeactivateManager \/ Crash \/ Restart \/ Tick PROVE UNCHANGED delivered
    BY <2>4 DEF DeactivateManager, Crash, Restart, Tick, tg
  <2>. QED  BY <2>2, <2>3, <2>4 DEF Next, Deliver
<1>. QED  BY <1>1, Invariant, PTL DEF Spec, CancelledIsNotSent
=============================================================================
