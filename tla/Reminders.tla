----------------------------- MODULE Reminders -----------------------------
(***************************************************************************)
(* The reminders one manager sets on one lead: rows of the table reminders *)
(* (ReminderService, LeadRepository), and the jobs of the APScheduler in   *)
(* the CRM bot's memory that deliver them to Telegram.                     *)
(*                                                                         *)
(* A job claims its row for a lease, commits, sends, and marks the row. A  *)
(* failed send releases the row and schedules the job again, with a longer *)
(* delay each time, until MaxAttempts.  A crash loses the jobs; a restart  *)
(* makes them again from the rows, at once, whatever claims a crash left.  *)
(*                                                                         *)
(* Time is relative: due, job and age count the ticks to a row's remind_at *)
(* and to a job's run, and since processing_started_at.                    *)
(***************************************************************************)
EXTENDS Naturals, Sequences

CONSTANTS Reminders,    \* reminder ids
          None,         \* no reminder
          NoJob,        \* no job in the scheduler
          Delays,       \* how far ahead a manager may set a reminder, in ticks
          Lease,        \* stale_after_seconds of a claim
          Backoff,      \* _RETRY_BACKOFF_SECONDS
          MaxAttempts,  \* REMINDER_MAX_DELIVERY_ATTEMPTS
          MaxCrashes,   \* bound on crashes and other faults of a behaviour
          Environments  \* which faults there may be: sets of them

\* slow_commit: time passes between scheduling a reminder and its commit;
\* db_error: a transaction fails; lost_answer: Telegram sent, the call failed.
AllFaults == {"slow_commit", "db_error", "lost_answer"}

ASSUME RemindersAssumption ==
    /\ None \notin Reminders
    /\ Delays \subseteq Nat \ {0}
    /\ Lease \in Nat /\ MaxAttempts \in Nat \ {0} /\ MaxCrashes \in Nat
    /\ Backoff \in Seq(Nat \ {0}) /\ Backoff # << >>
    /\ NoJob \notin Nat
    /\ Environments \subseteq SUBSET AllFaults

VARIABLES
    row,         \* "none", "open" or "closed" (is_sent)
    processing,  \* is_processing
    age,         \* ticks since processing_started_at, up to Lease
    retry,       \* retry_count
    due,         \* ticks to remind_at
    edit,        \* handler that creates the reminder: "none", "chosen", "applied"
    old,         \* the reminder that handler replaces
    active,      \* the manager's is_active
    up,          \* the CRM bot runs
    job,         \* ticks to the job's run
    run,         \* the job's coroutine: "none", "claimed", "ready", "sent"
    delivered,   \* messages in Telegram
    slips,       \* messages in Telegram that no commit has recorded
    crashes,     \* faults so far
    cancelled,   \* history: reminders no message may follow any more
    env          \* the faults this environment has, from Init on

rows  == <<row, processing, age, retry, due, active>>
edits == <<edit, old>>
tg    == <<delivered, slips>>
system == <<rows, edits, up, job, run, tg, crashes, cancelled>>
vars  == <<system, env>>

Init ==
    /\ row        = [r \in Reminders |-> "none"]
    /\ processing = [r \in Reminders |-> FALSE]
    /\ age        = [r \in Reminders |-> 0]
    /\ retry      = [r \in Reminders |-> 0]
    /\ due        = [r \in Reminders |-> 0]
    /\ edit       = [r \in Reminders |-> "none"]
    /\ old        = [r \in Reminders |-> None]
    /\ active     = TRUE
    /\ up         = TRUE
    /\ job        = [r \in Reminders |-> NoJob]
    /\ run        = [r \in Reminders |-> "none"]
    /\ delivered  = [r \in Reminders |-> 0]
    /\ slips      = [r \in Reminders |-> 0]
    /\ crashes    = 0
    /\ cancelled  = {}
    /\ env \in Environments

\* The fault f happens, if the environment has it and the bound allows it.
Fault(f) == /\ f \in env
            /\ crashes < MaxCrashes
            /\ crashes' = crashes + 1

\* _retry_delay_seconds
RetryDelay(attempt) == Backoff[IF attempt <= Len(Backoff) THEN attempt ELSE Len(Backoff)]

\* A replacement not yet committed has cancelled r and holds its row.
Locked(r) == row[r] = "open" /\ \E e \in Reminders : edit[e] = "applied" /\ old[e] = r

-----------------------------------------------------------------------------
(* Setting and replacing a reminder                                        *)

\* get_active_reminder_for_manager: the manager's soonest reminder to come.
Soonest == LET coming == {r \in Reminders : row[r] = "open" /\ due[r] > 0}
           IN  IF coming = {} THEN {None}
               ELSE {r \in coming : \A q \in coming : due[r] <= due[q]}

\* remind_set without a reminder, or the confirmed replacement of one.
Choose(r) ==
    /\ up /\ active
    /\ row[r] = "none" /\ edit[r] = "none"
    /\ \E o \in Soonest : old' = [old EXCEPT ![r] = o]
    /\ edit' = [edit EXCEPT ![r] = "chosen"]
    /\ UNCHANGED <<rows, up, job, run, tg, crashes, cancelled>>

\* schedule_reminder, replace_reminder: cancel the old row, drop its job, insert
\* the new row, add its job.  A job of the old row that is due may have started.
Apply(r) ==
    LET o == old[r] IN
    /\ edit[r] = "chosen"
    /\ o # None => ~ Locked(o)
    /\ \E d \in Delays :
          /\ due' = [due EXCEPT ![r] = d]
          /\ \/ job' = [q \in Reminders |-> CASE q = r -> d [] q = o -> NoJob
                                              [] OTHER -> job[q]]
             \/ o # None /\ job[o] = 0 /\ job' = [job EXCEPT ![r] = d]
    /\ edit' = [edit EXCEPT ![r] = "applied"]
    /\ UNCHANGED <<row, processing, age, retry, active, old, up, run, tg, crashes, cancelled>>

EndEdit(r) == /\ edit' = [edit EXCEPT ![r] = "none"]
              /\ old'  = [old EXCEPT ![r] = None]

CommitKeepingOld(r) ==  \* mutant: the old reminder is not cancelled
    /\ edit[r] = "applied"
    /\ row' = [row EXCEPT ![r] = "open"]
    /\ EndEdit(r)
    /\ UNCHANGED <<processing, age, retry, due, active, up, job, run, tg, crashes, cancelled>>

\* What a cancellation cannot stop any more: a delivery that has read its row again.
Unstoppable == {r \in Reminders : run[r] = "ready"}

Commit(r) ==
    /\ edit[r] = "applied"
    /\ row' = [q \in Reminders |-> CASE q = r -> "open" [] q = old[r] -> "closed"
                                     [] OTHER -> row[q]]
    /\ processing' = [q \in Reminders |-> processing[q] /\ q # old[r]]
    /\ cancelled' = cancelled \cup ({old[r]} \ (Unstoppable \cup {None}))
    /\ EndEdit(r)
    /\ UNCHANGED <<age, retry, due, active, up, job, run, tg, crashes>>

\* The commit fails: the rows are as before, the jobs are not.
Abort(r) ==
    /\ edit[r] = "applied"
    /\ Fault("db_error")
    /\ EndEdit(r)
    /\ UNCHANGED <<rows, up, job, run, tg, cancelled>>

\* deactivate_manager: only reminders to come are cancelled (remind_at > now), no job is
\* dropped.  What is overdue, or is being set by another handler, is left.
DeactivateManager ==
    LET coming == {r \in Reminders : row[r] = "open" /\ due[r] > 0}
        left   == {r \in Reminders : edit[r] # "none" \/ (row[r] = "open" /\ due[r] = 0)}
    IN
    /\ up /\ active
    /\ \A r \in coming : ~ Locked(r)
    /\ active' = FALSE
    /\ row' = [r \in Reminders |-> IF r \in coming THEN "closed" ELSE row[r]]
    /\ processing' = [r \in Reminders |-> processing[r] /\ r \notin coming]
    /\ cancelled' = cancelled \cup (Reminders \ (left \cup Unstoppable))
    /\ UNCHANGED <<age, retry, due, edits, up, job, run, tg, crashes>>

-----------------------------------------------------------------------------
(* Delivery: _send_reminder_job                                            *)

Claimable(r) == row[r] = "open" /\ (processing[r] => age[r] >= Lease)

\* The job runs: claim_reminder_for_delivery and commit, or it ends.
Claim(r) ==
    /\ up /\ job[r] = 0 /\ run[r] = "none"
    /\ ~ Locked(r)
    /\ job' = [job EXCEPT ![r] = NoJob]
    /\ IF Claimable(r)
       THEN /\ processing' = [processing EXCEPT ![r] = TRUE]
            /\ age'   = [age EXCEPT ![r] = 0]
            /\ retry' = [retry EXCEPT ![r] = @ + 1]
            /\ run'   = [run EXCEPT ![r] = "claimed"]
       ELSE UNCHANGED <<processing, age, retry, run>>
    /\ UNCHANGED <<row, due, active, edits, up, tg, crashes, cancelled>>

RereadBlindly(r) ==  \* mutant
    /\ run[r] = "claimed"
    /\ run' = [run EXCEPT ![r] = "ready"]
    /\ UNCHANGED <<rows, edits, up, job, tg, crashes, cancelled>>

\* get_reminder_by_id: one that was cancelled meanwhile is not sent.
Reread(r) ==
    /\ run[r] = "claimed"
    /\ run' = [run EXCEPT ![r] = IF row[r] = "closed" THEN "none" ELSE "ready"]
    /\ UNCHANGED <<rows, edits, up, job, tg, crashes, cancelled>>

Send(r) ==
    /\ run[r] = "ready"
    /\ run' = [run EXCEPT ![r] = "sent"]
    /\ delivered' = [delivered EXCEPT ![r] = @ + 1]
    /\ UNCHANGED <<rows, edits, up, job, slips, crashes, cancelled>>

\* The last attempt allowed has failed.
GiveUp(attempt) == attempt >= MaxAttempts

\* _handle_delivery_failure: give the reminder up, or release it and try later.
Fails(r) ==
    /\ ~ Locked(r)
    /\ IF GiveUp(retry[r])
       THEN /\ row' = [row EXCEPT ![r] = "closed"]
            /\ processing' = [processing EXCEPT ![r] = FALSE]
            /\ job' = [job EXCEPT ![r] = NoJob]
            /\ UNCHANGED due
       ELSE /\ job' = [job EXCEPT ![r] = RetryDelay(retry[r])]
            /\ IF row[r] = "open"
               THEN /\ due' = [due EXCEPT ![r] = RetryDelay(retry[r])]
                    /\ processing' = [processing EXCEPT ![r] = FALSE]
               ELSE UNCHANGED <<due, processing>>
            /\ UNCHANGED row
    /\ run' = [run EXCEPT ![r] = "none"]
    /\ UNCHANGED <<age, retry, active, edits, up, cancelled>>

\* No group, no topic, or Telegram refused.
SendFails(r) == run[r] = "ready" /\ Fails(r) /\ UNCHANGED <<tg, crashes>>

\* Telegram has the message, the call raised all the same.
AnswerLost(r) ==
    /\ run[r] = "ready"
    /\ Fault("lost_answer")
    /\ Fails(r)
    /\ delivered' = [delivered EXCEPT ![r] = @ + 1]
    /\ slips'     = [slips EXCEPT ![r] = @ + 1]

MarkReleased(r) ==  \* mutant: is_sent is forgotten
    /\ run[r] = "sent" /\ ~ Locked(r)
    /\ processing' = [processing EXCEPT ![r] = FALSE]
    /\ run' = [run EXCEPT ![r] = "none"]
    /\ UNCHANGED <<row, age, retry, due, active, edits, up, job, tg, crashes, cancelled>>

\* mark_reminder_sent, whatever has become of the reminder.
MarkSent(r) ==
    /\ run[r] = "sent" /\ ~ Locked(r)
    /\ row' = [row EXCEPT ![r] = "closed"]
    /\ processing' = [processing EXCEPT ![r] = FALSE]
    /\ run' = [run EXCEPT ![r] = "none"]
    /\ UNCHANGED <<age, retry, due, active, edits, up, job, tg, crashes, cancelled>>

\* The coroutine dies of a database error: the claim stays, nothing is scheduled
\* (or, when the last commit failed, only the job of the retry).
JobDies(r) ==
    /\ run[r] \in {"claimed", "ready", "sent"}
    /\ Fault("db_error")
    /\ run' = [run EXCEPT ![r] = "none"]
    /\ slips' = [slips EXCEPT ![r] = IF run[r] = "sent" THEN @ + 1 ELSE @]
    /\ \/ UNCHANGED job
       \/ /\ run[r] = "ready" /\ ~ GiveUp(retry[r])
          /\ job' = [job EXCEPT ![r] = RetryDelay(retry[r])]
    /\ UNCHANGED <<rows, edits, up, delivered, cancelled>>

-----------------------------------------------------------------------------
(* The process and time                                                    *)

Crash ==
    /\ up
    /\ crashes < MaxCrashes
    /\ crashes' = crashes + 1
    /\ up'    = FALSE
    /\ job'   = [r \in Reminders |-> NoJob]
    /\ run'   = [r \in Reminders |-> "none"]
    /\ edit'  = [r \in Reminders |-> "none"]
    /\ old'   = [r \in Reminders |-> None]
    /\ slips' = [r \in Reminders |-> IF run[r] = "sent" THEN slips[r] + 1 ELSE slips[r]]
    /\ UNCHANGED <<rows, delivered, cancelled>>

RestartForDueOnly ==  \* mutant: the second query of start_scheduler is missing
    /\ ~ up
    /\ up' = TRUE
    /\ job' = [r \in Reminders |-> IF row[r] = "open" /\ due[r] = 0 THEN 0 ELSE NoJob]
    /\ UNCHANGED <<rows, edits, run, tg, crashes, cancelled>>

\* start_scheduler: a job for every open row, the ones in processing included, however
\* young their claim is.
Restart ==
    /\ ~ up
    /\ up' = TRUE
    /\ job' = [r \in Reminders |-> IF row[r] = "open" THEN due[r] ELSE NoJob]
    /\ UNCHANGED <<rows, edits, run, tg, crashes, cancelled>>

\* misfire_grace_time: a job whose time has passed still runs.
Less(n) == IF n = 0 THEN 0 ELSE n - 1

Tick ==
    /\ "slow_commit" \in env \/ \A r \in Reminders : edit[r] # "applied"
    /\ due' = [r \in Reminders |-> Less(due[r])]
    /\ job' = [r \in Reminders |-> IF job[r] = NoJob THEN NoJob ELSE Less(job[r])]
    /\ age' = [r \in Reminders |-> IF processing[r] /\ age[r] < Lease THEN age[r] + 1
                                                                      ELSE age[r]]
    /\ UNCHANGED <<row, processing, retry, active, edits, up, run, tg, crashes, cancelled>>

-----------------------------------------------------------------------------
Deliver(r) == Claim(r) \/ Reread(r) \/ Send(r) \/ SendFails(r) \/ MarkSent(r)

Next ==
    /\ UNCHANGED env
    /\ \/ \E r \in Reminders :
             \/ Choose(r) \/ Apply(r) \/ Commit(r) \/ Abort(r)
             \/ Deliver(r) \/ AnswerLost(r) \/ JobDies(r)
       \/ DeactivateManager \/ Crash \/ Restart \/ Tick

Spec == Init /\ [][Next]_vars

\* The event loop runs what is due, a handler that has sent its UPDATEs commits,
\* docker restarts the bot (restart: always), and time passes.
LiveSpec == /\ Spec
            /\ \A r \in Reminders : WF_system(Deliver(r)) /\ WF_system(Commit(r))
            /\ WF_system(Restart) /\ WF_system(Tick)

-----------------------------------------------------------------------------
(* Properties                                                              *)

\* The types of the variables: no time runs below zero, no claim past its lease.
TypeOK ==
    /\ row \in [Reminders -> {"none", "open", "closed"}]
    /\ processing \in [Reminders -> BOOLEAN]
    /\ age \in [Reminders -> 0 .. Lease]
    /\ retry \in [Reminders -> Nat] /\ due \in [Reminders -> Nat]
    /\ edit \in [Reminders -> {"none", "chosen", "applied"}]
    /\ old \in [Reminders -> Reminders \cup {None}]
    /\ active \in BOOLEAN /\ up \in BOOLEAN
    /\ job \in [Reminders -> Nat \cup {NoJob}]
    /\ run \in [Reminders -> {"none", "claimed", "ready", "sent"}]
    /\ delivered \in [Reminders -> Nat] /\ slips \in [Reminders -> Nat]
    /\ crashes \in 0 .. MaxCrashes /\ env \in Environments
    /\ cancelled \subseteq Reminders

\* A reminder is in Telegram twice only if a message went out whose record was
\* lost: by a crash or an error before the commit, or by a lost answer.
NoNeedlessDuplicate == \A r \in Reminders : delivered[r] <= slips[r] + 1

\* Whatever jobs outlive it, fail, are retried or made again by a restart, no message
\* follows a reminder that its manager has replaced, nor any reminder of a manager who
\* was removed, but for the deliveries the code cannot stop: those that had read the
\* row again, and at a removal what was overdue or was just being set.
CancelledIsNotSent == [][\A r \in cancelled : delivered'[r] = delivered[r]]_vars

\* A claim that a crash left, whose job after the restart came before its lease was
\* over: the job has ended, and nothing makes another one until the next restart.
Forgotten(r) == processing[r] /\ job[r] = NoJob

\* No reminder is stranded (without faults but crashes): while the bot is up, an
\* open reminder nobody delivers has a job at its time, or it is one that a crash
\* interrupted in mid-delivery and the restart forgot.
NoneStranded ==
    \A r \in Reminders :
        env = {} /\ up /\ row[r] = "open" /\ run[r] = "none" /\ ~ Locked(r) =>
            /\ job[r] = due[r] \/ Forgotten(r)
            /\ processing[r] => crashes > 0

\* The state is sound, and no reminder stranded.
Inv == TypeOK /\ NoneStranded

\* Every reminder is delivered, cancelled or given up in the end (without faults but
\* crashes), or a crash in mid-delivery and a restart before the lease strand it.
EventuallySettled ==
    \A r \in Reminders :
        env = {} /\ row[r] = "open" ~>
            row[r] = "closed" \/ (up /\ run[r] = "none" /\ Forgotten(r))
=============================================================================
