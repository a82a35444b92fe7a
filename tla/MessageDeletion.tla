-------------------------- MODULE MessageDeletion --------------------------
(***************************************************************************)
(* Messages with a time to live.  A handler sends a message and schedules  *)
(* its deletion (send_ephemeral_text); pressing a button of it cleans it   *)
(* up: delete, and if that fails no buttons, new text, and a new schedule  *)
(* (_cleanup_message).  One worker deletes what is due.  The jobs are in   *)
(* Redis (a sorted set) or, without Redis, in the memory of the process.   *)
(* Handlers and worker share the sender of the chat (SafeSender).          *)
(***************************************************************************)
EXTENDS SafeSender, FiniteSets

CONSTANTS Messages,      \* the messages; the handler of one is its caller
          Worker,        \* the caller that is the deletion worker
          Never,         \* no job
          Ttls,          \* ttl_sec of the schedules
          PollInterval,  \* poll_interval
          RestartDelay,  \* sleep after an error of the loop
          MaxFaults      \* bound on restarts and errors of Redis

ASSUME DeletionAssumption == /\ Callers = Messages \cup {Worker}
                             /\ Worker \notin Messages
                             /\ Ttls \subseteq Nat /\ Never \notin Nat
                             /\ {PollInterval, RestartDelay, MaxFaults} \subseteq Nat

VARIABLES
    redis,      \* TRUE: jobs in Redis, FALSE: in memory
    shown,      \* the message in the chat: "no", "yes", "gone"
    doing,      \* what the handler of a message is at
    pressed,    \* a button of the message has been pressed (bound: once)
    due,        \* the job of a message: time left, or Never (in memory, time is in heap)
    heap,       \* in memory: heap entries <<message, time left>>
    worker,     \* where the worker is
    batch,      \* jobs the worker has read and not started
    job,        \* message the worker has started on
    poll,       \* time left of the worker's sleep
    faults,     \* restarts and errors of Redis so far
    deadlines,  \* history: <<message, time left>> of the schedules that count
    owed        \* history: messages scheduled and not tried by the worker since

jobVars == <<due, heap, worker, batch, job, poll>>
vars == <<senderVars, redis, shown, doing, pressed, jobVars, faults, deadlines, owed>>

TypeOK ==
    /\ SenderTypeOK
    /\ redis \in BOOLEAN
    /\ shown \in [Messages -> {"no", "yes", "gone"}]
    /\ doing \in [Messages -> {"idle", "send", "schedule", "delete", "unmark", "retext"}]
    /\ pressed \subseteq Messages /\ owed \subseteq Messages
    /\ due \in [Messages -> Nat \cup {Never}]
    /\ heap \subseteq Messages \X Nat /\ deadlines \subseteq Messages \X Nat
    /\ worker \in {"rest", "next", "delete", "zrem"}
    /\ batch \subseteq Messages /\ job \in Messages \cup {Never}
    /\ poll \in Nat /\ faults \in 0 .. MaxFaults

Init ==
    /\ SenderInit
    /\ redis \in BOOLEAN
    /\ shown = [m \in Messages |-> "no"]
    /\ doing = [m \in Messages |-> "idle"]
    /\ due   = [m \in Messages |-> Never]
    /\ heap = {} /\ batch = {} /\ pressed = {} /\ deadlines = {} /\ owed = {}
    /\ worker = "rest" /\ job = Never /\ poll = 0 /\ faults = 0

At(m, step) == doing' = [doing EXCEPT ![m] = step]

-----------------------------------------------------------------------------
(* The handlers                                                            *)

SendMessage(m) ==
    /\ doing[m] = "idle" /\ shown[m] = "no"
    /\ Ask(m) /\ At(m, "send")
    /\ UNCHANGED <<redis, shown, pressed, jobVars, faults, deadlines, owed>>

\* cleanup_inline_menu begins with a delete.
PressButton(m) ==
    /\ doing[m] = "idle" /\ shown[m] = "yes" /\ m \notin pressed
    /\ pressed' = pressed \cup {m}
    /\ Ask(m) /\ At(m, "delete")
    /\ UNCHANGED <<redis, shown, jobVars, faults, deadlines, owed>>

\* The next call of _cleanup_message: no buttons, then the final text.
CleanUpFurther(m) ==
    /\ doing[m] \in {"unmark", "retext"}
    /\ Ask(m)
    /\ UNCHANGED <<redis, shown, doing, pressed, jobVars, faults, deadlines, owed>>

\* Telegram has done what was asked (a message that is gone cannot be changed).
Done(m, asked) ==
    /\ asked = "send" \/ shown[m] = "yes"
    /\ shown' = [shown EXCEPT ![m] = CASE asked = "send"   -> "yes"
                                       [] asked = "delete" -> "gone"
                                       [] OTHER            -> @]

\* A call of a handler returns, or raises, with or without its effect.  The clean-up
\* goes on after an error; the sending does not.
HandlerReturns(m) ==
    /\ Return(m)
    /\ \/ /\ Done(m, doing[m])
          /\ At(m, CASE doing[m] \in {"send", "retext"} -> "schedule"
                     [] doing[m] = "delete" -> "idle"
                     [] doing[m] = "unmark" -> "retext")
       \/ /\ Done(m, doing[m]) \/ UNCHANGED shown
          /\ At(m, CASE doing[m] = "send"   -> "idle"
                     [] doing[m] = "delete" -> "unmark"
                     [] doing[m] = "unmark" -> "retext"
                     [] doing[m] = "retext" -> "schedule")
    /\ UNCHANGED <<redis, pressed, jobVars, faults, deadlines, owed>>

\* The worker has m in a batch it read, or is at its job in Redis: what is scheduled
\* for m now will be removed with the job.
Held(m) == m \in batch \/ (redis /\ m = job)

\* schedule_delete.  ZADD gives the job a new score; the memory keeps the older heap entry.
Schedule(m) ==
    /\ doing[m] = "schedule"
    /\ At(m, "idle")
    /\ \E t \in Ttls :
          /\ due' = [due EXCEPT ![m] = t]
          /\ heap' = IF redis THEN heap ELSE heap \cup {<<m, t>>}
          /\ deadlines' = {<<m, t>>} \cup
                {d \in deadlines : redis /\ ~ Held(m) => d[1] # m}
    /\ owed' = IF Held(m) THEN owed ELSE owed \cup {m}
    /\ UNCHANGED <<senderVars, redis, shown, pressed, worker, batch, job, poll, faults>>

-----------------------------------------------------------------------------
(* The worker                                                              *)

DrainAll ==  \* mutant: the jobs are read without their times
    /\ worker = "rest" /\ poll = 0
    /\ worker' = "next"
    /\ batch' = {m \in Messages : due[m] # Never}
    /\ heap' = {e \in heap : e[1] \notin batch'}
    /\ UNCHANGED <<senderVars, redis, shown, doing, pressed, due, job, poll, faults, deadlines, owed>>

\* _drain_redis reads the due jobs; _drain_memory pops the due entries of the heap.
ReadDue ==
    /\ worker = "rest" /\ poll = 0
    /\ worker' = "next"
    /\ batch' = {m \in Messages : due[m] # Never /\ (IF redis THEN due[m] = 0 ELSE <<m, 0>> \in heap)}
    /\ heap' = {e \in heap : e[2] # 0}
    /\ UNCHANGED <<senderVars, redis, shown, doing, pressed, due, job, poll, faults, deadlines, owed>>

NextJobGone ==  \* mutant: the job is removed from Redis before its message is deleted
    /\ worker = "next"
    /\ \E m \in batch :
          /\ batch' = batch \ {m} /\ job' = m
          /\ due' = [due EXCEPT ![m] = Never]
          /\ owed' = IF redis THEN owed ELSE owed \ {m}
    /\ worker' = "delete"
    /\ Ask(Worker)
    /\ UNCHANGED <<redis, shown, doing, pressed, heap, poll, faults, deadlines>>

\* _execute_job.  The memory forgets the job first.
NextJob ==
    /\ worker = "next"
    /\ \E m \in batch :
          /\ batch' = batch \ {m} /\ job' = m
          /\ due' = IF redis THEN due ELSE [due EXCEPT ![m] = Never]
          /\ owed' = IF redis THEN owed ELSE owed \ {m}
    /\ worker' = "delete"
    /\ Ask(Worker)
    /\ UNCHANGED <<redis, shown, doing, pressed, heap, poll, faults, deadlines>>

\* The delete returns or raises; _execute_job swallows the error.
JobReturns ==
    /\ worker = "delete"
    /\ Return(Worker)
    /\ Done(job, "delete") \/ UNCHANGED shown
    /\ IF redis THEN worker' = "zrem" /\ UNCHANGED job ELSE worker' = "next" /\ job' = Never
    /\ owed' = IF redis THEN owed \ {job} ELSE owed
    /\ UNCHANGED <<redis, doing, pressed, due, heap, batch, poll, faults, deadlines>>

\* The job goes, with the score it has by now.
Zrem ==
    /\ worker = "zrem"
    /\ due' = [due EXCEPT ![job] = Never]
    /\ worker' = "next" /\ job' = Never
    /\ UNCHANGED <<senderVars, redis, shown, doing, pressed, heap, batch, poll, faults, deadlines, owed>>

EndRound ==
    /\ worker = "next" /\ batch = {}
    /\ worker' = "rest" /\ poll' = PollInterval
    /\ UNCHANGED <<senderVars, redis, shown, doing, pressed, due, heap, batch, job, faults, deadlines, owed>>

-----------------------------------------------------------------------------
(* Faults                                                                  *)

Fault == faults < MaxFaults /\ faults' = faults + 1

\* The loop dies of an error of Redis, and is started again (_run_forever).
LoopFails ==
    /\ redis /\ (worker = "zrem" \/ (worker = "rest" /\ poll = 0)) /\ Fault
    /\ worker' = "rest" /\ batch' = {} /\ job' = Never /\ poll' = RestartDelay
    /\ UNCHANGED <<senderVars, redis, shown, doing, pressed, due, heap, deadlines, owed>>

ScheduleFails(m) ==
    /\ redis /\ doing[m] = "schedule" /\ Fault
    /\ At(m, "idle")
    /\ UNCHANGED <<senderVars, redis, shown, pressed, jobVars, deadlines, owed>>

\* The process stops and starts again.  The history of the limiter starts with it.
Restart ==
    /\ Fault
    /\ call' = [k \in Callers |-> NoCall] /\ line' = << >>
    /\ age' = MinDelay /\ gap' = MinDelay
    /\ doing' = [m \in Messages |-> "idle"]
    /\ worker' = "rest" /\ batch' = {} /\ job' = Never /\ poll' = 0
    /\ due' = IF redis THEN due ELSE [m \in Messages |-> Never]
    /\ heap' = {}
    /\ owed' = IF redis THEN owed ELSE {}
    /\ UNCHANGED <<redis, shown, pressed, deadlines>>

\* Time passes.  asyncio.sleep may oversleep.
Tick ==
    /\ SenderTick
    /\ due' = [m \in Messages |-> IF due[m] = Never THEN Never ELSE Less(due[m])]
    /\ heap' = {<<e[1], Less(e[2])>> : e \in heap}
    /\ deadlines' = {<<e[1], Less(e[2])>> : e \in deadlines}
    /\ poll' = Less(poll)
    /\ UNCHANGED <<redis, shown, doing, pressed, worker, batch, job, faults, owed>>

-----------------------------------------------------------------------------

CallStep(k) ==
    /\ SenderStep(k)
    /\ UNCHANGED <<redis, shown, doing, pressed, jobVars, faults, deadlines, owed>>

HandlerStep(m) == CleanUpFurther(m) \/ HandlerReturns(m) \/ Schedule(m)
WorkerStep     == ReadDue \/ NextJob \/ JobReturns \/ Zrem \/ EndRound

Next ==
    \/ \E m \in Messages : SendMessage(m) \/ PressButton(m) \/ HandlerStep(m) \/ ScheduleFails(m)
    \/ WorkerStep \/ LoopFails \/ Restart \/ Tick
    \/ \E k \in Callers : CallStep(k)

\* The event loop runs what is ready, Telegram answers, and time passes.  Nobody need
\* send a message or press a button, and no fault need happen.
Fairness ==
    /\ \A m \in Messages : WF_vars(HandlerStep(m))
    /\ \A k \in Callers : WF_vars(CallStep(k))
    /\ WF_vars(WorkerStep)
    /\ WF_vars(Tick)

Spec == Init /\ [][Next]_vars /\ Fairness

-----------------------------------------------------------------------------
(* Properties                                                              *)

\* Telegram is not called twice in a chat within MinDelay, whoever the callers are and
\* however often they are told to try again (ChatRateLimiter.wait).
SpacedCalls == [][\A k \in Callers : call[k].at = "locked" /\ call'[k].at = "sent" => gap >= MinDelay]_vars

\* Every call of the sender ends: the line of the chat is served in turn, and Telegram's
\* "retry after" is obeyed a bounded number of times (_call).
EveryCallEnds == \A k \in Callers : call[k].at # "idle" ~> call[k].at = "idle"

\* The worker takes a message only after a time that was set for it.  In Redis that is
\* the time set last, unless it was set while the worker had the job already; the memory
\* may go by an older one (_drain_memory).
NoEarlyDelete == worker = "delete" => <<job, 0>> \in deadlines

\* The state is sound, and no message is taken before its time.
Inv == TypeOK /\ NoEarlyDelete

\* A message scheduled while the worker does not have it is tried by the worker, across
\* restarts and errors when the jobs are in Redis.  (In memory a restart forgets them.)
OwedIsTried == \A m \in Messages : m \in owed ~> m \notin owed
=============================================================================
