----------------------------- MODULE SafeSender -----------------------------
(***************************************************************************)
(* TelegramSafeSender: every call of Telegram goes through _call, which    *)
(* waits for its turn in the chat (ChatRateLimiter), calls, and tries      *)
(* again when Telegram answers "retry after".  The limiter has a lock and  *)
(* a time per chat, and nothing of one chat touches another: one chat is   *)
(* modelled.  Timers are what is left of them, so that time has no bound.  *)
(*                                                                         *)
(* The module has the steps of a call.  What a call does in Telegram, and  *)
(* the environment's answer, belong to the module that makes the calls.    *)
(***************************************************************************)
EXTENDS Naturals, Sequences, SequencesExt

CONSTANTS Callers,      \* the coroutines that may have a call at the same time
          MinDelay,     \* limiter.min_delay_sec
          MaxAttempts,  \* sender.max_attempts
          RetryAfter    \* penalties Telegram may answer with

ASSUME SenderAssumption == /\ MinDelay \in Nat \ {0}
                           /\ MaxAttempts \in Nat \ {0}
                           /\ RetryAfter \subseteq Nat

VARIABLES
    call,   \* the call of a caller: where it is, its attempt, its sleep
    line,   \* asyncio.Lock of the chat: its waiters, of which the first holds it
    age,    \* time since _last_sent, up to MinDelay
    gap     \* history: time since Telegram was last called, up to MinDelay

senderVars == <<call, line, age, gap>>

NoCall == [at |-> "idle", attempt |-> 0, sleep |-> 0]

\* The process has just started; the limiter knows of no earlier call.
SenderInit ==
    /\ call = [k \in Callers |-> NoCall]
    /\ line = << >>
    /\ age  = MinDelay
    /\ gap  = MinDelay

SenderTypeOK ==
    /\ call \in [Callers -> [at : {"idle", "waiting", "locked", "sent", "flood"},
                             attempt : 0 .. MaxAttempts, sleep : Nat]]
    /\ IsInjective(line)
    /\ ToSet(line) = {k \in Callers : call[k].at \in {"waiting", "locked"}}
    /\ age \in 0 .. MinDelay /\ gap \in 0 .. MinDelay

-----------------------------------------------------------------------------
(* The steps of _call.  An operator names the calls it changes.            *)

\* Any method of the sender.
Ask(k) ==
    /\ call[k] = NoCall
    /\ call' = [call EXCEPT ![k] = [NoCall EXCEPT !.at = "waiting", !.attempt = 1]]
    /\ line' = Append(line, k)
    /\ UNCHANGED <<age, gap>>

LockShared(k) ==  \* mutant: the wait takes no lock
    /\ call[k].at = "waiting"
    /\ call' = [call EXCEPT ![k].at = "locked", ![k].sleep = MinDelay - age]
    /\ UNCHANGED <<line, age, gap>>

\* The lock is ours: what is left of the delay is slept with the lock held.
Lock(k) ==
    /\ call[k].at = "waiting" /\ line # << >> /\ Head(line) = k
    /\ call' = [call EXCEPT ![k].at = "locked", ![k].sleep = MinDelay - age]
    /\ UNCHANGED <<line, age, gap>>

\* _last_sent is set, the lock released and Telegram called, without an await.
Send(k) ==
    /\ call[k].at = "locked" /\ call[k].sleep = 0
    /\ call' = [call EXCEPT ![k].at = "sent"]
    /\ line' = Tail(line)
    /\ age' = 0 /\ gap' = 0

\* TelegramRetryAfter: the penalty is slept outside the limiter.
Flood(k) ==
    /\ call[k].at = "sent" /\ call[k].attempt < MaxAttempts
    /\ \E r \in RetryAfter : call' = [call EXCEPT ![k].at = "flood", ![k].sleep = r + 1]
    /\ UNCHANGED <<line, age, gap>>

RetryAlways(k) ==  \* mutant: the attempts are not counted
    /\ call[k].at = "flood" /\ call[k].sleep = 0
    /\ call' = [call EXCEPT ![k].at = "waiting"]
    /\ line' = Append(line, k)
    /\ UNCHANGED <<age, gap>>

Retry(k) ==
    /\ call[k].at = "flood" /\ call[k].sleep = 0
    /\ call' = [call EXCEPT ![k].at = "waiting", ![k].attempt = @ + 1]
    /\ line' = Append(line, k)
    /\ UNCHANGED <<age, gap>>

\* The call returns, or raises: another error, or "retry after" at the last attempt.
Return(k) ==
    /\ call[k].at = "sent"
    /\ call' = [call EXCEPT ![k] = NoCall]
    /\ UNCHANGED <<line, age, gap>>

SenderStep(k) == Lock(k) \/ Send(k) \/ Flood(k) \/ Retry(k)

Less(n) == IF n = 0 THEN 0 ELSE n - 1
More(n) == IF n = MinDelay THEN n ELSE n + 1

SenderTick ==
    /\ call' = [k \in Callers |-> [call[k] EXCEPT !.sleep = Less(@)]]
    /\ age' = More(age) /\ gap' = More(gap)
    /\ UNCHANGED line
=============================================================================
