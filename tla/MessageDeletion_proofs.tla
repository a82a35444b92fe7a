----------------------- MODULE MessageDeletion_proofs -----------------------
(***************************************************************************)
(* SpacedCalls for any callers, delay, attempts, penalties and times to    *)
(* live.  Nothing of the deletion matters but which step of SafeSender it  *)
(* takes (SenderMove), so the invariant is one of the sender alone.        *)
(***************************************************************************)
EXTENDS MessageDeletion, TLAPS

Call == [at : {"idle", "waiting", "locked", "sent", "flood"}, attempt : Nat, sleep : Nat]

\* Who holds the lock is the first in line, and sleeps at least what is left of the
\* delay; the limiter's clock runs with Telegram's.
SpacingInv ==
    /\ call \in [Callers -> Call]
    /\ line \in Seq(Callers)
    /\ age \in 0 .. MinDelay /\ gap = age
    /\ \A k \in Callers : call[k].at = "locked" =>
          line # << >> /\ Head(line) = k /\ call[k].sleep + age >= MinDelay

\* The sender is as it is when the process starts.
SenderStarts ==
    /\ call' = [k \in Callers |-> NoCall] /\ line' = << >>
    /\ age' = MinDelay /\ gap' = MinDelay

\* What a step of the deletion may be for the sender.
CallMove(k) == Ask(k) \/ Lock(k) \/ Send(k) \/ Flood(k) \/ Retry(k) \/ Return(k)
SenderMove  == \/ \E k \in Callers : CallMove(k)
               \/ SenderTick \/ SenderStarts \/ UNCHANGED senderVars

LEMMA EveryStepIsASenderMove == [Next]_vars => SenderMove
<1> SUFFICES ASSUME [Next]_vars PROVE SenderMove  OBVIOUS
<1> Messages \subseteq Callers /\ Worker \in Callers  BY DeletionAssumption
<1> USE DEF SenderMove, CallMove
<1>1. ASSUME NEW m \in Messages, SendMessage(m) \/ PressButton(m) \/ HandlerStep(m) \/ ScheduleFails(m)
      PROVE SenderMove
  BY <1>1 DEF SendMessage, PressButton, HandlerStep, CleanUpFurther, HandlerReturns, Schedule,
              ScheduleFails
<1>2. CASE WorkerStep
  BY <1>2 DEF WorkerStep, ReadDue, NextJob, JobReturns, Zrem, EndRound
<1>3. CASE LoopFails \/ Restart \/ Tick
  BY <1>3 DEF LoopFails, Restart, Tick, SenderStarts
<1>4. ASSUME NEW k \in Callers, CallStep(k) PROVE SenderMove
  BY <1>4 DEF CallStep, SenderStep
<1>5. CASE UNCHANGED vars
  BY <1>5 DEF vars
<1> QED  BY <1>1, <1>2, <1>3, <1>4, <1>5 DEF Next

LEMMA SenderMoveKeeps == SpacingInv /\ SenderMove => SpacingInv'
<1> SUFFICES ASSUME SpacingInv, SenderMove PROVE SpacingInv'  OBVIOUS
<1> USE SenderAssumption DEF SpacingInv, Call
<1>1. ASSUME NEW k \in Callers, Ask(k) PROVE SpacingInv'
  <2>1. /\ call' \in [Callers -> Call] /\ call'[k].at = "waiting"
        /\ \A j \in Callers : j # k => call'[j] = call[j]
    <3> DEFINE asked == [NoCall EXCEPT !.at = "waiting", !.attempt = 1]
    <3>1. asked \in Call /\ asked.at = "waiting"
      BY DEF NoCall
    <3>2. call' = [call EXCEPT ![k] = asked]
      BY <1>1 DEF Ask
    <3> HIDE DEF asked
    <3> QED  BY <3>1, <3>2
  <2>2. line' \in Seq(Callers) /\ line' # << >> /\ (line # << >> => Head(line') = Head(line))
    BY <1>1 DEF Ask
  <2> QED  BY <1>1, <2>1, <2>2 DEF Ask
<1>2. ASSUME NEW k \in Callers, Lock(k) PROVE SpacingInv'
  <2> DEFINE rest == MinDelay - age
  <2>r. rest \in Nat /\ rest + age = MinDelay
    OBVIOUS
  <2>c. call' = [call EXCEPT ![k].at = "locked", ![k].sleep = rest]
    BY <1>2 DEF Lock
  <2> HIDE DEF rest
  <2>1. call'[k].at = "locked" /\ call'[k].sleep = rest
    BY <2>c
  <2>2. \A j \in Callers : j # k => call'[j] = call[j]
    BY <2>c
  <2>3. call' \in [Callers -> Call]
    BY <2>c, <2>r
  <2>4. line # << >> /\ Head(line) = k /\ UNCHANGED <<line, age, gap>>
    BY <1>2 DEF Lock
  <2>5. ASSUME NEW j \in Callers, call'[j].at = "locked"
        PROVE line # << >> /\ Head(line) = j /\ call'[j].sleep + age >= MinDelay
    <3>1. CASE j = k  BY <3>1, <2>1, <2>4, <2>r
    <3>2. CASE j # k  BY <3>2, <2>2, <2>5
    <3> QED  BY <3>1, <3>2
  <2> QED  BY <2>3, <2>4, <2>5
<1>3. ASSUME NEW k \in Callers, Send(k) PROVE SpacingInv'
  <2>1. call' \in [Callers -> Call] /\ call'[k].at = "sent"
    BY <1>3 DEF Send
  <2>2. \A j \in Callers : call'[j].at # "locked"
    BY <1>3, <2>1 DEF Send
  <2>3. line' \in Seq(Callers)
    BY <1>3 DEF Send
  <2> QED  BY <1>3, <2>1, <2>2, <2>3 DEF Send
<1>4. ASSUME NEW k \in Callers, Flood(k) PROVE SpacingInv'
  <2>1. PICK r \in RetryAfter : call' = [call EXCEPT ![k].at = "flood", ![k].sleep = r + 1]
    BY <1>4 DEF Flood
  <2>2. r + 1 \in Nat
    OBVIOUS
  <2>3. call' \in [Callers -> Call] /\ call'[k].at = "flood"
    BY <2>1, <2>2
  <2>4. \A j \in Callers : j # k => call'[j] = call[j]
    BY <2>1
  <2> QED  BY <1>4, <2>3, <2>4 DEF Flood
<1>5. ASSUME NEW k \in Callers, Retry(k) PROVE SpacingInv'
  <2>1. call' \in [Callers -> Call] /\ call'[k].at = "waiting"
    <3> DEFINE n == call[k].attempt + 1
    <3>1. n \in Nat
      OBVIOUS
    <3>2. call' = [call EXCEPT ![k].at = "waiting", ![k].attempt = n]
      BY <1>5 DEF Retry
    <3> HIDE DEF n
    <3> QED  BY <3>1, <3>2
  <2>2. \A j \in Callers : j # k => call'[j] = call[j]
    BY <1>5 DEF Retry
  <2>3. line' = Append(line, k) /\ UNCHANGED <<age, gap>>
    BY <1>5 DEF Retry
  <2>4. line' \in Seq(Callers) /\ line' # << >> /\ (line # << >> => Head(line') = Head(line))
    BY <2>3
  <2> QED  BY <2>1, <2>2, <2>3, <2>4
<1>6. ASSUME NEW k \in Callers, Return(k) PROVE SpacingInv'
  BY <1>6 DEF Return, NoCall
<1>7. CASE SenderTick
  <2>1. ASSUME NEW k \in Callers
        PROVE /\ call'[k] \in Call /\ call'[k].at = call[k].at
              /\ call'[k].sleep = IF call[k].sleep = 0 THEN 0 ELSE call[k].sleep - 1
    <3>1. call'[k] = [call[k] EXCEPT !.sleep = Less(call[k].sleep)]
      BY <1>7 DEF SenderTick
    <3>2. Less(call[k].sleep) \in Nat
      BY DEF Less
    <3> QED  BY <3>1, <3>2 DEF Less
  <2>2. call' \in [Callers -> Call]
    <3>1. call' = [k \in Callers |-> call'[k]]
      BY <1>7 DEF SenderTick
    <3> QED  BY <3>1, <2>1
  <2>3. age' \in 0 .. MinDelay /\ gap' = age' /\ age' = IF age = MinDelay THEN age ELSE age + 1
    BY <1>7 DEF SenderTick, More
  <2>4. line' = line
    BY <1>7 DEF SenderTick
  <2>5. ASSUME NEW k \in Callers, call'[k].at = "locked"
        PROVE line # << >> /\ Head(line) = k /\ call'[k].sleep + age' >= MinDelay
    <3>1. /\ call[k].at = "locked" /\ call[k].sleep \in Nat
          /\ call'[k].sleep = IF call[k].sleep = 0 THEN 0 ELSE call[k].sleep - 1
      BY <2>1, <2>5
    <3>2. line # << >> /\ Head(line) = k /\ call[k].sleep + age >= MinDelay
      BY <3>1
    <3> QED  BY <3>1, <3>2, <2>3
  <2> QED  BY <2>2, <2>3, <2>4, <2>5
<1>8. CASE SenderStarts
  BY <1>8 DEF SenderStarts, NoCall
<1>9. CASE UNCHANGED senderVars
  BY <1>9 DEF senderVars
<1> QED  BY <1>1, <1>2, <1>3, <1>4, <1>5, <1>6, <1>7, <1>8, <1>9 DEF SenderMove, CallMove

\* SpacingInv is an invariant of the deletion: of every interleaving of handlers, worker,
\* retries, restarts and time.
THEOREM SpacingInvariant == Spec => []SpacingInv
<1>1. Init => SpacingInv
  BY SenderAssumption DEF Init, SenderInit, NoCall, SpacingInv, Call
<1>2. SpacingInv /\ [Next]_vars => SpacingInv'
  BY EveryStepIsASenderMove, SenderMoveKeeps
<1> QED  BY <1>1, <1>2, PTL DEF Spec

\* SpacedCalls: Telegram is called in a chat no sooner than MinDelay after its last call,
\* for any number of callers and whatever its penalties are (ChatRateLimiter.wait).
THEOREM CallsAreSpaced == Spec => SpacedCalls
<1>1. SpacingInv /\ [Next]_vars =>
         [\A k \in Callers : call[k].at = "locked" /\ call'[k].at = "sent" => gap >= MinDelay]_vars
  <2> SUFFICES ASSUME SpacingInv, SenderMove, NEW k \in Callers,
                      call[k].at = "locked", call'[k].at = "sent"
               PROVE gap >= MinDelay
    BY EveryStepIsASenderMove
  <2> USE DEF SpacingInv, Call
  <2>1. ASSUME NEW j \in Callers, CallMove(j), j # k PROVE FALSE
    BY <2>1 DEF CallMove, Ask, Lock, Send, Flood, Retry, Return
  <2>2. CASE CallMove(k)
    BY <2>2, SenderAssumption DEF CallMove, Ask, Lock, Send, Flood, Retry, Return, NoCall
  <2>3. CASE SenderTick
    BY <2>3 DEF SenderTick
  <2>4. CASE SenderStarts
    BY <2>4 DEF SenderStarts, NoCall
  <2>5. CASE UNCHANGED senderVars
    BY <2>5 DEF senderVars
  <2> QED  BY <2>1, <2>2, <2>3, <2>4, <2>5 DEF SenderMove
<1> QED  BY <1>1, SpacingInvariant, PTL DEF Spec, SpacedCalls

-----------------------------------------------------------------------------
(* The line of the chat                                                    *)

LEMMA AppendInLine ==
    ASSUME NEW S, NEW s \in Seq(S), IsInjective(s), NEW x \in S, x \notin ToSet(s)
    PROVE  IsInjective(Append(s, x)) /\ ToSet(Append(s, x)) = ToSet(s) \cup {x}
<1> DEFINE n == Len(s) + 1
           a == Append(s, x)
<1>1. /\ DOMAIN a = 1 .. n /\ DOMAIN s = 1 .. Len(s) /\ n \in Nat /\ Len(s) \in Nat
      /\ a[n] = x /\ \A i \in 1 .. Len(s) : a[i] = s[i] /\ s[i] # x
  BY DEF ToSet
<1> HIDE DEF a
<1>2. IsInjective(a)
  BY <1>1 DEF IsInjective
<1>3. ToSet(a) \subseteq ToSet(s) \cup {x}
  BY <1>1 DEF ToSet
<1>4. x \in ToSet(a) /\ ToSet(s) \subseteq ToSet(a)
  BY <1>1 DEF ToSet
<1>. QED  BY <1>2, <1>3, <1>4 DEF a

LEMMA TailOfLine ==
    ASSUME NEW S, NEW s \in Seq(S), IsInjective(s), s # << >>
    PROVE  IsInjective(Tail(s)) /\ ToSet(Tail(s)) = ToSet(s) \ {Head(s)}
<1>1. /\ DOMAIN Tail(s) = 1 .. (Len(s) - 1) /\ DOMAIN s = 1 .. Len(s) /\ Len(s) \in Nat \ {0}
      /\ \A i \in 1 .. (Len(s) - 1) : Tail(s)[i] = s[i + 1] /\ i + 1 \in DOMAIN s
      /\ Head(s) = s[1] /\ 1 \in DOMAIN s
  OBVIOUS
<1>2. IsInjective(Tail(s))
  BY <1>1 DEF IsInjective
<1>3. ASSUME NEW x \in ToSet(Tail(s)) PROVE x \in ToSet(s) \ {Head(s)}
  BY <1>1 DEF ToSet, IsInjective
<1>4. ASSUME NEW x \in ToSet(s) \ {Head(s)} PROVE x \in ToSet(Tail(s))
  <2>1. PICK i \in DOMAIN s : x = s[i] /\ i # 1
    BY <1>1 DEF ToSet
  <2>2. i - 1 \in 1 .. (Len(s) - 1) /\ Tail(s)[i - 1] = x
    BY <1>1, <2>1
  <2>. QED  BY <1>1, <2>2 DEF ToSet
<1>. QED  BY <1>2, <1>3, <1>4

\* The callers that wait or have the lock are those in the line, each once, and nobody
\* has asked more than MaxAttempts times.
LineInv ==
    /\ SenderTypeOK
    /\ \A k \in Callers : call[k].at = "flood" => call[k].attempt < MaxAttempts

Typed(c) == c \in [at : {"idle", "waiting", "locked", "sent", "flood"},
                   attempt : 0 .. MaxAttempts, sleep : Nat]

Waits(c) == c.at \in {"waiting", "locked"}

\* One call changes.  Its caller joins the line, leaves it from its head, or neither.
LEMMA CallChanges ==
    ASSUME SpacingInv, LineInv, NEW k \in Callers, NEW c, Typed(c), call' = [call EXCEPT ![k] = c],
           c.at = "flood" => c.attempt < MaxAttempts,
           age' \in 0 .. MinDelay, gap' \in 0 .. MinDelay,
           \/ (Waits(c) <=> Waits(call[k])) /\ line' = line
           \/ Waits(c) /\ ~ Waits(call[k]) /\ line' = Append(line, k)
           \/ ~ Waits(c) /\ line # << >> /\ Head(line) = k /\ line' = Tail(line)
    PROVE  LineInv'
<1> DEFINE In(f) == {j \in Callers : f[j].at \in {"waiting", "locked"}}
<1>1. /\ line \in Seq(Callers) /\ IsInjective(line) /\ ToSet(line) = In(call)
      /\ \A j \in Callers : Typed(call[j])
  BY DEF SpacingInv, LineInv, SenderTypeOK, Typed
<1>2. /\ DOMAIN call' = Callers /\ call'[k] = c /\ \A j \in Callers : j # k => call'[j] = call[j]
      /\ call' \in [Callers -> [at : {"idle", "waiting", "locked", "sent", "flood"},
                                attempt : 0 .. MaxAttempts, sleep : Nat]]
  BY DEF LineInv, SenderTypeOK, Typed
<1>3. IsInjective(line') /\ ToSet(line') = In(call')
  <2>1. CASE (Waits(c) <=> Waits(call[k])) /\ line' = line
    BY <1>1, <1>2, <2>1 DEF Waits
  <2>2. CASE Waits(c) /\ ~ Waits(call[k]) /\ line' = Append(line, k)
    <3>1. In(call') = In(call) \cup {k} /\ k \notin In(call)
      BY <1>2, <2>2 DEF Waits
    <3>. QED  BY <1>1, <2>2, <3>1, AppendInLine
  <2>3. CASE ~ Waits(c) /\ line # << >> /\ Head(line) = k /\ line' = Tail(line)
    <3>1. In(call') = In(call) \ {k}
      BY <1>2, <2>3 DEF Waits
    <3>. QED  BY <1>1, <2>3, <3>1, TailOfLine
  <2>. QED  BY <2>1, <2>2, <2>3
<1>4. \A j \in Callers : call'[j].at = "flood" => call'[j].attempt < MaxAttempts
  BY <1>2 DEF LineInv
<1>. QED  BY <1>2, <1>3, <1>4 DEF LineInv, SenderTypeOK

LEMMA LineKeeps == SpacingInv /\ LineInv /\ SenderMove => LineInv'
<1> SUFFICES ASSUME SpacingInv, LineInv, SenderMove PROVE LineInv'  OBVIOUS
<1>0. /\ age \in 0 .. MinDelay /\ gap \in 0 .. MinDelay /\ MinDelay \in Nat \ {0} /\ MaxAttempts \in Nat \ {0}
      /\ RetryAfter \subseteq Nat /\ \A k \in Callers : Typed(call[k])
      /\ 0 \in 0 .. MinDelay /\ {0, 1} \subseteq 0 .. MaxAttempts
  BY SenderAssumption DEF LineInv, SenderTypeOK, Typed
<1>1. ASSUME NEW k \in Callers, Ask(k) PROVE LineInv'
  <2> DEFINE c == [NoCall EXCEPT !.at = "waiting", !.attempt = 1]
  <2>1. Typed(c) /\ c.at = "waiting" /\ call' = [call EXCEPT ![k] = c] /\ call[k].at = "idle"
    <3>1. Typed(c) /\ c.at = "waiting"
      BY <1>0 DEF NoCall, Typed
    <3>. QED  BY <1>1, <3>1 DEF Ask, NoCall
  <2>2. line' = Append(line, k) /\ age' = age /\ gap' = gap
    BY <1>1 DEF Ask
  <2> HIDE DEF c
  <2>. QED  BY <1>0, <2>1, <2>2, CallChanges DEF Waits
<1>2. ASSUME NEW k \in Callers, Lock(k) PROVE LineInv'
  <2> DEFINE c == [call[k] EXCEPT !.at = "locked", !.sleep = MinDelay - age]
  <2>1. MinDelay - age \in Nat
    BY <1>0
  <2>2. Typed(c) /\ c.at = "locked"
    BY <1>0, <2>1 DEF Typed
  <2>3. call' = [call EXCEPT ![k] = c] /\ call[k].at = "waiting" /\ UNCHANGED <<line, age, gap>>
    BY <1>2 DEF Lock
  <2> HIDE DEF c
  <2>. QED  BY <1>0, <2>2, <2>3, CallChanges DEF Waits
<1>3. ASSUME NEW k \in Callers, Send(k) PROVE LineInv'
  <2> DEFINE c == [call[k] EXCEPT !.at = "sent"]
  <2>1. Typed(c) /\ c.at = "sent"
    BY <1>0 DEF Typed
  <2>2. /\ call' = [call EXCEPT ![k] = c] /\ line' = Tail(line) /\ age' = 0 /\ gap' = 0
        /\ line # << >> /\ Head(line) = k
    BY <1>3 DEF Send, SpacingInv
  <2> HIDE DEF c
  <2>. QED  BY <1>0, <2>1, <2>2, CallChanges DEF Waits
<1>4. ASSUME NEW k \in Callers, Flood(k) PROVE LineInv'
  <2>1. PICK r \in RetryAfter : call' = [call EXCEPT ![k].at = "flood", ![k].sleep = r + 1]
    BY <1>4 DEF Flood
  <2> DEFINE c == [call[k] EXCEPT !.at = "flood", !.sleep = r + 1]
  <2>2. r + 1 \in Nat
    BY <1>0
  <2>3. Typed(c) /\ c.at = "flood" /\ c.attempt = call[k].attempt
    BY <1>0, <2>2 DEF Typed
  <2>4. /\ call' = [call EXCEPT ![k] = c] /\ UNCHANGED <<line, age, gap>>
        /\ call[k].at = "sent" /\ call[k].attempt < MaxAttempts
    BY <1>4, <2>1 DEF Flood
  <2> HIDE DEF c
  <2>. QED  BY <1>0, <2>3, <2>4, CallChanges DEF Waits
<1>5. ASSUME NEW k \in Callers, Retry(k) PROVE LineInv'
  <2> DEFINE c == [call[k] EXCEPT !.at = "waiting", !.attempt = @ + 1]
  <2>1. call[k].at = "flood" /\ call[k].attempt + 1 \in 0 .. MaxAttempts
    BY <1>0, <1>5 DEF Retry, LineInv, Typed
  <2>2. Typed(c) /\ c.at = "waiting"
    BY <1>0, <2>1 DEF Typed
  <2>3. call' = [call EXCEPT ![k] = c] /\ line' = Append(line, k) /\ UNCHANGED <<age, gap>>
    BY <1>5 DEF Retry
  <2> HIDE DEF c
  <2>. QED  BY <1>0, <2>1, <2>2, <2>3, CallChanges DEF Waits
<1>6. ASSUME NEW k \in Callers, Return(k) PROVE LineInv'
  <2>1. Typed(NoCall) /\ NoCall.at = "idle"
    BY <1>0 DEF NoCall, Typed
  <2>2. call' = [call EXCEPT ![k] = NoCall] /\ call[k].at = "sent" /\ UNCHANGED <<line, age, gap>>
    BY <1>6 DEF Return
  <2>. QED  BY <1>0, <2>1, <2>2, CallChanges DEF Waits
<1>7. CASE SenderTick
  <2>1. ASSUME NEW k \in Callers
        PROVE  Typed(call'[k]) /\ call'[k].at = call[k].at /\ call'[k].attempt = call[k].attempt
    <3>1. call'[k] = [call[k] EXCEPT !.sleep = Less(call[k].sleep)]
      BY <1>7 DEF SenderTick
    <3>2. Less(call[k].sleep) \in Nat
      BY <1>0 DEF Less, Typed
    <3>. QED  BY <1>0, <3>1, <3>2 DEF Typed
  <2>2. call' = [k \in Callers |-> call'[k]] /\ line' = line
    BY <1>7 DEF SenderTick
  <2>3. age' \in 0 .. MinDelay /\ gap' \in 0 .. MinDelay
    BY <1>0, <1>7 DEF SenderTick, More
  <2>. QED  BY <2>1, <2>2, <2>3 DEF LineInv, SenderTypeOK, Typed
<1>8. CASE SenderStarts
  <2>1. Typed(NoCall) /\ NoCall.at = "idle"
    BY <1>0 DEF NoCall, Typed
  <2>2. IsInjective(<< >>) /\ ToSet(<< >>) = {}
    BY DEF IsInjective, ToSet
  <2>. QED  BY <1>0, <1>8, <2>1, <2>2 DEF SenderStarts, LineInv, SenderTypeOK, Typed
<1>9. CASE UNCHANGED senderVars
  BY <1>9 DEF senderVars, LineInv, SenderTypeOK
<1>. QED  BY <1>1, <1>2, <1>3, <1>4, <1>5, <1>6, <1>7, <1>8, <1>9 DEF SenderMove, CallMove

-----------------------------------------------------------------------------
(* No message is taken before its time                                     *)

\* What the worker has to do in a time that was set for it; a handler that is at nothing
\* of Telegram's has no call.
Planned ==
    /\ \A m \in Messages : doing[m] \in {"idle", "schedule"} => call[m] = NoCall
    /\ worker \in {"delete", "zrem"} => job \in Messages
    /\ redis => heap = {}
    /\ redis => \A m \in Messages : due[m] # Never => <<m, due[m]>> \in deadlines
    /\ heap \subseteq deadlines
    /\ \A m \in batch : <<m, 0>> \in deadlines
    /\ NoEarlyDelete

DeletionInv == SpacingInv /\ LineInv /\ TypeOK /\ Planned

\* The types of all but the sender.
DeletionTyped ==
    /\ redis \in BOOLEAN
    /\ shown \in [Messages -> {"no", "yes", "gone"}]
    /\ doing \in [Messages -> {"idle", "send", "schedule", "delete", "unmark", "retext"}]
    /\ pressed \subseteq Messages /\ owed \subseteq Messages
    /\ due \in [Messages -> Nat \cup {Never}]
    /\ heap \subseteq Messages \X Nat /\ deadlines \subseteq Messages \X Nat
    /\ worker \in {"rest", "next", "delete", "zrem"}
    /\ batch \subseteq Messages /\ job \in Messages \cup {Never}
    /\ poll \in Nat /\ faults \in 0 .. MaxFaults

Goal == DeletionTyped' /\ Planned'

\* Who is asked has a call of his own; nobody else's changes.
LEMMA OwnCall ==
    ASSUME SpacingInv, NEW k \in Callers, CallMove(k)
    PROVE  \A m \in Callers : m # k => call'[m] = call[m]
BY DEF CallMove, Ask, Lock, Send, Flood, Retry, Return, SpacingInv

LEMMA HandlersPlan ==
    ASSUME DeletionInv, NEW m \in Messages,
           SendMessage(m) \/ PressButton(m) \/ CleanUpFurther(m) \/ HandlerReturns(m) \/ ScheduleFails(m)
    PROVE  Goal
<1>0. /\ DeletionTyped /\ Planned /\ Messages \subseteq Callers
      /\ call \in [Callers -> Call]
  BY DeletionAssumption DEF DeletionInv, TypeOK, DeletionTyped, SpacingInv
<1>1. UNCHANGED <<redis, jobVars, deadlines, owed>> /\ pressed' \subseteq Messages
  BY <1>0 DEF SendMessage, PressButton, CleanUpFurther, HandlerReturns, ScheduleFails, DeletionTyped
<1>2. faults' \in 0 .. MaxFaults
  BY <1>0, DeletionAssumption DEF SendMessage, PressButton, CleanUpFurther, HandlerReturns, ScheduleFails, Fault, DeletionTyped
<1>3. shown' \in [Messages -> {"no", "yes", "gone"}]
  BY <1>0 DEF SendMessage, PressButton, CleanUpFurther, HandlerReturns, ScheduleFails, Done, DeletionTyped
<1>4. \A n \in Callers : n # m => call'[n] = call[n]
  BY <1>0, OwnCall DEF SendMessage, PressButton, CleanUpFurther, HandlerReturns, ScheduleFails,
     CallMove, senderVars, DeletionInv
<1>5. /\ doing' \in [Messages -> {"idle", "send", "schedule", "delete", "unmark", "retext"}]
      /\ \A n \in Messages : n # m => doing'[n] = doing[n]
      /\ doing'[m] \in {"idle", "schedule"} => call'[m] = NoCall
  <2>1. CASE SendMessage(m) \/ PressButton(m)
    BY <1>0, <2>1 DEF SendMessage, PressButton, At, DeletionTyped
  <2>2. CASE CleanUpFurther(m)
    BY <1>0, <2>2 DEF CleanUpFurther, DeletionTyped
  <2>3. CASE HandlerReturns(m)
    <3>1. call[m].at = "sent" /\ call'[m] = NoCall
      BY <1>0, <2>3 DEF HandlerReturns, Return
    <3>2. doing[m] \in {"send", "delete", "unmark", "retext"}
      BY <1>0, <3>1 DEF Planned, DeletionTyped, NoCall
    <3>3. PICK step \in {"idle", "schedule", "unmark", "retext"} : doing' = [doing EXCEPT ![m] = step]
      BY <2>3, <3>2 DEF HandlerReturns, At
    <3>. QED  BY <1>0, <3>1, <3>3 DEF DeletionTyped
  <2>4. CASE ScheduleFails(m)
    BY <1>0, <2>4 DEF ScheduleFails, At, senderVars, DeletionTyped, Planned
  <2>. QED  BY <2>1, <2>2, <2>3, <2>4
<1>6. DeletionTyped'
  BY <1>0, <1>1, <1>2, <1>3, <1>5 DEF DeletionTyped, jobVars
<1>7. Planned'
  BY <1>0, <1>1, <1>4, <1>5 DEF Planned, jobVars, NoEarlyDelete
<1>. QED  BY <1>6, <1>7 DEF Goal

LEMMA SchedulePlans == ASSUME DeletionInv, NEW m \in Messages, Schedule(m) PROVE Goal
<1>0. DeletionTyped /\ Planned /\ Never \notin Nat
  BY DeletionAssumption DEF DeletionInv, TypeOK, DeletionTyped
<1>1. PICK t \in Ttls : /\ due' = [due EXCEPT ![m] = t]
                        /\ heap' = IF redis THEN heap ELSE heap \cup {<<m, t>>}
                        /\ deadlines' = {<<m, t>>} \cup
                              {d \in deadlines : redis /\ ~ Held(m) => d[1] # m}
  BY DEF Schedule
<1>2. /\ t \in Nat /\ UNCHANGED <<senderVars, redis, shown, pressed, worker, batch, job, poll, faults>>
      /\ doing' = [doing EXCEPT ![m] = "idle"] /\ doing[m] = "schedule"
      /\ owed' \subseteq Messages
  BY <1>0, DeletionAssumption DEF Schedule, At, DeletionTyped
<1>3. /\ due' \in [Messages -> Nat \cup {Never}] /\ heap' \subseteq Messages \X Nat
      /\ deadlines' \subseteq Messages \X Nat
  BY <1>0, <1>1, <1>2 DEF DeletionTyped
<1>4. DeletionTyped'
  BY <1>0, <1>2, <1>3 DEF DeletionTyped
<1>5. ASSUME NEW n \in Messages, NEW x \in Nat, <<n, x>> \in deadlines, n # m \/ ~ redis \/ Held(m)
      PROVE  <<n, x>> \in deadlines'
  BY <1>1, <1>5
<1>6. <<m, t>> \in deadlines'
  BY <1>1
<1>7. redis' => \A n \in Messages : due'[n] # Never => <<n, due'[n]>> \in deadlines'
  BY <1>0, <1>1, <1>2, <1>5, <1>6 DEF Planned, DeletionTyped
<1>8. heap' \subseteq deadlines' /\ (redis' => heap' = {})
  <2>1. CASE redis
    BY <1>0, <1>1, <1>2, <2>1 DEF Planned
  <2>2. CASE ~ redis
    BY <1>0, <1>1, <1>2, <2>2 DEF Planned
  <2>. QED  BY <2>1, <2>2
<1>9. \A n \in batch' : <<n, 0>> \in deadlines'
  BY <1>0, <1>2, <1>5 DEF Planned, DeletionTyped, Held
<1>10. NoEarlyDelete'
  BY <1>0, <1>2, <1>5 DEF Planned, DeletionTyped, Held, NoEarlyDelete
<1>11. \A n \in Messages : doing'[n] \in {"idle", "schedule"} => call'[n] = NoCall
  BY <1>0, <1>2 DEF Planned, DeletionTyped, senderVars
<1>12. worker' \in {"delete", "zrem"} => job' \in Messages
  BY <1>0, <1>2 DEF Planned
<1>. QED  BY <1>4, <1>7, <1>8, <1>9, <1>10, <1>11, <1>12 DEF Goal, Planned

LEMMA WorkerPlans == ASSUME DeletionInv, WorkerStep \/ LoopFails PROVE Goal
<1>0. /\ DeletionTyped /\ Planned /\ Messages \subseteq Callers /\ Worker \in Callers \ Messages
      /\ call \in [Callers -> Call] /\ Never \notin Nat
      /\ SpacingInv
  BY DeletionAssumption DEF DeletionInv, TypeOK, DeletionTyped, SpacingInv
<1>1. UNCHANGED <<redis, doing, pressed, deadlines>>
  BY DEF WorkerStep, ReadDue, NextJob, JobReturns, Zrem, EndRound, LoopFails
<1>2. \A n \in Messages : call'[n] = call[n]
  BY <1>0, OwnCall DEF WorkerStep, ReadDue, NextJob, JobReturns, Zrem, EndRound, LoopFails,
     CallMove, senderVars
<1>3. shown' \in [Messages -> {"no", "yes", "gone"}]
  BY <1>0 DEF WorkerStep, ReadDue, NextJob, JobReturns, Zrem, EndRound, LoopFails, Done, DeletionTyped
<1>4. CASE ReadDue
  <2>1. /\ UNCHANGED <<due, job, poll, faults, owed>> /\ worker' = "next"
        /\ batch' \subseteq Messages /\ heap' \subseteq heap
    BY <1>4 DEF ReadDue
  <2>2. ASSUME NEW m \in batch' PROVE <<m, 0>> \in deadlines
    <3>1. m \in Messages /\ due[m] # Never /\ (IF redis THEN due[m] = 0 ELSE <<m, 0>> \in heap)
      BY <1>4 DEF ReadDue
    <3>2. CASE redis
      BY <1>0, <3>1, <3>2 DEF Planned
    <3>3. CASE ~ redis
      BY <1>0, <3>1, <3>3 DEF Planned
    <3>. QED  BY <3>2, <3>3
  <2>3. DeletionTyped'
    BY <1>0, <1>1, <1>3, <2>1 DEF DeletionTyped
  <2>4. Planned'
    BY <1>0, <1>1, <1>2, <2>1, <2>2 DEF Planned, NoEarlyDelete
  <2>. QED  BY <2>3, <2>4 DEF Goal
<1>5. CASE NextJob
  <2>1. PICK m \in batch : /\ batch' = batch \ {m} /\ job' = m
                           /\ due' = IF redis THEN due ELSE [due EXCEPT ![m] = Never]
                           /\ owed' = IF redis THEN owed ELSE owed \ {m}
    BY <1>5 DEF NextJob
  <2>2. UNCHANGED <<heap, poll, faults>> /\ worker' = "delete" /\ m \in Messages
    BY <1>0, <1>5 DEF NextJob, DeletionTyped
  <2>3. DeletionTyped'
    BY <1>0, <1>1, <1>3, <2>1, <2>2 DEF DeletionTyped
  <2>4. Planned'
    BY <1>0, <1>1, <1>2, <2>1, <2>2 DEF Planned, NoEarlyDelete, DeletionTyped
  <2>. QED  BY <2>3, <2>4 DEF Goal
<1>6. CASE JobReturns
  <2>1. /\ UNCHANGED <<due, heap, batch, poll, faults>> /\ owed' \subseteq owed
        /\ worker = "delete" /\ ((worker' = "zrem" /\ job' = job) \/ (worker' = "next" /\ job' = Never))
    BY <1>6 DEF JobReturns
  <2>2. DeletionTyped'
    BY <1>0, <1>1, <1>3, <2>1 DEF DeletionTyped
  <2>3. Planned'
    BY <1>0, <1>1, <1>2, <2>1 DEF Planned, NoEarlyDelete
  <2>. QED  BY <2>2, <2>3 DEF Goal
<1>7. CASE Zrem
  <2>1. /\ UNCHANGED <<heap, batch, poll, faults, owed>> /\ worker' = "next" /\ job' = Never
        /\ due' = [due EXCEPT ![job] = Never]
    BY <1>7 DEF Zrem
  <2>2. DeletionTyped'
    BY <1>0, <1>1, <1>3, <2>1 DEF DeletionTyped
  <2>3. Planned'
    BY <1>0, <1>1, <1>2, <2>1 DEF Planned, NoEarlyDelete, DeletionTyped
  <2>. QED  BY <2>2, <2>3 DEF Goal
<1>8. CASE EndRound
  <2>1. UNCHANGED <<due, heap, batch, job, faults, owed>> /\ worker' = "rest" /\ poll' \in Nat
    BY <1>8, DeletionAssumption DEF EndRound
  <2>2. DeletionTyped'
    BY <1>0, <1>1, <1>3, <2>1 DEF DeletionTyped
  <2>3. Planned'
    BY <1>0, <1>1, <1>2, <2>1 DEF Planned, NoEarlyDelete
  <2>. QED  BY <2>2, <2>3 DEF Goal
<1>9. CASE LoopFails
  <2>1. /\ UNCHANGED <<due, heap, owed>> /\ worker' = "rest" /\ batch' = {} /\ job' = Never
        /\ poll' \in Nat /\ faults' \in 0 .. MaxFaults
    BY <1>0, <1>9, DeletionAssumption DEF LoopFails, Fault, DeletionTyped
  <2>2. DeletionTyped'
    BY <1>0, <1>1, <1>3, <2>1 DEF DeletionTyped
  <2>3. Planned'
    BY <1>0, <1>1, <1>2, <2>1 DEF Planned, NoEarlyDelete
  <2>. QED  BY <2>2, <2>3 DEF Goal
<1>. QED  BY <1>4, <1>5, <1>6, <1>7, <1>8, <1>9 DEF WorkerStep

LEMMA LessIs == ASSUME NEW n \in Nat PROVE Less(n) \in Nat /\ Less(0) = 0
BY DEF Less

LEMMA OthersPlan ==
    ASSUME DeletionInv, Restart \/ Tick \/ (\E k \in Callers : CallStep(k)) \/ UNCHANGED vars
    PROVE  Goal
<1>0. /\ DeletionTyped /\ Planned /\ Messages \subseteq Callers /\ Worker \in Callers \ Messages
      /\ call \in [Callers -> Call] /\ Never \notin Nat /\ SpacingInv
  BY DeletionAssumption DEF DeletionInv, TypeOK, DeletionTyped, SpacingInv
<1>1. CASE Restart
  <2>1. /\ UNCHANGED <<redis, shown, pressed, deadlines>> /\ heap' = {} /\ batch' = {}
        /\ worker' = "rest" /\ job' = Never /\ poll' = 0 /\ owed' \subseteq owed
        /\ due' = IF redis THEN due ELSE [m \in Messages |-> Never]
        /\ faults' \in 0 .. MaxFaults
    BY <1>0, <1>1, DeletionAssumption DEF Restart, Fault, DeletionTyped
  <2>2. doing' = [m \in Messages |-> "idle"] /\ \A m \in Messages : call'[m] = NoCall
    BY <1>0, <1>1 DEF Restart
  <2>3. DeletionTyped'
    BY <1>0, <2>1, <2>2 DEF DeletionTyped
  <2>4. Planned'
    BY <1>0, <2>1, <2>2 DEF Planned, NoEarlyDelete
  <2>. QED  BY <2>3, <2>4 DEF Goal
<1>2. CASE Tick
  <2>1. /\ UNCHANGED <<redis, shown, doing, pressed, worker, batch, job, faults, owed>>
        /\ due' = [m \in Messages |-> IF due[m] = Never THEN Never ELSE Less(due[m])]
        /\ heap' = {<<e[1], Less(e[2])>> : e \in heap}
        /\ deadlines' = {<<e[1], Less(e[2])>> : e \in deadlines}
        /\ poll' = Less(poll)
    BY <1>2 DEF Tick
  <2>2. ASSUME NEW e \in Messages \X Nat PROVE <<e[1], Less(e[2])>> \in Messages \X Nat
    BY LessIs
  <2>3. ASSUME NEW m \in Messages, NEW n \in Nat, <<m, n>> \in deadlines
        PROVE  <<m, Less(n)>> \in deadlines'
    BY <2>1, <2>3
  <2>4. due' \in [Messages -> Nat \cup {Never}] /\ poll' \in Nat
    BY <1>0, <2>1, LessIs DEF DeletionTyped
  <2>5. heap' \subseteq Messages \X Nat /\ deadlines' \subseteq Messages \X Nat
    BY <1>0, <2>1, <2>2 DEF DeletionTyped
  <2>6. DeletionTyped'
    BY <1>0, <2>1, <2>4, <2>5 DEF DeletionTyped
  <2>7. \A m \in Messages : <<m, 0>> \in deadlines => <<m, 0>> \in deadlines'
    BY <2>3, LessIs
  <2>8. redis' => \A m \in Messages : due'[m] # Never => <<m, due'[m]>> \in deadlines'
    BY <1>0, <2>1, <2>3 DEF Planned, DeletionTyped
  <2>9. heap' \subseteq deadlines' /\ (redis' => heap' = {})
    BY <1>0, <2>1 DEF Planned
  <2>10. \A m \in Messages : call[m] = NoCall => call'[m] = NoCall
    BY <1>0, <1>2 DEF Tick, SenderTick, NoCall, Less
  <2>11. Planned'
    BY <1>0, <2>1, <2>7, <2>8, <2>9, <2>10 DEF Planned, NoEarlyDelete, DeletionTyped
  <2>. QED  BY <2>6, <2>11 DEF Goal
<1>3. ASSUME NEW k \in Callers, CallStep(k) PROVE Goal
  <2>1. UNCHANGED <<redis, shown, doing, pressed, jobVars, faults, deadlines, owed>>
    BY <1>3 DEF CallStep
  <2>2. \A m \in Callers : call[m] = NoCall => call'[m] = NoCall
    BY <1>0, <1>3, OwnCall DEF CallStep, SenderStep, Lock, Send, Flood, Retry, NoCall, CallMove
  <2>. QED  BY <1>0, <2>1, <2>2 DEF Goal, Planned, DeletionTyped, jobVars, NoEarlyDelete
<1>4. CASE UNCHANGED vars
  BY <1>0, <1>4 DEF vars, senderVars, jobVars, Goal, Planned, DeletionTyped, NoEarlyDelete
<1>. QED  BY <1>1, <1>2, <1>3, <1>4

LEMMA DeletionBegins == Init => DeletionInv
<1> SUFFICES ASSUME Init PROVE DeletionInv  OBVIOUS
<1>1. SpacingInv
  BY SenderAssumption DEF Init, SenderInit, NoCall, SpacingInv, Call
<1>2. LineInv
  <2>1. IsInjective(<< >>) /\ ToSet(<< >>) = {}
    BY DEF IsInjective, ToSet
  <2>2. call = [k \in Callers |-> NoCall] /\ line = << >> /\ age = MinDelay /\ gap = MinDelay
    BY DEF Init, SenderInit
  <2>. QED  BY <2>1, <2>2, SenderAssumption DEF LineInv, SenderTypeOK, NoCall
<1>3. DeletionTyped /\ Planned
  BY DeletionAssumption DEF Init, SenderInit, DeletionTyped, Planned, NoEarlyDelete
<1>. QED  BY <1>1, <1>2, <1>3 DEF DeletionInv, TypeOK, LineInv, DeletionTyped

LEMMA DeletionKeeps == DeletionInv /\ [Next]_vars => DeletionInv'
<1> SUFFICES ASSUME DeletionInv, [Next]_vars PROVE DeletionInv'  OBVIOUS
<1>1. SpacingInv' /\ LineInv'
  BY EveryStepIsASenderMove, SenderMoveKeeps, LineKeeps DEF DeletionInv
<1>2. Goal
  BY HandlersPlan, SchedulePlans, WorkerPlans, OthersPlan DEF Next, HandlerStep
<1>. QED  BY <1>1, <1>2 DEF DeletionInv, Goal, TypeOK, LineInv, DeletionTyped

\* The worker takes a message only after a time set for it, for any messages, times to live
\* and delays, in Redis or in memory, across errors of the loop and restarts (_drain_redis,
\* _drain_memory); and the line of the chat has each waiting caller once.
THEOREM NothingIsDeletedEarly == Spec => []Inv
<1>1. DeletionInv => Inv
  BY DEF DeletionInv, Planned, Inv
<1>. QED  BY <1>1, DeletionBegins, DeletionKeeps, PTL DEF Spec
=============================================================================
