---------------------------- MODULE LeadDialogs ----------------------------
(***************************************************************************)
(* The ForceReply dialogs of one manager in the group: the amount, the     *)
(* reason, the note and the time that the CRM bot asks for.                *)
(*                                                                         *)
(* aiogram keeps one FSM context for the manager: a state, which selects   *)
(* the handler of the manager's next message, and data with one lead and   *)
(* one prompt.  Handlers are coroutines: they interleave at every access   *)
(* to the context and every call of Telegram, and nothing keeps two of     *)
(* them apart.                                                             *)
(***************************************************************************)
EXTENDS Integers, Sequences, FiniteSets

CONSTANTS Leads,
          Handlers,    \* updates of this manager handled at the same time
          Kinds,       \* the dialogs in use
          MaxFails,    \* bound on the handlers that fail
          MaxPrompts,  \* bound on the prompts sent
          MaxMenus,    \* bound on the menus in the chat
          None

AllKinds == {"amount", "note", "time", "reason"}

ASSUME DialogsAssumption ==
    /\ Kinds \subseteq AllKinds /\ MaxFails \in Nat
    /\ MaxPrompts \in Nat /\ MaxMenus \in Nat /\ None \notin Leads

VARIABLES
    state,    \* FSM state: "none", "menu" (waiting_for_reason) or a kind
    data,     \* FSM data: the lead and the prompt's message, 0 for none
    prompts,  \* the prompts sent: the lead and the kind they name
    shown,    \* those still in the chat
    menus,    \* the menus in the chat: kind and lead of their buttons
    pc, job,  \* what a handler is doing
    applied,  \* history: the inputs taken since the context was cleared
    opened,   \* history: leads turned to since then
    muddled,  \* history: handlers have overlapped or failed since then
    answered, \* history: prompts whose answer has been dealt with
    again,    \* history: those to which another answer got through
    expired,  \* history: prompts deleted by their TTL
    fails     \* history: handlers that have failed

fsm     == <<state, data>>
chat    == <<prompts, shown, menus, expired>>
session == <<applied, opened, muddled>>
used    == <<answered, again>>
vars    == <<fsm, chat, pc, job, session, used, fails>>

NoData == [lead |-> None, prompt |-> 0]
NoJob  == [kind |-> "none", lead |-> None, prompt |-> 0]

Init ==
    /\ state = "none" /\ data = NoData
    /\ prompts = <<>> /\ shown = {} /\ menus = {} /\ expired = {}
    /\ pc  = [h \in Handlers |-> "idle"]
    /\ job = [h \in Handlers |-> NoJob]
    /\ applied = {} /\ opened = {} /\ muddled = FALSE
    /\ answered = {} /\ again = {} /\ fails = 0

Goto(h, label) == pc' = [pc EXCEPT ![h] = label]

\* The handler returns, or fails.
End(h) == /\ Goto(h, "idle")
          /\ job' = [job EXCEPT ![h] = NoJob]

\* A menu is sent.
Show(m) == /\ menus' = menus \cup {m}
           /\ Cardinality(menus') <= MaxMenus

\* No other handler is at work.
Alone(h) == \A g \in Handlers \ {h} : pc[g] = "idle"

Begin(h, label, k, l, p) ==
    /\ pc[h] = "idle"
    /\ muddled' = (muddled \/ ~ Alone(h))
    /\ Goto(h, label)
    /\ job' = [job EXCEPT ![h] = [kind |-> k, lead |-> l, prompt |-> p]]

-----------------------------------------------------------------------------
(* Buttons                                                                 *)

\* "paid", "note": set_state.  "reject" is followed by the menu of reasons.
Click(h, k, l) ==
    /\ k \in Kinds \cap {"amount", "note", "reason"}
    /\ Begin(h, "chosen", k, l, 0)
    /\ state'  = IF k = "reason" THEN "menu" ELSE k
    /\ opened' = opened \cup {l}
    /\ UNCHANGED <<data, chat, applied, used>>

KeepLead(h) ==  \* mutant: an open dialog keeps its lead
    /\ pc[h] = "chosen"
    /\ data' = IF data.lead = None THEN [data EXCEPT !.lead = job[h].lead] ELSE data
    /\ Goto(h, IF state = "menu" THEN "menu" ELSE "prompting")
    /\ UNCHANGED <<state, chat, job, session, used>>

\* update_data(lead_id).
StoreLead(h) ==
    /\ pc[h] = "chosen"
    /\ data' = [data EXCEPT !.lead = job[h].lead]
    /\ Goto(h, IF job[h].kind = "reason" THEN "menu" ELSE "prompting")
    /\ UNCHANGED <<state, chat, job, session, used>>

SendMenu(h) ==
    /\ pc[h] = "menu"
    /\ Show(<<"reason", job[h].lead>>)
    /\ End(h)
    /\ UNCHANGED <<fsm, prompts, shown, expired, session, used>>

\* "remind": only a menu.
ClickRemind(h, l) ==
    /\ "time" \in Kinds /\ pc[h] = "idle"
    /\ Show(<<"time", l>>)
    /\ UNCHANGED <<fsm, prompts, shown, expired, pc, job, session, used>>

\* "custom" in a menu: the menu of times stores its lead, that of reasons does not.
ChooseCustom(h, k, l) ==
    /\ <<k, l>> \in menus /\ k \in {"reason", "time"}
    /\ Begin(h, IF k = "time" THEN "chosen" ELSE "prompting", k, l, 0)
    /\ state'  = k
    /\ opened' = IF k = "time" THEN opened \cup {l} ELSE opened
    /\ UNCHANGED <<data, chat, applied, used>>

\* A reason of the menu: reject_lead succeeds, and the context is cleared.
ChooseReason(h, l) ==
    /\ <<"reason", l>> \in menus
    /\ Begin(h, "clearing", "reason", l, 0)
    /\ UNCHANGED <<fsm, chat, applied, opened, used>>

\* A time of the menu: the reminder is set, or the manager asked to replace one.
ChooseTime(h, l) ==
    /\ <<"time", l>> \in menus /\ pc[h] = "idle"
    /\ \/ menus' = menus \ {<<"time", l>>}
       \/ menus' = (menus \ {<<"time", l>>}) \cup {<<"replace", l>>}
    /\ UNCHANGED <<fsm, prompts, shown, expired, pc, job, session, used>>

\* remind_replace, confirmed or cancelled.
AnswerReplace(h, l) ==
    /\ <<"replace", l>> \in menus
    /\ Begin(h, "clearing", "replace", l, 0)
    /\ UNCHANGED <<fsm, chat, applied, opened, used>>

-----------------------------------------------------------------------------
(* start_force_reply                                                       *)

\* The menu is tidied up and the previous prompt deleted.
DropOld(h) ==
    /\ pc[h] = "prompting"
    /\ menus' = menus \ {<<job[h].kind, job[h].lead>>}
    /\ shown' = shown \ {data.prompt}
    /\ Goto(h, "posting")
    /\ UNCHANGED <<fsm, prompts, expired, job, session, used>>

Post(h) ==
    /\ pc[h] = "posting" /\ Len(prompts) < MaxPrompts
    /\ prompts' = Append(prompts, [lead |-> job[h].lead, kind |-> job[h].kind])
    /\ shown' = shown \cup {Len(prompts')}
    /\ job' = [job EXCEPT ![h].prompt = Len(prompts')]
    /\ Goto(h, "posted")
    /\ UNCHANGED <<fsm, menus, expired, session, used>>

RememberFirst(h) ==  \* mutant: the prompt in the context is not replaced
    /\ pc[h] = "posted"
    /\ data' = IF data.prompt = 0 THEN [data EXCEPT !.prompt = job[h].prompt] ELSE data
    /\ End(h)
    /\ UNCHANGED <<state, chat, session, used>>

Remember(h) ==
    /\ pc[h] = "posted"
    /\ data' = [data EXCEPT !.prompt = job[h].prompt]
    /\ End(h)
    /\ UNCHANGED <<state, chat, session, used>>

-----------------------------------------------------------------------------
(* Messages                                                                *)

\* A message that replies to a prompt, which may be gone when it arrives: the
\* state selects the handler.
Reply(h, p) ==
    /\ state \in AllKinds
    /\ Begin(h, "dispatched", state, None, p)
    /\ UNCHANGED <<fsm, chat, applied, opened, used>>

\* The message is taken for the answer to the prompt.
Accept(h) ==
    /\ again' = again \cup ({job[h].prompt} \cap answered)
    /\ Goto(h, "guarded") /\ UNCHANGED job

GuardAnyReply(h) ==  \* mutant: a reply to any prompt will do
    /\ pc[h] = "dispatched"
    /\ Accept(h)
    /\ UNCHANGED <<fsm, chat, session, answered>>

\* is_force_reply.  What is not a reply to the prompt is deleted from the chat; an
\* input that cannot be read is deleted and asked for again.
Guard(h) ==
    /\ pc[h] = "dispatched"
    /\ \/ data.prompt = job[h].prompt /\ Accept(h)
       \/ End(h) /\ UNCHANGED again
    /\ UNCHANGED <<fsm, chat, session, answered>>

GetLead(h) ==
    /\ pc[h] = "guarded"
    /\ job' = [job EXCEPT ![h].lead = data.lead]
    /\ Goto(h, IF data.lead = None THEN "cleaning" ELSE "applying")
    /\ UNCHANGED <<fsm, chat, session, used>>

Applied(h) ==
    /\ pc[h] = "applying"
    /\ applied' = applied \cup {job[h]}
    /\ Goto(h, "cleaning")
    /\ UNCHANGED <<fsm, chat, job, opened, muddled, used>>

\* The manager may not act on the lead, or the transition fails.
NotApplied(h) ==
    /\ pc[h] = "applying"
    /\ Goto(h, "cleaning")
    /\ UNCHANGED <<fsm, chat, job, session, used>>

\* The lead has a reminder already: another menu, and the data stays.
AskReplace(h) ==
    /\ pc[h] = "applying" /\ job[h].kind = "time"
    /\ Show(<<"replace", job[h].lead>>)
    /\ job' = [job EXCEPT ![h].kind = "replaceMenu"]
    /\ Goto(h, "cleaning")
    /\ UNCHANGED <<fsm, prompts, shown, expired, session, used>>

\* /cancel
Cancel(h) ==
    /\ Begin(h, "cleaning", "cancel", None, 0)
    /\ UNCHANGED <<fsm, chat, applied, opened, used>>

\* cleanup_force_reply: get_data, the messages are deleted, update_data.
CleanUp(h) ==
    /\ pc[h] = "cleaning"
    /\ shown' = shown \ {data.prompt}
    /\ Goto(h, "cleaned")
    /\ UNCHANGED <<fsm, prompts, menus, expired, job, session, used>>

ForgetPrompt(h) ==
    /\ pc[h] = "cleaned"
    /\ data' = [data EXCEPT !.prompt = 0]
    /\ answered' = answered \cup ({job[h].prompt} \ {0})
    /\ Goto(h, "clearing")
    /\ UNCHANGED <<state, chat, job, session, again>>

\* The context is empty.  What a handler had in hand before is still to come.
InHand(h) == {job[g].lead : g \in {g \in Handlers \ {h} : pc[g] \in {"chosen", "applying"}}}
Emptied(h) ==
    /\ applied' = {} /\ opened' = InHand(h)
    /\ muddled' = ~ Alone(h)

ClearStateOnly(h) ==  \* mutant: set_state(None) for clear()
    /\ pc[h] = "clearing"
    /\ state' = "none" /\ Emptied(h)
    /\ menus' = menus \ {<<job[h].kind, job[h].lead>>}
    /\ End(h)
    /\ UNCHANGED <<data, prompts, shown, expired, used>>

\* state.clear(); after AskReplace only set_state.
Clear(h) ==
    /\ pc[h] = "clearing"
    /\ state' = "none"
    /\ IF job[h].kind = "replaceMenu" THEN UNCHANGED <<data, session>>
       ELSE data' = NoData /\ Emptied(h)
    /\ menus' = menus \ {<<job[h].kind, job[h].lead>>}
    /\ End(h)
    /\ UNCHANGED <<prompts, shown, expired, used>>

-----------------------------------------------------------------------------
(* Failures                                                                *)

\* Telegram refuses, a query fails or the process dies: the handler ends.  The
\* context outlives the process in Redis.
Fails(h) ==
    /\ pc[h] # "idle"
    /\ fails < MaxFails /\ fails' = fails + 1
    /\ muddled' = TRUE
    /\ End(h)
    /\ UNCHANGED <<fsm, chat, applied, opened, used>>

\* schedule_delete: TTL_INPUT_SEC, TTL_MENU_SEC.
ExpirePrompt(p) ==
    /\ p \in shown
    /\ shown' = shown \ {p} /\ expired' = expired \cup {p}
    /\ UNCHANGED <<fsm, prompts, menus, pc, job, session, used>>

ExpireMenu(m) ==
    /\ m \in menus
    /\ menus' = menus \ {m}
    /\ UNCHANGED <<fsm, prompts, shown, expired, pc, job, session, used>>

Step(h) ==
    \/ StoreLead(h) \/ SendMenu(h)
    \/ DropOld(h) \/ Post(h) \/ Remember(h)
    \/ Guard(h) \/ GetLead(h) \/ Applied(h) \/ NotApplied(h) \/ AskReplace(h)
    \/ CleanUp(h) \/ ForgetPrompt(h) \/ Clear(h)

User(h) ==
    \/ \E l \in Leads :
          \/ \E k \in AllKinds : Click(h, k, l) \/ ChooseCustom(h, k, l)
          \/ ClickRemind(h, l) \/ ChooseReason(h, l) \/ ChooseTime(h, l)
          \/ AnswerReplace(h, l)
    \/ \E p \in DOMAIN prompts : Reply(h, p)
    \/ Cancel(h)

Next ==
    \/ /\ \/ \E h \in Handlers : Step(h) \/ User(h)
          \/ \E p \in shown : ExpirePrompt(p)
          \/ \E m \in menus : ExpireMenu(m)
       /\ UNCHANGED fails
    \/ \E h \in Handlers : Fails(h)

Spec == Init /\ [][Next]_vars

-----------------------------------------------------------------------------
(* Properties                                                              *)

Jobs == [kind : AllKinds \cup {"none", "cancel", "replace", "replaceMenu"},
         lead : Leads \cup {None}, prompt : 0 .. MaxPrompts]

\* The types; a prompt that is in the chat has been sent.
TypeOK ==
    /\ state \in AllKinds \cup {"none", "menu"}
    /\ data \in [lead : Leads \cup {None}, prompt : 0 .. Len(prompts)]
    /\ prompts \in Seq([lead : Leads, kind : AllKinds]) /\ Len(prompts) <= MaxPrompts
    /\ shown \subseteq DOMAIN prompts /\ expired \subseteq DOMAIN prompts
    /\ menus \subseteq {"reason", "time", "replace"} \X Leads
    /\ pc \in [Handlers -> {"idle", "chosen", "menu", "prompting", "posting", "posted",
                            "dispatched", "guarded", "applying", "cleaning", "cleaned",
                            "clearing"}]
    /\ job \in [Handlers -> Jobs]
    /\ applied \subseteq Jobs /\ opened \subseteq Leads /\ muddled \in BOOLEAN
    /\ answered \subseteq DOMAIN prompts /\ again \subseteq answered
    /\ fails \in 0 .. MaxFails

\* The lead and the dialog that the prompt names.
Reaches(a) == prompts[a.prompt] = [lead |-> a.lead, kind |-> a.kind]

\* docs/commands.md:22: "(ForceReply-...) ... of a particular lead".  What the manager
\* answers to a prompt is done to the lead the prompt names, and is what it asks for.
ReplyReachesItsLead == \A a \in applied : Reaches(a)

\* The same for every dialog but the reason, as long as the handlers of the manager's
\* updates have neither overlapped nor failed since the context was last cleared.  What
\* they have muddled before does no harm any more.
TypedReplyReachesItsLead ==
    ~ muddled =>
        \A a \in applied : prompts[a.prompt].kind # "reason" /\ a.kind # "reason" => Reaches(a)

\* An answer is used once: when the handler of one has tidied up, no other reply to its
\* prompt gets through, whichever handlers overlap or fail.
AnsweredOnce == again = {}

\* The state is sound, and no answer used twice.
Inv == TypeOK /\ AnsweredOnce

\* When the bot waits for an input, it has asked for it, unless handlers have overlapped
\* or failed since the context was last cleared: the prompt in the context names what is
\* awaited, and is in the chat until its TTL.  Otherwise every message of the manager
\* would be deleted as garbage.
AwaitedIsAsked ==
    (~ muddled /\ state \in AllKinds /\ \A h \in Handlers : pc[h] = "idle") =>
        /\ data.prompt # 0
        /\ data.prompt \in shown \cup expired
        /\ prompts[data.prompt].kind = state

\* After /cancel, or the end of a dialog, no input is done to a lead that the manager
\* has not turned to since, even by a menu that is still in the chat, and whichever
\* handlers overlap or fail; but for a click or an answer whose handler had the lead in
\* hand when the context was cleared.
CancelledIsForgotten ==
    [][\A a \in applied' \ applied : a.lead \in opened]_vars
=============================================================================
