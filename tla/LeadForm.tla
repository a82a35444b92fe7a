------------------------------ MODULE LeadForm ------------------------------
(***************************************************************************)
(* The form by which a manager enters a lead in the group.  The bot asks   *)
(* for one field after another, shows what it has, and creates the lead    *)
(* when its button is pressed.  State and data are the manager's one FSM   *)
(* context, which the dialogs of LeadDialogs use as well.  Handlers are    *)
(* coroutines that interleave at every access to the context and every     *)
(* call of Telegram.                                                       *)
(*                                                                         *)
(* The value of a field is the form it was typed for.  A prompt is named   *)
(* by its form and field: the same question put twice is one prompt.       *)
(***************************************************************************)
EXTENDS Naturals, Sequences, FiniteSets, SequencesExt

CONSTANTS Handlers,  \* updates of this manager handled at the same time
          MaxForms,  \* bound on the forms begun
          MaxFails   \* bound on the handlers that fail

ASSUME FormAssumption == IsFiniteSet(Handlers) /\ MaxForms \in Nat \ {0} /\ MaxFails \in Nat

VARIABLES
    step,      \* FSM state: a field, "confirm", "none", or "other" (a dialog about a lead)
    data,      \* FSM data: the fields
    prompt,    \* FSM data: force_reply_prompt_id
    asked,     \* the prompts sent, with a skip menu where there is one
    offers,    \* the confirmation messages: the data each shows
    op,        \* what a handler does
    forms,     \* forms begun
    leads,     \* leads created: their data and what the pressed message showed
    count,     \* leads created of each form
    overlap,   \* history: handlers have run at the same time: "none", "presses" (of a
               \* confirmation, and nothing else) or "any"
    fails      \* handlers that have failed

formVars == <<step, data, prompt, asked, offers, op, forms, leads, count, overlap, fails>>

Asks     == <<"name", "phone", "email", "service", "comment">>
Fields   == Range(Asks)
Optional == {"email", "service"}
After(f) == IF f = Last(Asks) THEN "confirm" ELSE Asks[CHOOSE i \in 2 .. Len(Asks) : Asks[i - 1] = f]

Forms    == 1 .. MaxForms
NoField  == 0
NoData   == [f \in Fields |-> NoField]
NoPrompt == <<0, "none">>
Prompts  == Forms \X Fields
Idle     == [at |-> "idle", field |-> "none", form |-> 0, prompt |-> NoPrompt,
             data |-> NoData, offer |-> NoData]

FormTypeOK ==
    /\ step \in Fields \cup {"none", "confirm", "other"}
    /\ data \in [Fields -> {NoField} \cup Forms]
    /\ prompt \in asked \cup {NoPrompt}
    /\ asked \subseteq Prompts
    /\ offers \subseteq [Fields -> {NoField} \cup Forms]
    /\ \A h \in Handlers : op[h] # Idle => op[h].at \in
          {"clear", "begin", "guard", "check", "store", "advance", "forget", "post",
           "remember", "offer", "read", "create", "cancel", "leave"}
    /\ forms \in 0 .. MaxForms /\ fails \in 0 .. MaxFails /\ overlap \in {"none", "presses", "any"}

FormInit ==
    /\ step = "none" /\ data = NoData /\ prompt = NoPrompt
    /\ asked = {} /\ offers = {} /\ leads = {} /\ forms = 0 /\ fails = 0
    /\ op = [h \in Handlers |-> Idle]
    /\ count = [f \in Forms |-> 0]
    /\ overlap = "none"

context == <<step, data, prompt>>
chat    == <<asked, offers>>
made    == <<leads, count>>

-----------------------------------------------------------------------------
(* Updates that reach a handler                                            *)

Begins(h, what) ==
    /\ op[h] = Idle
    /\ op' = [op EXCEPT ![h] = what]
    /\ overlap' = IF \A g \in Handlers : op[g] = Idle THEN overlap
                  ELSE IF /\ overlap # "any"
                          /\ \A g \in Handlers : op'[g] = Idle \/ op'[g].offer # NoData
                       THEN "presses" ELSE "any"
    /\ UNCHANGED <<context, chat, made, fails>>

\* "menu:create", for a manager.
PressCreate(h) ==
    /\ forms + Cardinality({g \in Handlers : op[g].at = "clear"}) < MaxForms
    /\ Begins(h, [Idle EXCEPT !.at = "clear"])
    /\ UNCHANGED forms

\* A reply to a prompt, which may be gone by now: the state selects the handler.
Reply(h, p) ==
    /\ p \in asked /\ step \in Fields
    /\ \/ Begins(h, [Idle EXCEPT !.at = "guard", !.field = step, !.form = p[1], !.prompt = p])
       \/ Begins(h, [Idle EXCEPT !.at = "guard", !.prompt = p])  \* "отмена"
    /\ UNCHANGED forms

\* A button of a skip menu, of an earlier form perhaps: what follows is typed for the last.
PressSkip(h, p) ==
    /\ p \in asked /\ p[2] \in Optional
    /\ Begins(h, [Idle EXCEPT !.at = "check", !.field = p[2], !.form = forms])
    /\ UNCHANGED forms

\* A button of a confirmation, or /cancel (or "отмена" where a button is awaited).
PressConfirm(h, o) ==
    /\ o \in offers
    /\ Begins(h, [Idle EXCEPT !.at = "read", !.offer = o])
    /\ UNCHANGED forms

Cancels(h) ==
    /\ step # "none" \/ offers # {}
    /\ Begins(h, [Idle EXCEPT !.at = "cancel"])
    /\ UNCHANGED forms

\* A dialog about a lead takes the context over, and clears it in the end.
OtherDialog ==
    /\ \/ /\ step # "other"
          /\ step' = "other" /\ prompt' = NoPrompt /\ UNCHANGED data
       \/ /\ step = "other"
          /\ step' = "none" /\ prompt' = NoPrompt /\ data' = NoData
    /\ \A h \in Handlers : op[h] = Idle
    /\ UNCHANGED <<chat, op, forms, made, overlap, fails>>

-----------------------------------------------------------------------------
(* The handlers, step by step                                              *)

Goes(h, at) == op' = [op EXCEPT ![h].at = at]
Ends(h)     == op' = [op EXCEPT ![h] = Idle]

KeepOld(h) ==  \* mutant: the context of an unfinished form is kept
    /\ op[h].at = "clear"
    /\ forms' = forms + 1
    /\ op' = [op EXCEPT ![h].at = "begin", ![h].form = forms']
    /\ UNCHANGED <<context, chat, made, overlap, fails>>

\* state.clear(): another form begins,
Clear(h) ==
    /\ op[h].at = "clear"
    /\ step' = "none" /\ data' = NoData /\ prompt' = NoPrompt
    /\ forms' = forms + 1
    /\ op' = [op EXCEPT ![h].at = "begin", ![h].form = forms']
    /\ UNCHANGED <<chat, made, overlap, fails>>

\* and its first state; start_force_reply follows.
BeginForm(h) ==
    /\ op[h].at = "begin"
    /\ step' = Head(Asks)
    /\ Goes(h, "post")
    /\ UNCHANGED <<data, prompt, chat, forms, made, overlap, fails>>

\* reject_non_force_reply; "отмена" is looked for after it, and so is bad input, which
\* is asked for again.
Guard(h) ==
    /\ op[h].at = "guard"
    /\ IF op[h].prompt # prompt THEN Ends(h)
       ELSE \/ op[h].field = "none" /\ Goes(h, "cancel")
            \/ op[h].field # "none" /\ (Goes(h, "store") \/ Ends(h))
    /\ UNCHANGED <<context, chat, forms, made, overlap, fails>>

\* The state is compared with that of the menu.
CheckSkip(h) ==
    /\ op[h].at = "check"
    /\ IF step = op[h].field
       THEN op' = [op EXCEPT ![h].at = "store", ![h].prompt = NoPrompt]
       ELSE Ends(h)
    /\ UNCHANGED <<context, chat, forms, made, overlap, fails>>

\* update_data(field): what was typed, or nothing ("пропустить").
Store(h) ==
    /\ op[h].at = "store"
    /\ \E v \in {op[h].form, NoField} :
          /\ op[h].prompt = NoPrompt => v = NoField
          /\ v = NoField => op[h].field \in Optional
          /\ data' = [data EXCEPT ![op[h].field] = v]
    /\ Goes(h, "advance")
    /\ UNCHANGED <<step, prompt, chat, forms, made, overlap, fails>>

\* set_state of the next field.
Advance(h) ==
    /\ op[h].at = "advance"
    /\ step' = After(op[h].field)
    /\ Goes(h, "forget")
    /\ UNCHANGED <<data, prompt, chat, forms, made, overlap, fails>>

\* cleanup_force_reply, delete_force_reply_prompt.
Forget(h) ==
    /\ op[h].at = "forget"
    /\ prompt' = NoPrompt
    /\ Goes(h, IF op[h].field = Last(Asks) THEN "offer" ELSE "post")
    /\ UNCHANGED <<step, data, chat, forms, made, overlap, fails>>

\* start_force_reply sends the prompt,
Question(h) == <<op[h].form, IF op[h].field = "none" THEN Head(Asks) ELSE After(op[h].field)>>

Post(h) ==
    /\ op[h].at = "post"
    /\ asked' = asked \cup {Question(h)}
    /\ Goes(h, "remember")
    /\ UNCHANGED <<context, offers, forms, made, overlap, fails>>

RememberLast(h) ==  \* mutant: the prompt remembered is the one that was answered
    /\ op[h].at = "remember"
    /\ prompt' = IF op[h].prompt = NoPrompt THEN Question(h) ELSE op[h].prompt
    /\ Ends(h)
    /\ UNCHANGED <<step, data, chat, forms, made, overlap, fails>>

\* and remembers it.
Remember(h) ==
    /\ op[h].at = "remember"
    /\ prompt' = Question(h)
    /\ Ends(h)
    /\ UNCHANGED <<step, data, chat, forms, made, overlap, fails>>

\* The confirmation shows the data as it is now.  It has no TTL.
Offer(h) ==
    /\ op[h].at = "offer"
    /\ offers' = offers \cup {data}
    /\ Ends(h)
    /\ UNCHANGED <<context, asked, forms, made, overlap, fails>>

\* handle_create_confirm: the data is read, whatever the state and the message.
Complete(d) == \A f \in Fields \ Optional : d[f] # NoField
Read(h) ==
    /\ op[h].at = "read"
    /\ op' = [op EXCEPT ![h].at = IF Complete(data) THEN "create" ELSE "cancel", ![h].data = data]
    /\ UNCHANGED <<context, chat, forms, made, overlap, fails>>

\* The lead is committed (its card: module LeadCards), or the manager is one no more.
CreateLead(h) ==
    /\ op[h].at = "create"
    /\ \/ /\ leads' = leads \cup {[data |-> op[h].data, shown |-> op[h].offer]}
          /\ count' = [count EXCEPT ![op[h].data["name"]] = @ + 1]
          /\ Goes(h, "cancel")
       \/ /\ Goes(h, "cancel")
          /\ UNCHANGED made
    /\ UNCHANGED <<context, chat, forms, overlap, fails>>

\* _cancel_create_flow: the messages go, a confirmation if the delete succeeds,
CancelFlow(h) ==
    /\ op[h].at = "cancel"
    /\ prompt' = NoPrompt
    /\ offers' \in {offers, offers \ {op[h].offer}}
    /\ Goes(h, "leave")
    /\ UNCHANGED <<step, data, asked, forms, made, overlap, fails>>

LeaveState(h) ==  \* mutant: set_state(None) for clear()
    /\ op[h].at = "leave"
    /\ step' = "none" /\ prompt' = NoPrompt
    /\ Ends(h)
    /\ UNCHANGED <<data, chat, forms, made, overlap, fails>>

\* and the context last.
Leave(h) ==
    /\ op[h].at = "leave"
    /\ step' = "none" /\ data' = NoData /\ prompt' = NoPrompt
    /\ Ends(h)
    /\ UNCHANGED <<chat, forms, made, overlap, fails>>

\* Telegram or the database refuses, or the process dies: the handler ends.
Fails(h) ==
    /\ op[h] # Idle
    /\ fails < MaxFails /\ fails' = fails + 1
    /\ Ends(h)
    /\ UNCHANGED <<context, chat, forms, made, overlap>>

Handle(h) ==
    \/ Clear(h) \/ BeginForm(h) \/ Guard(h) \/ CheckSkip(h) \/ Store(h) \/ Advance(h)
    \/ Forget(h) \/ Post(h) \/ Remember(h) \/ Offer(h)
    \/ Read(h) \/ CreateLead(h) \/ CancelFlow(h) \/ Leave(h)

Updates(h) ==
    \/ PressCreate(h) \/ Cancels(h)
    \/ \E p \in Prompts : Reply(h, p) \/ PressSkip(h, p)
    \/ \E o \in offers : PressConfirm(h, o)

FormNext == OtherDialog \/ \E h \in Handlers : Updates(h) \/ Handle(h) \/ Fails(h)

FormSpec == FormInit /\ [][FormNext]_formVars

-----------------------------------------------------------------------------
(* Properties                                                              *)

\* A lead is made of what was typed for one form, whichever messages of earlier forms
\* are pressed and however often, as long as the manager waits for the bot between other
\* inputs (handle_create_lead).
MadeOfOneForm ==
    overlap # "any" => \A l \in leads : Cardinality(Range(l.data) \ {NoField}) = 1

\* The state is sound, and forms are not mixed.
FormInv == FormTypeOK /\ MadeOfOneForm

\* A form makes one lead, and if its button is pressed while it is being handled, one
\* for each press at most: handle_create_confirm clears the form last.  (A reply handled
\* at the same time may bring a cleared form back.)
OneLeadPerForm ==
    fails = 0 => \A f \in Forms : /\ overlap = "none" => count[f] <= 1
                                  /\ overlap = "presses" => count[f] <= Cardinality(Handlers)

\* For a manager who waits for the bot but to press a confirmation again, while nothing
\* fails: when the bot awaits a field, the prompt that may be answered asks for it, and
\* when it awaits the confirmation, one is in the chat that shows the data.
AwaitedIsAsked ==
    (overlap # "any" /\ fails = 0 /\ \A h \in Handlers : op[h] = Idle) =>
        /\ step \in Fields => prompt[2] = step
        /\ step = "confirm" => data \in offers

\* lead_callbacks_create.py:68: "Check the lead before it is created".  The lead is the
\* one its confirmation showed.
ConfirmedIsShown == \A l \in leads : l.data = l.shown
=============================================================================
