------------------------- MODULE LeadDialogs_proofs -------------------------
(***************************************************************************)
(* The dialogs about leads, for any leads, menus and prompts, and any      *)
(* handlers at the same time: the types; that an answer is used once; that *)
(* a lead the manager has left gets no input; and, from where the context  *)
(* was cleared to where handlers overlap or fail, that an answer reaches   *)
(* the lead its prompt names, and that what is awaited was asked.          *)
(***************************************************************************)
EXTENDS LeadDialogs, TLAPS

Labels  == {"idle", "chosen", "menu", "prompting", "posting", "posted", "dispatched", "guarded",
            "applying", "cleaning", "cleaned", "clearing"}
Prompts == [lead : Leads, kind : AllKinds]

\* What a handler has at a place, whatever runs beside it.
Sound(h) ==
    /\ pc[h] \in {"chosen", "menu", "prompting", "posting", "posted"} =>
          job[h].kind \in AllKinds /\ job[h].lead \in Leads
    /\ pc[h] \in {"dispatched", "guarded", "applying"} =>
          job[h].kind \in AllKinds /\ job[h].prompt \in DOMAIN prompts
    /\ pc[h] = "applying" => job[h].lead \in Leads
    /\ pc[h] = "posted" =>
          /\ job[h].prompt \in DOMAIN prompts
          /\ prompts[job[h].prompt] = [lead |-> job[h].lead, kind |-> job[h].kind]

TypeInv ==
    /\ TypeOK
    /\ \A h \in Handlers : Sound(h) /\ job[h].prompt \in 0 .. Len(prompts)
    /\ applied \subseteq [kind : AllKinds, lead : Leads, prompt : DOMAIN prompts]

\* The context holds no lead but those turned to since it was cleared.
OpenedInv ==
    /\ data.lead # None => data.lead \in opened
    /\ \A h \in Handlers : pc[h] \in {"chosen", "applying"} => job[h].lead \in opened

\* A prompt that has left the context does not come back: it is not one that a handler has
\* sent and will store, and such prompts differ from all that are worked on.
PromptInv ==
    /\ again = {} /\ data.prompt \notin answered
    /\ \A h \in Handlers : pc[h] = "posted" =>
          /\ job[h].prompt \notin answered /\ job[h].prompt # data.prompt
          /\ \A g \in Handlers \ {h} :
                pc[g] \in {"posted", "guarded", "applying", "cleaning", "cleaned"} =>
                    job[g].prompt # job[h].prompt

\* The prompt in the context asks for what the state awaits, of the context's lead.
Prompted ==
    /\ data.prompt \in shown \cup expired
    /\ prompts[data.prompt].kind = state
    /\ state # "reason" => prompts[data.prompt].lead = data.lead

\* What is awaited was asked.
Asked == state \notin AllKinds \/ Prompted

\* How far a dialog has come, when no other handler has touched the context.
Follows(h) ==
    /\ pc[h] \in {"idle", "dispatched", "guarded", "applying"} => Asked
    /\ pc[h] \in {"dispatched", "guarded", "applying"} => state = job[h].kind
    /\ pc[h] \in {"guarded", "applying"} => data.prompt = job[h].prompt
    /\ pc[h] = "applying" => data.lead = job[h].lead
    /\ pc[h] = "chosen" => state = IF job[h].kind = "reason" THEN "menu" ELSE job[h].kind
    /\ pc[h] = "menu" => state = "menu"
    /\ pc[h] \in {"prompting", "posting", "posted"} =>
          state = job[h].kind /\ (state # "reason" => data.lead = job[h].lead)
    /\ pc[h] = "posted" => job[h].prompt \in shown \cup expired

\* As long as the context is not muddled, one handler at most is at work on it.
DialogInv == ~ muddled =>
    /\ \A g, h \in Handlers : g # h => pc[g] = "idle" \/ pc[h] = "idle"
    /\ \A h \in Handlers : pc[h] # "idle" => Follows(h)
    /\ (\A h \in Handlers : pc[h] = "idle") => Asked
    /\ TypedReplyReachesItsLead

IInv == TypeInv /\ OpenedInv /\ PromptInv /\ DialogInv

-----------------------------------------------------------------------------
(* Types                                                                   *)

LEMMA TypeFacts ==
    ASSUME TypeInv
    PROVE  /\ state \in AllKinds \cup {"none", "menu"}
           /\ data.lead \in Leads \cup {None} /\ data.prompt \in 0 .. Len(prompts)
           /\ data = [lead |-> data.lead, prompt |-> data.prompt]
           /\ prompts \in Seq(Prompts) /\ Len(prompts) \in 0 .. MaxPrompts /\ DOMAIN prompts = 1 .. Len(prompts)
           /\ shown \subseteq DOMAIN prompts /\ expired \subseteq DOMAIN prompts
           /\ menus \subseteq {"reason", "time", "replace"} \X Leads
           /\ pc \in [Handlers -> Labels] /\ job \in [Handlers -> Jobs]
           /\ applied \subseteq [kind : AllKinds, lead : Leads, prompt : DOMAIN prompts]
           /\ applied \subseteq Jobs /\ opened \subseteq Leads /\ muddled \in BOOLEAN
           /\ answered \subseteq DOMAIN prompts /\ again \subseteq answered
           /\ fails \in 0 .. MaxFails
BY DEF TypeInv, TypeOK, Labels, Prompts

\* What a step of a handler leaves alone.
OthersStay(h) == \A g \in Handlers \ {h} : pc'[g] = pc[g] /\ job'[g] = job[g]

\* Prompts that have been sent stay what they are.
Grows == /\ Len(prompts) <= Len(prompts') /\ DOMAIN prompts \subseteq DOMAIN prompts'
         /\ \A i \in DOMAIN prompts : prompts'[i] = prompts[i]

Typed ==
    /\ state' \in AllKinds \cup {"none", "menu"}
    /\ data' \in [lead : Leads \cup {None}, prompt : 0 .. Len(prompts')]
    /\ prompts' \in Seq(Prompts) /\ Len(prompts') <= MaxPrompts
    /\ shown' \subseteq DOMAIN prompts' /\ expired' \subseteq DOMAIN prompts'
    /\ menus' \subseteq {"reason", "time", "replace"} \X Leads
    /\ applied' \subseteq [kind : AllKinds, lead : Leads, prompt : DOMAIN prompts']
    /\ opened' \subseteq Leads /\ muddled' \in BOOLEAN
    /\ answered' \subseteq DOMAIN prompts' /\ again' \subseteq answered'
    /\ fails' \in 0 .. MaxFails

LEMMA TypeKept ==
    ASSUME TypeInv, NEW h \in Handlers, OthersStay(h), Grows, Typed,
           pc' \in [Handlers -> Labels], job' \in [Handlers -> Jobs],
           Sound(h)', job'[h].prompt \in 0 .. Len(prompts')
    PROVE  TypeInv'
<1>1. \A g \in Handlers : Sound(g)'
  BY DEF TypeInv, Sound, OthersStay, Grows
<1>2. \A g \in Handlers : job'[g].prompt \in 0 .. Len(prompts')
  <2>1. ASSUME NEW g \in Handlers, g # h PROVE job'[g].prompt \in 0 .. Len(prompts')
    <3>1. job'[g].prompt \in 0 .. Len(prompts) /\ Len(prompts) <= Len(prompts')
      BY <2>1 DEF OthersStay, TypeInv, Grows
    <3>2. Len(prompts) \in Nat /\ Len(prompts') \in Nat
      BY TypeFacts DEF Typed
    <3>. QED  BY <3>1, <3>2
  <2>. QED  BY <2>1
<1>3. applied' \subseteq Jobs
  <2>1. Len(prompts') \in 0 .. MaxPrompts /\ DOMAIN prompts' = 1 .. Len(prompts') /\ MaxPrompts \in Nat
    BY DialogsAssumption DEF Typed
  <2>. QED  BY <2>1 DEF Typed, Jobs
<1>4. TypeOK'
  BY <1>3 DEF Typed, TypeOK, Labels, Prompts
<1>. QED  BY <1>1, <1>2, <1>4 DEF TypeInv, Typed

LEMMA SamePrompts == ASSUME TypeInv, UNCHANGED prompts PROVE Grows
BY TypeFacts DEF Grows

LEMMA TypedSame ==
    ASSUME TypeInv, UNCHANGED <<prompts, fails>>, state' \in AllKinds \cup {"none", "menu"},
           data' \in [lead : Leads \cup {None}, prompt : 0 .. Len(prompts)],
           shown' \subseteq DOMAIN prompts, expired' \subseteq DOMAIN prompts,
           menus' \subseteq {"reason", "time", "replace"} \X Leads,
           applied' \subseteq [kind : AllKinds, lead : Leads, prompt : DOMAIN prompts],
           opened' \subseteq Leads, muddled' \in BOOLEAN,
           answered' \subseteq DOMAIN prompts, again' \subseteq answered'
    PROVE  Typed
BY TypeFacts DEF Typed

\* A handler moves on with what it has; begins; ends.
LEMMA GotoFacts ==
    ASSUME TypeInv, NEW h \in Handlers, NEW at \in Labels, Goto(h, at)
    PROVE  pc' \in [Handlers -> Labels] /\ pc'[h] = at /\ \A g \in Handlers \ {h} : pc'[g] = pc[g]
BY TypeFacts DEF Goto

LEMMA BeginFacts ==
    ASSUME TypeInv, NEW h \in Handlers, NEW at \in Labels,
           NEW k \in AllKinds \cup {"none", "cancel", "replace", "replaceMenu"},
           NEW l \in Leads \cup {None}, NEW p \in 0 .. Len(prompts), Begin(h, at, k, l, p)
    PROVE  /\ pc' \in [Handlers -> Labels] /\ job' \in [Handlers -> Jobs] /\ OthersStay(h)
           /\ pc[h] = "idle" /\ pc'[h] = at
           /\ job'[h] = [kind |-> k, lead |-> l, prompt |-> p]
           /\ muddled' \in BOOLEAN
<1> DEFINE j == [kind |-> k, lead |-> l, prompt |-> p]
<1>1. j \in Jobs
  BY TypeFacts, DialogsAssumption DEF Jobs
<1>2. job' = [job EXCEPT ![h] = j] /\ Goto(h, at) /\ pc[h] = "idle"
  BY DEF Begin
<1> HIDE DEF j
<1>3. job' \in [Handlers -> Jobs] /\ job'[h] = j /\ \A g \in Handlers \ {h} : job'[g] = job[g]
  BY <1>1, <1>2, TypeFacts
<1>4. muddled' \in BOOLEAN
  BY DEF Begin
<1>. QED  BY <1>2, <1>3, <1>4, GotoFacts DEF OthersStay, j

LEMMA EndFacts ==
    ASSUME TypeInv, NEW h \in Handlers, End(h)
    PROVE  /\ pc' \in [Handlers -> Labels] /\ job' \in [Handlers -> Jobs] /\ OthersStay(h)
           /\ pc'[h] = "idle" /\ job'[h] = NoJob /\ NoJob.prompt = 0
           /\ UNCHANGED prompts => Sound(h)' /\ job'[h].prompt \in 0 .. Len(prompts')
<1>1. NoJob \in Jobs /\ NoJob.prompt = 0
  BY DialogsAssumption DEF NoJob, Jobs
<1>2. Goto(h, "idle") /\ job' = [job EXCEPT ![h] = NoJob]
  BY DEF End
<1>3. job' \in [Handlers -> Jobs] /\ job'[h] = NoJob /\ \A g \in Handlers \ {h} : job'[g] = job[g]
  BY <1>1, <1>2, TypeFacts
<1>4. pc' \in [Handlers -> Labels] /\ pc'[h] = "idle" /\ \A g \in Handlers \ {h} : pc'[g] = pc[g]
  BY <1>2, GotoFacts DEF Labels
<1>5. Sound(h)'
  BY <1>4 DEF Sound
<1>6. UNCHANGED prompts => job'[h].prompt \in 0 .. Len(prompts')
  BY <1>1, <1>3, TypeFacts
<1>. QED  BY <1>1, <1>3, <1>4, <1>5, <1>6 DEF OthersStay

\* A handler moves on, and its job stays.
LEMMA MoveFacts ==
    ASSUME TypeInv, NEW h \in Handlers, NEW at \in Labels, Goto(h, at), UNCHANGED <<job, prompts>>
    PROVE  /\ pc' \in [Handlers -> Labels] /\ job' \in [Handlers -> Jobs] /\ OthersStay(h) /\ pc'[h] = at
           /\ job'[h].prompt \in 0 .. Len(prompts')
BY GotoFacts, TypeFacts DEF OthersStay, TypeInv

LEMMA ShowFacts ==
    ASSUME TypeInv, NEW k \in {"reason", "time", "replace"}, NEW l \in Leads, Show(<<k, l>>)
    PROVE  menus' \subseteq {"reason", "time", "replace"} \X Leads
BY TypeFacts DEF Show

LEMMA TypeInit == Init => TypeInv
<1>. SUFFICES ASSUME Init PROVE TypeInv
  OBVIOUS
<1>1. NoJob \in Jobs /\ NoJob.prompt = 0 /\ NoData \in [lead : Leads \cup {None}, prompt : {0}]
  BY DialogsAssumption DEF NoJob, Jobs, NoData
<1>2. prompts \in Seq(Prompts) /\ Len(prompts) = 0
  BY DEF Init
<1>3. \A h \in Handlers : pc[h] = "idle" /\ job[h] = NoJob
  BY DEF Init
<1>4. /\ shown = {} /\ expired = {} /\ menus = {} /\ applied = {} /\ opened = {} /\ muddled \in BOOLEAN
      /\ answered = {} /\ again = {} /\ fails = 0 /\ MaxFails \in Nat /\ MaxPrompts \in Nat
  BY DialogsAssumption DEF Init
<1>5. /\ state = "none" /\ data = NoData /\ pc = [h \in Handlers |-> "idle"]
      /\ job = [h \in Handlers |-> NoJob]
  BY DEF Init
<1>6. TypeOK
  BY <1>1, <1>2, <1>4, <1>5 DEF TypeOK, Prompts
<1>. QED  BY <1>1, <1>2, <1>3, <1>4, <1>6 DEF TypeInv, Sound

LEMMA TypeStep1 ==
    ASSUME TypeInv, NEW h \in Handlers, Step(h), UNCHANGED fails
    PROVE  TypeInv'
<1>. Sound(h) /\ job[h] \in Jobs /\ job[h].prompt \in 0 .. Len(prompts)
  BY TypeFacts DEF TypeInv
<1> USE DEF fsm, chat, session, used
<1>1. CASE StoreLead(h)
  <2> DEFINE at == IF job[h].kind = "reason" THEN "menu" ELSE "prompting"
  <2>1. pc[h] = "chosen" /\ Goto(h, at) /\ at \in Labels /\ UNCHANGED <<job, prompts>>
    BY <1>1 DEF StoreLead, Labels
  <2>2. pc'[h] = at
    BY <2>1, MoveFacts
  <2>3. Sound(h)'
    BY <2>1, <2>2 DEF Sound
  <2>4. job[h].lead \in Leads
    BY <2>1 DEF Sound
  <2>5. Typed
    BY <1>1, <2>4, TypeFacts, TypedSame DEF StoreLead
  <2>. QED  BY <2>1, <2>3, <2>5, MoveFacts, SamePrompts, TypeKept
<1>2. CASE SendMenu(h)
  <2>1. job[h].lead \in Leads
    BY <1>2 DEF SendMenu, Sound
  <2>2. Typed
    BY <1>2, <2>1, ShowFacts, TypeFacts, TypedSame DEF SendMenu
  <2>. QED  BY <1>2, <2>2, EndFacts, SamePrompts, TypeKept DEF SendMenu
<1>3. ASSUME NEW at \in Labels, Goto(h, at), UNCHANGED <<job, prompts>>, Sound(h)', Typed PROVE TypeInv'
  BY <1>3, MoveFacts, SamePrompts, TypeKept
<1>4. CASE DropOld(h)
  <2>1. pc[h] = "prompting" /\ Goto(h, "posting") /\ UNCHANGED <<job, prompts>> /\ "posting" \in Labels
    BY <1>4 DEF DropOld, Labels
  <2>2. Sound(h)'
    BY <2>1, MoveFacts DEF Sound
  <2>3. Typed
    BY <1>4, TypeFacts, TypedSame DEF DropOld
  <2>. QED  BY <1>3, <2>1, <2>2, <2>3
<1>5. CASE Post(h)
  <2> DEFINE q == [lead |-> job[h].lead, kind |-> job[h].kind]
  <2>0. pc[h] = "posting" /\ Len(prompts) < MaxPrompts /\ prompts' = Append(prompts, q)
        /\ UNCHANGED <<fsm, menus, expired, session, used>>
    BY <1>5 DEF Post
  <2>1. q \in Prompts
    BY <2>0 DEF Sound, Prompts
  <2>2. /\ prompts' \in Seq(Prompts) /\ Len(prompts') = Len(prompts) + 1
        /\ DOMAIN prompts' = 1 .. Len(prompts') /\ prompts'[Len(prompts')] = q
        /\ \A i \in DOMAIN prompts : prompts'[i] = prompts[i]
    BY <2>0, <2>1, TypeFacts
  <2> DEFINE n == Len(prompts')
  <2>3. n \in Nat /\ Len(prompts) \in Nat /\ n = Len(prompts) + 1 /\ n <= MaxPrompts /\ MaxPrompts \in Nat
    BY <2>0, <2>2, TypeFacts, DialogsAssumption
  <2>4. Grows
    BY <2>2, <2>3, TypeFacts DEF Grows
  <2> DEFINE j == [job[h] EXCEPT !.prompt = n]
  <2>5. job' = [job EXCEPT ![h] = j] /\ Goto(h, "posted") /\ shown' = shown \cup {n}
    BY <1>5 DEF Post
  <2>6. j \in Jobs /\ j.prompt = n /\ j.kind = job[h].kind /\ j.lead = job[h].lead
    BY <2>3 DEF Jobs
  <2> HIDE DEF j
  <2>7. job' \in [Handlers -> Jobs] /\ job'[h] = j /\ \A g \in Handlers \ {h} : job'[g] = job[g]
    BY <2>5, <2>6, TypeFacts
  <2>8. pc' \in [Handlers -> Labels] /\ pc'[h] = "posted" /\ OthersStay(h)
    BY <2>5, <2>7, GotoFacts DEF Labels, OthersStay
  <2>9. Sound(h)' /\ job'[h].prompt \in 0 .. Len(prompts')
    BY <2>0, <2>2, <2>3, <2>6, <2>7, <2>8 DEF Sound
  <2>10. Typed
    <3>1. DOMAIN prompts \subseteq DOMAIN prompts' /\ n \in DOMAIN prompts'
      BY <2>2, <2>3, <2>4 DEF Grows
    <3>2. data' \in [lead : Leads \cup {None}, prompt : 0 .. n]
      BY <2>0, <2>3, TypeFacts
    <3>3. applied' \subseteq [kind : AllKinds, lead : Leads, prompt : DOMAIN prompts']
      BY <2>0, <3>1, TypeFacts
    <3>. QED  BY <2>0, <2>2, <2>3, <2>5, <3>1, <3>2, <3>3, TypeFacts DEF Typed
  <2>. QED  BY <2>4, <2>7, <2>8, <2>9, <2>10, TypeKept
<1>6. CASE Remember(h)
  <2>1. Typed
    BY <1>6, TypeFacts, TypedSame DEF Remember
  <2>. QED  BY <1>6, <2>1, EndFacts, SamePrompts, TypeKept DEF Remember
<1>7. CASE Guard(h)
  <2>1. Typed
    BY <1>7, TypeFacts, TypedSame DEF Guard, Accept
  <2>2. CASE End(h)
    BY <1>7, <2>1, <2>2, EndFacts, SamePrompts, TypeKept DEF Guard
  <2>3. CASE Goto(h, "guarded") /\ UNCHANGED job
    <3>1. pc[h] = "dispatched" /\ UNCHANGED <<job, prompts>> /\ "guarded" \in Labels
      BY <1>7, <2>3 DEF Guard, Labels
    <3>2. Sound(h)'
      BY <2>3, <3>1, MoveFacts DEF Sound
    <3>. QED  BY <1>3, <2>1, <2>3, <3>1, <3>2
  <2>. QED  BY <1>7, <2>2, <2>3 DEF Guard, Accept
<1>8. CASE GetLead(h)
  <2> DEFINE at == IF data.lead = None THEN "cleaning" ELSE "applying"
             j == [job[h] EXCEPT !.lead = data.lead]
  <2>1. pc[h] = "guarded" /\ job' = [job EXCEPT ![h] = j] /\ Goto(h, at) /\ at \in Labels /\ UNCHANGED prompts
    BY <1>8 DEF GetLead, Labels
  <2>2. j \in Jobs /\ j.kind = job[h].kind /\ j.prompt = job[h].prompt /\ j.lead = data.lead
    BY TypeFacts DEF Jobs
  <2> HIDE DEF j
  <2>3. job' \in [Handlers -> Jobs] /\ job'[h] = j /\ \A g \in Handlers \ {h} : job'[g] = job[g]
    BY <2>1, <2>2, TypeFacts
  <2>4. pc' \in [Handlers -> Labels] /\ pc'[h] = at /\ OthersStay(h)
    BY <2>1, <2>3, GotoFacts DEF OthersStay
  <2>5. Sound(h)' /\ job'[h].prompt \in 0 .. Len(prompts')
    BY <2>1, <2>2, <2>3, <2>4, TypeFacts DEF Sound
  <2>6. Typed
    BY <1>8, TypeFacts, TypedSame DEF GetLead
  <2>. QED  BY <2>1, <2>3, <2>4, <2>5, <2>6, SamePrompts, TypeKept
<1>9. CASE Applied(h)
  <2>1. pc[h] = "applying" /\ Goto(h, "cleaning") /\ UNCHANGED <<job, prompts>> /\ "cleaning" \in Labels
    BY <1>9 DEF Applied, Labels
  <2>2. job[h] \in [kind : AllKinds, lead : Leads, prompt : DOMAIN prompts]
    BY <2>1 DEF Sound, Jobs
  <2>3. Typed
    BY <1>9, <2>2, TypeFacts, TypedSame DEF Applied
  <2>4. Sound(h)'
    BY <2>1, MoveFacts DEF Sound
  <2>. QED  BY <1>3, <2>1, <2>3, <2>4
<1>10. CASE NotApplied(h)
  <2>1. Goto(h, "cleaning") /\ UNCHANGED <<job, prompts>> /\ "cleaning" \in Labels
    BY <1>10 DEF NotApplied, Labels
  <2>2. Sound(h)'
    BY <2>1, MoveFacts DEF Sound
  <2>3. Typed
    BY <1>10, TypeFacts, TypedSame DEF NotApplied
  <2>. QED  BY <1>3, <2>1, <2>2, <2>3
<1>11. CASE AskReplace(h)
  <2> DEFINE j == [job[h] EXCEPT !.kind = "replaceMenu"]
  <2>1. pc[h] = "applying" /\ job' = [job EXCEPT ![h] = j] /\ Goto(h, "cleaning") /\ UNCHANGED prompts
    BY <1>11 DEF AskReplace
  <2>2. j \in Jobs /\ j.prompt = job[h].prompt /\ job[h].lead \in Leads
    BY <2>1 DEF Jobs, Sound
  <2> HIDE DEF j
  <2>3. job' \in [Handlers -> Jobs] /\ job'[h] = j /\ \A g \in Handlers \ {h} : job'[g] = job[g]
    BY <2>1, <2>2, TypeFacts
  <2>4. pc' \in [Handlers -> Labels] /\ pc'[h] = "cleaning" /\ OthersStay(h)
    BY <2>1, <2>3, GotoFacts DEF OthersStay, Labels
  <2>5. Sound(h)' /\ job'[h].prompt \in 0 .. Len(prompts')
    BY <2>1, <2>2, <2>3, <2>4 DEF Sound
  <2>6. Typed
    BY <1>11, <2>2, ShowFacts, TypeFacts, TypedSame DEF AskReplace
  <2>. QED  BY <2>1, <2>3, <2>4, <2>5, <2>6, SamePrompts, TypeKept
<1>12. CASE CleanUp(h)
  <2>1. Goto(h, "cleaned") /\ UNCHANGED <<job, prompts>> /\ "cleaned" \in Labels
    BY <1>12 DEF CleanUp, Labels
  <2>2. Sound(h)'
    BY <2>1, MoveFacts DEF Sound
  <2>3. Typed
    BY <1>12, TypeFacts, TypedSame DEF CleanUp
  <2>. QED  BY <1>3, <2>1, <2>2, <2>3
<1>13. CASE ForgetPrompt(h)
  <2>1. Goto(h, "clearing") /\ UNCHANGED <<job, prompts>> /\ "clearing" \in Labels
    BY <1>13 DEF ForgetPrompt, Labels
  <2>2. Sound(h)'
    BY <2>1, MoveFacts DEF Sound
  <2>3. data' \in [lead : Leads \cup {None}, prompt : 0 .. Len(prompts)]
    BY <1>13, TypeFacts DEF ForgetPrompt
  <2>4. answered' \subseteq DOMAIN prompts /\ again' \subseteq answered'
    BY <1>13, TypeFacts DEF ForgetPrompt
  <2>5. Typed
    BY <1>13, <2>3, <2>4, TypeFacts, TypedSame DEF ForgetPrompt
  <2>. QED  BY <1>3, <2>1, <2>2, <2>5
<1>14. CASE Clear(h)
  <2>1. data' \in [lead : Leads \cup {None}, prompt : 0 .. Len(prompts)]
    BY <1>14, TypeFacts DEF Clear, NoData
  <2>2. InHand(h) \subseteq Leads
    BY DEF InHand, TypeInv, Sound
  <2>3. opened' \subseteq Leads /\ muddled' \in BOOLEAN /\ applied' \subseteq applied
    BY <1>14, <2>2, TypeFacts DEF Clear, Emptied
  <2>4. Typed
    BY <1>14, <2>1, <2>3, TypeFacts, TypedSame DEF Clear
  <2>. QED  BY <1>14, <2>4, EndFacts, SamePrompts, TypeKept DEF Clear
<1>. QED  BY <1>1, <1>2, <1>4, <1>5, <1>6, <1>7, <1>8, <1>9, <1>10, <1>11, <1>12, <1>13, <1>14 DEF Step

\* What an update of the manager leaves of the context.
LEMMA TypeUser ==
    ASSUME TypeInv, NEW h \in Handlers, User(h), UNCHANGED fails
    PROVE  TypeInv'
<1> USE DEF fsm, chat, session, used
<1>1. ASSUME NEW at \in Labels, NEW k \in AllKinds \cup {"none", "cancel", "replace", "replaceMenu"},
             NEW l \in Leads \cup {None}, NEW p \in 0 .. Len(prompts), Begin(h, at, k, l, p),
             UNCHANGED <<data, chat, applied, used>>, state' \in AllKinds \cup {"none", "menu"},
             opened' \subseteq Leads, at \in {"chosen", "prompting"} => k \in AllKinds /\ l \in Leads,
             at = "dispatched" => k \in AllKinds /\ p \in DOMAIN prompts,
             at \in {"chosen", "prompting", "dispatched", "clearing", "cleaning"}
      PROVE  TypeInv'
  <2>1. Typed
    BY <1>1, BeginFacts, TypeFacts, TypedSame
  <2>2. /\ pc' \in [Handlers -> Labels] /\ job' \in [Handlers -> Jobs] /\ OthersStay(h)
        /\ pc[h] = "idle" /\ pc'[h] = at /\ job'[h] = [kind |-> k, lead |-> l, prompt |-> p]
    BY <1>1, BeginFacts
  <2>3. Sound(h)' /\ job'[h].prompt \in 0 .. Len(prompts')
    BY <1>1, <2>2 DEF Sound
  <2>. QED  BY <1>1, <2>1, <2>2, <2>3, SamePrompts, TypeKept
<1>2. ASSUME UNCHANGED <<pc, job, state, data, prompts, shown, expired, session, used>>,
             menus' \subseteq {"reason", "time", "replace"} \X Leads
      PROVE  TypeInv'
  <2>1. Typed
    BY <1>2, TypeFacts, TypedSame
  <2>. QED  BY <1>2, <2>1, TypeFacts, SamePrompts, TypeKept DEF OthersStay, TypeInv, Sound
<1>. 0 \in 0 .. Len(prompts) /\ {"chosen", "prompting", "dispatched", "clearing", "cleaning"} \subseteq Labels
  BY TypeFacts DEF Labels
<1>3. ASSUME NEW l \in Leads, NEW k \in AllKinds, Click(h, k, l) PROVE TypeInv'
  BY <1>1, <1>3, TypeFacts DEF Click
<1>4. ASSUME NEW l \in Leads, NEW k \in AllKinds, ChooseCustom(h, k, l) PROVE TypeInv'
  BY <1>1, <1>4, TypeFacts DEF ChooseCustom
<1>5. ASSUME NEW l \in Leads, ClickRemind(h, l) PROVE TypeInv'
  BY <1>2, <1>5, ShowFacts DEF ClickRemind
<1>6. ASSUME NEW l \in Leads, ChooseReason(h, l) PROVE TypeInv'
  BY <1>1, <1>6, TypeFacts DEF ChooseReason, AllKinds
<1>7. ASSUME NEW l \in Leads, ChooseTime(h, l) PROVE TypeInv'
  BY <1>2, <1>7, TypeFacts DEF ChooseTime
<1>8. ASSUME NEW l \in Leads, AnswerReplace(h, l) PROVE TypeInv'
  BY <1>1, <1>8, TypeFacts DEF AnswerReplace
<1>9. ASSUME NEW p \in DOMAIN prompts, Reply(h, p) PROVE TypeInv'
  <2>1. p \in 0 .. Len(prompts)
    BY TypeFacts
  <2>. QED  BY <1>1, <1>9, <2>1, TypeFacts DEF Reply
<1>10. CASE Cancel(h)
  BY <1>1, <1>10, TypeFacts DEF Cancel
<1>. QED  BY <1>3, <1>4, <1>5, <1>6, <1>7, <1>8, <1>9, <1>10 DEF User

\* A prompt or a menu is deleted by its TTL.
Expires == /\ shown' \subseteq shown /\ expired' \subseteq expired \cup shown /\ menus' \subseteq menus
           /\ shown \cup expired = shown' \cup expired'
           /\ UNCHANGED <<state, data, prompts, pc, job, session, used, fails>>

LEMMA ExpiresFacts ==
    ASSUME \/ \E p \in shown : ExpirePrompt(p)
           \/ \E m \in menus : ExpireMenu(m),
           UNCHANGED fails
    PROVE  Expires
BY DEF ExpirePrompt, ExpireMenu, Expires, fsm

\* The same for no handler.
LEMMA TypeExpires == ASSUME TypeInv, Expires PROVE TypeInv'
<1>1. TypeOK'
  BY TypeFacts DEF Expires, TypeOK, TypeInv, session, used
<1>. QED  BY <1>1 DEF TypeInv, Expires, Sound, session

LEMMA TypeStep == ASSUME TypeInv, [Next]_vars PROVE TypeInv'
<1>1. ASSUME NEW h \in Handlers, Fails(h) PROVE TypeInv'
  <2>1. Typed
    BY <1>1, TypeFacts, DialogsAssumption DEF Fails, Typed, fsm, chat, used
  <2>2. UNCHANGED prompts /\ End(h)
    BY <1>1 DEF Fails, chat
  <2>. QED  BY <2>1, <2>2, EndFacts, SamePrompts, TypeKept
<1>2. CASE UNCHANGED vars
  BY <1>2 DEF vars, fsm, chat, session, used, TypeInv, TypeOK, Sound
<1>. QED  BY <1>1, <1>2, TypeStep1, TypeUser, ExpiresFacts, TypeExpires DEF Next

\* The types, and that what a handler works on is a lead and a prompt, for any updates that
\* are handled at the same time.
THEOREM DialogsAreTyped == Spec => []TypeInv
BY TypeInit, TypeStep, PTL DEF Spec

-----------------------------------------------------------------------------
(* What a handler's step changes                                           *)

\* What a step begins with is all it has.
LEMMA BeginsAs ==
    ASSUME TypeInv, NEW h \in Handlers, NEW at, NEW k, NEW l, NEW p, Begin(h, at, k, l, p)
    PROVE  /\ pc[h] = "idle" /\ pc'[h] = at
           /\ job'[h].kind = k /\ job'[h].lead = l /\ job'[h].prompt = p
           /\ ~ muddled' => ~ muddled /\ Alone(h)
BY TypeFacts DEF Begin, Goto

LEMMA GoesTo == ASSUME TypeInv, NEW h \in Handlers, NEW at, Goto(h, at) PROVE pc'[h] = at
BY TypeFacts DEF Goto

LEMMA EndsIdle == ASSUME TypeInv, NEW h \in Handlers, End(h) PROVE pc'[h] = "idle" /\ job'[h] = NoJob
BY TypeFacts DEF End, Goto

\* A handler touches no other.
LEMMA StepOthers ==
    ASSUME TypeInv, NEW h \in Handlers, Step(h)
    PROVE  pc[h] # "idle" /\ OthersStay(h)
<1>1. (\E at : Goto(h, at)) /\ (job' = job \/ \E j : job' = [job EXCEPT ![h] = j]) /\ pc[h] # "idle"
  BY DEF Step, StoreLead, SendMenu, DropOld, Post, Remember, Guard, Accept, GetLead, Applied, NotApplied,
         AskReplace, CleanUp, ForgetPrompt, Clear, End
<1>. QED  BY <1>1, TypeFacts DEF OthersStay, Goto

LEMMA BeginOthers ==
    ASSUME TypeInv, NEW h \in Handlers, NEW at, NEW k, NEW l, NEW p, Begin(h, at, k, l, p)
    PROVE  OthersStay(h)
BY TypeFacts DEF Begin, Goto, OthersStay

LEMMA EndOthers == ASSUME TypeInv, NEW h \in Handlers, End(h) PROVE OthersStay(h)
BY TypeFacts DEF End, Goto, OthersStay

-----------------------------------------------------------------------------
(* The leads turned to                                                     *)

LEMMA OpenedKept ==
    ASSUME OpenedInv, NEW h \in Handlers, OthersStay(h), opened \subseteq opened',
           data'.lead # None => data'.lead \in opened',
           pc'[h] \in {"chosen", "applying"} => job'[h].lead \in opened'
    PROVE  OpenedInv'
BY DEF OpenedInv, OthersStay

LEMMA OpenedStep1 == ASSUME TypeInv, OpenedInv, NEW h \in Handlers, Step(h) PROVE OpenedInv'
<1> USE DEF fsm, chat, session, used
<1>. /\ data.lead # None => data.lead \in opened
     /\ pc[h] \in {"chosen", "applying"} => job[h].lead \in opened
     /\ OthersStay(h)
  BY StepOthers DEF OpenedInv
<1>1. CASE StoreLead(h)
  <2>1. pc'[h] \notin {"chosen", "applying"}
    BY <1>1, GoesTo DEF StoreLead
  <2>2. data'.lead = job[h].lead /\ job[h].lead \in opened /\ opened' = opened
    BY <1>1, TypeFacts DEF StoreLead
  <2>. QED  BY <2>1, <2>2, OpenedKept
<1>2. CASE SendMenu(h) \/ Remember(h)
  <2>1. pc'[h] = "idle" /\ opened' = opened /\ data'.lead = data.lead
    BY <1>2, EndsIdle, TypeFacts DEF SendMenu, Remember
  <2>. QED  BY <2>1, OpenedKept
<1>3. CASE DropOld(h) \/ Post(h) \/ CleanUp(h) \/ ForgetPrompt(h) \/ Applied(h) \/ NotApplied(h) \/ AskReplace(h)
  <2>1. pc'[h] \notin {"chosen", "applying"}
    BY <1>3, GoesTo DEF DropOld, Post, CleanUp, ForgetPrompt, Applied, NotApplied, AskReplace
  <2>2. opened' = opened /\ data'.lead = data.lead
    BY <1>3, TypeFacts DEF DropOld, Post, CleanUp, ForgetPrompt, Applied, NotApplied, AskReplace
  <2>. QED  BY <2>1, <2>2, OpenedKept
<1>4. CASE Guard(h)
  <2>1. pc'[h] \notin {"chosen", "applying"}
    BY <1>4, GoesTo, EndsIdle DEF Guard, Accept
  <2>. QED  BY <1>4, <2>1, OpenedKept DEF Guard
<1>5. CASE GetLead(h)
  <2>1. pc'[h] = "applying" => data.lead # None
    BY <1>5, GoesTo DEF GetLead
  <2>2. pc'[h] # "chosen" /\ job'[h].lead = data.lead
    BY <1>5, GoesTo, TypeFacts DEF GetLead, Jobs
  <2>. QED  BY <1>5, <2>1, <2>2, OpenedKept DEF GetLead
<1>6. CASE Clear(h)
  <2>1. pc'[h] = "idle"
    BY <1>6, EndsIdle DEF Clear
  <2>2. CASE UNCHANGED <<data, session>>
    BY <2>1, <2>2, OpenedKept
  <2>3. CASE data' = NoData /\ Emptied(h)
    BY <2>1, <2>3 DEF OpenedInv, OthersStay, Emptied, InHand, NoData
  <2>. QED  BY <1>6, <2>2, <2>3 DEF Clear
<1>. QED  BY <1>1, <1>2, <1>3, <1>4, <1>5, <1>6 DEF Step

LEMMA OpenedStep == ASSUME TypeInv, OpenedInv, [Next]_vars PROVE OpenedInv'
<1> USE DEF fsm, chat, session, used
<1>2. ASSUME NEW h \in Handlers, User(h) PROVE OpenedInv'
  <2>. data.lead # None => data.lead \in opened
    BY DEF OpenedInv
  <2>2. ASSUME NEW l \in Leads, NEW k \in AllKinds, Click(h, k, l) \/ ChooseCustom(h, k, l) PROVE OpenedInv'
    BY <2>2, BeginsAs, BeginOthers, OpenedKept DEF Click, ChooseCustom
  <2>3. ASSUME NEW l \in Leads, ChooseReason(h, l) \/ AnswerReplace(h, l) PROVE OpenedInv'
    BY <2>3, BeginsAs, BeginOthers, OpenedKept DEF ChooseReason, AnswerReplace
  <2>4. ASSUME NEW p \in DOMAIN prompts, Reply(h, p) PROVE OpenedInv'
    BY <2>4, BeginsAs, BeginOthers, OpenedKept DEF Reply
  <2>5. CASE Cancel(h)
    BY <2>5, BeginsAs, BeginOthers, OpenedKept DEF Cancel
  <2>6. ASSUME NEW l \in Leads, ClickRemind(h, l) \/ ChooseTime(h, l) PROVE OpenedInv'
    BY <2>6 DEF ClickRemind, ChooseTime, OpenedInv
  <2>. QED  BY <1>2, <2>2, <2>3, <2>4, <2>5, <2>6 DEF User
<1>3. CASE Expires
  BY <1>3 DEF Expires, OpenedInv
<1>4. ASSUME NEW h \in Handlers, Fails(h) PROVE OpenedInv'
  BY <1>4, EndsIdle, EndOthers, OpenedKept DEF Fails, OpenedInv
<1>5. CASE UNCHANGED vars
  BY <1>5 DEF vars, OpenedInv
<1>. QED  BY OpenedStep1, <1>2, <1>3, <1>4, <1>5, ExpiresFacts DEF Next

-----------------------------------------------------------------------------
(* The prompts that have been answered                                     *)

Working == {"guarded", "applying", "cleaning", "cleaned"}

\* A handler that will store a prompt has sent it.
LEMMA PostedIsSent == ASSUME TypeInv, NEW h \in Handlers, pc[h] = "posted" PROVE job[h].prompt # 0
<1>1. Sound(h)
  BY DEF TypeInv
<1>. QED  BY <1>1, TypeFacts DEF Sound

\* A step that stores no prompt, with no new answer to one.
LEMMA PromptKept ==
    ASSUME TypeInv, PromptInv, NEW h \in Handlers, OthersStay(h), UNCHANGED used,
           data'.prompt \in {0, data.prompt}, pc'[h] # "posted",
           pc'[h] \in Working => \/ job'[h].prompt = 0
                                 \/ pc[h] \in Working /\ job'[h].prompt = job[h].prompt
    PROVE  PromptInv'
<1>1. again' = {} /\ data'.prompt \notin answered'
  BY TypeFacts DEF PromptInv, used
<1>2. ASSUME NEW f \in Handlers, pc'[f] = "posted"
      PROVE  /\ job'[f].prompt \notin answered' /\ job'[f].prompt # data'.prompt
             /\ \A g \in Handlers \ {f} : pc'[g] \in Working \cup {"posted"} => job'[g].prompt # job'[f].prompt
  <2>1. f # h /\ pc[f] = "posted" /\ job'[f] = job[f]
    BY <1>2 DEF OthersStay
  <2>2. job[f].prompt # 0
    BY <2>1, PostedIsSent
  <2>3. job'[f].prompt \notin answered' /\ job'[f].prompt # data'.prompt
    BY <2>1, <2>2 DEF PromptInv, used
  <2>4. ASSUME NEW g \in Handlers \ {f}, pc'[g] \in Working \cup {"posted"} PROVE job'[g].prompt # job'[f].prompt
    <3>1. CASE g = h
      BY <2>1, <2>2, <2>4, <3>1 DEF PromptInv, Working
    <3>2. CASE g # h
      BY <2>1, <2>4, <3>2 DEF PromptInv, OthersStay, Working
    <3>. QED  BY <3>1, <3>2
  <2>. QED  BY <2>3, <2>4
<1>. QED  BY <1>1, <1>2 DEF PromptInv, Working

LEMMA PromptStep1 == ASSUME TypeInv, PromptInv, NEW h \in Handlers, Step(h) PROVE PromptInv'
<1> USE DEF fsm, chat, session
<1>. OthersStay(h) /\ job[h] \in Jobs /\ Sound(h)
  BY StepOthers, TypeFacts DEF TypeInv
<1>1. CASE StoreLead(h) \/ DropOld(h)
  <2>1. pc'[h] \in {"menu", "prompting", "posting"} /\ data'.prompt = data.prompt /\ UNCHANGED used
    BY <1>1, GoesTo, TypeFacts DEF StoreLead, DropOld
  <2>. QED  BY <2>1, PromptKept DEF Working
<1>2. CASE SendMenu(h)
  <2>1. pc'[h] = "idle" /\ data' = data /\ UNCHANGED used
    BY <1>2, EndsIdle DEF SendMenu
  <2>. QED  BY <2>1, PromptKept DEF Working
<1>3. CASE Post(h)
  <2> DEFINE n == Len(prompts')
  <2>1. n = Len(prompts) + 1 /\ Len(prompts) \in Nat
    <3>1. Len(prompts') = Len(prompts) + 1
      BY <1>3, TypeFacts DEF Post
    <3>. QED  BY <3>1, TypeFacts
  <2>2. pc'[h] = "posted" /\ job'[h].prompt = n /\ UNCHANGED <<data, used>>
    BY <1>3, GoesTo, TypeFacts DEF Post, Jobs
  <2>3. n \notin answered /\ n # data.prompt /\ \A g \in Handlers : job[g].prompt # n
    BY <2>1, TypeFacts DEF TypeInv
  <2>. QED  BY <2>2, <2>3 DEF PromptInv, OthersStay, used
<1>4. CASE Remember(h)
  <2>1. pc[h] = "posted" /\ pc'[h] = "idle" /\ data'.prompt = job[h].prompt /\ UNCHANGED used
    BY <1>4, EndsIdle, TypeFacts DEF Remember
  <2>. QED  BY <2>1 DEF PromptInv, OthersStay, used
<1>5. CASE Guard(h)
  <2>1. CASE End(h) /\ UNCHANGED again
    <3>1. pc'[h] = "idle" /\ data' = data /\ UNCHANGED used
      BY <1>5, <2>1, EndsIdle DEF Guard, used
    <3>. QED  BY <3>1, PromptKept DEF Working
  <2>2. CASE data.prompt = job[h].prompt /\ Accept(h)
    <3>1. pc'[h] = "guarded" /\ data' = data /\ job' = job /\ answered' = answered
          /\ again' = again \cup ({data.prompt} \cap answered)
      BY <1>5, <2>2, GoesTo DEF Guard, Accept
    <3>2. again' = {}
      BY <3>1 DEF PromptInv
    <3>. QED  BY <2>2, <3>1, <3>2 DEF PromptInv, OthersStay
  <2>. QED  BY <1>5, <2>1, <2>2 DEF Guard
<1>6. CASE GetLead(h) \/ Applied(h) \/ NotApplied(h) \/ AskReplace(h) \/ CleanUp(h)
  <2>1. /\ pc[h] \in Working /\ pc'[h] \in Working /\ job'[h].prompt = job[h].prompt
        /\ data' = data /\ UNCHANGED used
    BY <1>6, GoesTo, TypeFacts DEF GetLead, Applied, NotApplied, AskReplace, CleanUp, Working, Jobs
  <2>. QED  BY <2>1, PromptKept DEF Working
<1>7. CASE ForgetPrompt(h)
  <2>1. /\ pc[h] = "cleaned" /\ pc'[h] = "clearing" /\ data'.prompt = 0 /\ job' = job /\ again' = again
        /\ answered' = answered \cup ({job[h].prompt} \ {0})
    BY <1>7, GoesTo, TypeFacts DEF ForgetPrompt
  <2>2. 0 \notin answered'
    BY <2>1, TypeFacts
  <2>3. ASSUME NEW f \in Handlers, pc'[f] = "posted"
        PROVE  /\ job'[f].prompt \notin answered' /\ job'[f].prompt # data'.prompt
               /\ \A g \in Handlers \ {f} : pc'[g] \in Working \cup {"posted"} => job'[g].prompt # job'[f].prompt
    <3>1. f # h /\ pc[f] = "posted" /\ job'[f] = job[f]
      BY <2>1, <2>3 DEF OthersStay
    <3>2. job[f].prompt # 0 /\ job[f].prompt # job[h].prompt
      BY <2>1, <3>1, PostedIsSent DEF PromptInv
    <3>. QED  BY <2>1, <3>1, <3>2 DEF PromptInv, OthersStay, Working
  <2>. QED  BY <2>1, <2>2, <2>3 DEF PromptInv, Working
<1>8. CASE Clear(h)
  <2>1. pc'[h] = "idle" /\ data'.prompt \in {0, data.prompt} /\ UNCHANGED used
    BY <1>8, EndsIdle DEF Clear, NoData
  <2>. QED  BY <2>1, PromptKept DEF Working
<1>. QED  BY <1>1, <1>2, <1>3, <1>4, <1>5, <1>6, <1>7, <1>8 DEF Step

LEMMA PromptStep == ASSUME TypeInv, PromptInv, [Next]_vars PROVE PromptInv'
<1> USE DEF fsm, chat, session
<1>1. ASSUME NEW h \in Handlers, User(h) PROVE PromptInv'
  <2>1. ASSUME NEW at \in {"chosen", "prompting", "dispatched", "clearing", "cleaning"}, NEW k, NEW l, NEW p,
               Begin(h, at, k, l, p), UNCHANGED <<data, used>>, at = "cleaning" => p = 0
        PROVE  PromptInv'
    <3>1. pc'[h] = at /\ job'[h].prompt = p /\ OthersStay(h)
      BY <2>1, BeginsAs, BeginOthers
    <3>. QED  BY <2>1, <3>1, PromptKept DEF Working
  <2>2. ASSUME NEW l \in Leads, NEW k \in AllKinds, Click(h, k, l) \/ ChooseCustom(h, k, l) PROVE PromptInv'
    BY <2>1, <2>2 DEF Click, ChooseCustom
  <2>3. ASSUME NEW l \in Leads, ChooseReason(h, l) \/ AnswerReplace(h, l) PROVE PromptInv'
    BY <2>1, <2>3 DEF ChooseReason, AnswerReplace
  <2>4. ASSUME NEW p \in DOMAIN prompts, Reply(h, p) PROVE PromptInv'
    BY <2>1, <2>4 DEF Reply
  <2>5. CASE Cancel(h)
    BY <2>1, <2>5 DEF Cancel
  <2>6. ASSUME NEW l \in Leads, ClickRemind(h, l) \/ ChooseTime(h, l) PROVE PromptInv'
    BY <2>6 DEF ClickRemind, ChooseTime, PromptInv, used
  <2>. QED  BY <1>1, <2>2, <2>3, <2>4, <2>5, <2>6 DEF User
<1>2. CASE Expires
  BY <1>2 DEF Expires, PromptInv, used
<1>3. ASSUME NEW h \in Handlers, Fails(h) PROVE PromptInv'
  <2>1. pc'[h] = "idle" /\ OthersStay(h) /\ UNCHANGED <<data, used>>
    BY <1>3, EndsIdle, EndOthers DEF Fails
  <2>. QED  BY <2>1, PromptKept DEF Working
<1>4. CASE UNCHANGED vars
  BY <1>4 DEF vars, PromptInv, used
<1>. QED  BY PromptStep1, <1>1, <1>2, <1>3, <1>4, ExpiresFacts DEF Next

-----------------------------------------------------------------------------
(* The dialog, as long as the context is not muddled                       *)

\* The one handler at work is all there is to look at.
LEMMA DialogOne ==
    ASSUME NEW h \in Handlers, OthersStay(h),
           ~ muddled' => Alone(h) /\ Follows(h)' /\ TypedReplyReachesItsLead'
    PROVE  DialogInv'
<1> SUFFICES ASSUME ~ muddled', Alone(h), Follows(h)', TypedReplyReachesItsLead' PROVE DialogInv'
  BY DEF DialogInv
<1>1. \A g \in Handlers : g # h => pc'[g] = "idle"
  BY DEF Alone, OthersStay
<1>2. pc'[h] = "idle" => Asked'
  BY DEF Follows
<1>. QED  BY <1>1, <1>2 DEF DialogInv

\* A handler that is at work, and so alone, or that begins alone.
LEMMA AtWorkAlone ==
    ASSUME DialogInv, ~ muddled, NEW h \in Handlers, pc[h] # "idle" \/ Alone(h)
    PROVE  Alone(h) /\ Follows(h) /\ TypedReplyReachesItsLead
<1>1. Alone(h)
  BY DEF DialogInv, Alone
<1>2. CASE pc[h] # "idle"
  BY <1>1, <1>2 DEF DialogInv
<1>3. CASE pc[h] = "idle"
  <2>1. Asked
    BY <1>1, <1>3 DEF DialogInv, Alone
  <2>. QED  BY <1>1, <1>3, <2>1 DEF DialogInv, Follows
<1>. QED  BY <1>2, <1>3

\* A step that takes no input leaves what was applied alone.
LEMMA DialogKept ==
    ASSUME TypeInv, DialogInv, NEW h \in Handlers, OthersStay(h), Grows, UNCHANGED applied,
           ~ muddled' => ~ muddled /\ Alone(h) /\ Follows(h)'
    PROVE  DialogInv'
<1>1. ~ muddled' => TypedReplyReachesItsLead'
  BY TypeFacts DEF DialogInv, TypedReplyReachesItsLead, Reaches, Grows
<1>. QED  BY <1>1, DialogOne

LEMMA DialogStep1 ==
    ASSUME TypeInv, TypeInv', DialogInv, NEW h \in Handlers, Step(h), UNCHANGED fails
    PROVE  DialogInv'
<1> USE DEF fsm, chat, session
<1>. Sound(h) /\ job[h] \in Jobs /\ OthersStay(h) /\ pc[h] # "idle"
  BY TypeFacts, StepOthers DEF TypeInv
<1>0. CASE Clear(h)
  <2>1. pc'[h] = "idle" /\ state' = "none" /\ UNCHANGED prompts
    BY <1>0, EndsIdle DEF Clear
  <2>2. Follows(h)'
    BY <2>1 DEF Follows, Asked, AllKinds
  <2>3. CASE UNCHANGED <<data, session>>
    BY <2>1, <2>2, <2>3, AtWorkAlone, SamePrompts, DialogKept
  <2>4. CASE data' = NoData /\ Emptied(h)
    <3>1. TypedReplyReachesItsLead'
      BY <2>4 DEF Emptied, TypedReplyReachesItsLead
    <3>. QED  BY <2>2, <2>4, <3>1, DialogOne DEF Emptied
  <2>. QED  BY <1>0, <2>3, <2>4 DEF Clear
<1>. SUFFICES ASSUME ~ Clear(h), ~ muddled, Alone(h), Follows(h), TypedReplyReachesItsLead, muddled' = muddled
              PROVE DialogInv'
  <2>1. ~ Clear(h) => muddled' = muddled
    BY DEF Step, StoreLead, SendMenu, DropOld, Post, Remember, Guard, GetLead, Applied, NotApplied,
           AskReplace, CleanUp, ForgetPrompt
  <2>. QED  BY <1>0, <2>1, AtWorkAlone DEF DialogInv
<1>1. CASE StoreLead(h)
  <2>1. pc'[h] = (IF job[h].kind = "reason" THEN "menu" ELSE "prompting") /\ pc[h] = "chosen"
        /\ UNCHANGED <<state, job, applied, prompts>> /\ data'.lead = job[h].lead
        /\ data'.prompt = data.prompt
    BY <1>1, GoesTo, TypeFacts DEF StoreLead
  <2>2. Follows(h)'
    BY <2>1 DEF Follows, Sound, AllKinds
  <2>. QED  BY <2>1, <2>2, SamePrompts, DialogKept
<1>2. CASE SendMenu(h)
  <2>1. pc'[h] = "idle" /\ pc[h] = "menu" /\ UNCHANGED <<state, data, applied, prompts>>
    BY <1>2, EndsIdle DEF SendMenu
  <2>2. Follows(h)'
    BY <2>1 DEF Follows, Asked, AllKinds
  <2>. QED  BY <2>1, <2>2, SamePrompts, DialogKept
<1>3. CASE DropOld(h)
  <2>1. pc'[h] = "posting" /\ pc[h] = "prompting" /\ UNCHANGED <<state, data, job, applied, prompts>>
    BY <1>3, GoesTo DEF DropOld
  <2>2. Follows(h)'
    BY <2>1 DEF Follows
  <2>. QED  BY <2>1, <2>2, SamePrompts, DialogKept
<1>4. CASE Post(h)
  <2> DEFINE n == Len(prompts')
  <2>1. /\ pc'[h] = "posted" /\ pc[h] = "posting" /\ UNCHANGED <<state, data, applied>>
        /\ shown' = shown \cup {n} /\ job'[h].prompt = n
        /\ job'[h].kind = job[h].kind /\ job'[h].lead = job[h].lead
    BY <1>4, GoesTo, TypeFacts DEF Post, Jobs
  <2>2. n = Len(prompts) + 1 /\ Grows
    <3> DEFINE q == [lead |-> job[h].lead, kind |-> job[h].kind]
    <3>1. prompts' = Append(prompts, q) /\ q \in Prompts
      BY <1>4 DEF Post, Sound, Prompts
    <3>2. /\ Len(prompts') = Len(prompts) + 1 /\ DOMAIN prompts' = 1 .. Len(prompts')
          /\ \A i \in DOMAIN prompts : prompts'[i] = prompts[i]
      BY <3>1, TypeFacts
    <3>3. Len(prompts) \in Nat
      BY TypeFacts
    <3>. QED  BY <3>2, <3>3, TypeFacts DEF Grows
  <2>4. Follows(h)'
    BY <2>1 DEF Follows
  <2>. QED  BY <2>1, <2>2, <2>4, DialogKept
<1>5. CASE Remember(h)
  <2>1. pc'[h] = "idle" /\ pc[h] = "posted" /\ UNCHANGED <<state, shown, expired, applied, prompts>>
        /\ data'.lead = data.lead /\ data'.prompt = job[h].prompt
    BY <1>5, EndsIdle, TypeFacts DEF Remember
  <2>2. Follows(h)'
    BY <2>1 DEF Follows, Asked, Prompted, Sound
  <2>. QED  BY <2>1, <2>2, SamePrompts, DialogKept
<1>6. CASE Guard(h)
  <2>1. pc[h] = "dispatched" /\ UNCHANGED <<state, data, shown, expired, applied, prompts>>
    BY <1>6 DEF Guard
  <2>2. CASE End(h)
    <3>1. pc'[h] = "idle"
      BY <2>2, EndsIdle
    <3>2. Follows(h)'
      BY <2>1, <3>1 DEF Follows, Asked, Prompted
    <3>. QED  BY <2>1, <3>2, SamePrompts, DialogKept
  <2>3. CASE data.prompt = job[h].prompt /\ Goto(h, "guarded") /\ UNCHANGED job
    <3>1. pc'[h] = "guarded"
      BY <2>3, GoesTo
    <3>2. Follows(h)'
      BY <2>1, <2>3, <3>1 DEF Follows, Asked, Prompted
    <3>. QED  BY <2>1, <3>2, SamePrompts, DialogKept
  <2>. QED  BY <1>6, <2>2, <2>3 DEF Guard, Accept
<1>7. CASE GetLead(h)
  <2>1. pc[h] = "guarded" /\ pc'[h] \in {"cleaning", "applying"}
        /\ job'[h].lead = data.lead /\ job'[h].kind = job[h].kind /\ job'[h].prompt = job[h].prompt
        /\ UNCHANGED <<state, data, shown, expired, applied, prompts>>
    BY <1>7, GoesTo, TypeFacts DEF GetLead, Jobs
  <2>2. Follows(h)'
    BY <2>1 DEF Follows, Asked, Prompted
  <2>. QED  BY <2>1, <2>2, SamePrompts, DialogKept
<1>8. CASE Applied(h)
  <2>1. pc[h] = "applying" /\ pc'[h] = "cleaning" /\ applied' = applied \cup {job[h]}
        /\ UNCHANGED <<state, data, job, prompts>>
    BY <1>8, GoesTo DEF Applied
  <2>3. Follows(h)'
    BY <2>1 DEF Follows
  <2>4. job[h].kind # "reason" => Reaches(job[h])
    <3>1. Prompted /\ state = job[h].kind /\ data.prompt = job[h].prompt /\ data.lead = job[h].lead
      BY <2>1 DEF Follows, Sound, Asked
    <3>2. prompts[data.prompt] \in Prompts
      BY <2>1, <3>1, TypeFacts DEF Sound
    <3>. QED  BY <3>1, <3>2 DEF Prompted, Reaches, Prompts
  <2>5. TypedReplyReachesItsLead'
    BY <2>1, <2>4 DEF TypedReplyReachesItsLead, Reaches
  <2>. QED  BY <2>3, <2>5, DialogOne
<1>9. CASE NotApplied(h) \/ AskReplace(h)
  <2>1. pc[h] = "applying" /\ pc'[h] = "cleaning" /\ UNCHANGED <<applied, prompts>>
    BY <1>9, GoesTo DEF NotApplied, AskReplace
  <2>2. Follows(h)'
    BY <2>1 DEF Follows
  <2>. QED  BY <2>1, <2>2, SamePrompts, DialogKept
<1>10. CASE CleanUp(h)
  <2>1. pc[h] = "cleaning" /\ pc'[h] = "cleaned" /\ UNCHANGED <<applied, prompts>>
    BY <1>10, GoesTo DEF CleanUp
  <2>2. Follows(h)'
    BY <2>1 DEF Follows
  <2>. QED  BY <2>1, <2>2, SamePrompts, DialogKept
<1>11. CASE ForgetPrompt(h)
  <2>1. pc[h] = "cleaned" /\ pc'[h] = "clearing" /\ data'.prompt = 0 /\ UNCHANGED <<applied, prompts>>
    BY <1>11, GoesTo, TypeFacts DEF ForgetPrompt
  <2>3. Follows(h)'
    BY <2>1 DEF Follows
  <2>. QED  BY <2>1, <2>3, SamePrompts, DialogKept
<1>. QED  BY <1>1, <1>2, <1>3, <1>4, <1>5, <1>6, <1>7, <1>8, <1>9, <1>10, <1>11 DEF Step

LEMMA DialogUser ==
    ASSUME TypeInv, TypeInv', DialogInv, NEW h \in Handlers, User(h), UNCHANGED fails
    PROVE  DialogInv'
<1> USE DEF fsm, chat, session
<1>1. ASSUME NEW at \in {"chosen", "prompting", "dispatched", "clearing", "cleaning"}, NEW k, NEW l, NEW p,
             Begin(h, at, k, l, p), UNCHANGED <<data, chat, applied>>,
             at = "chosen" => state' = (IF k = "reason" THEN "menu" ELSE k),
             at = "prompting" => state' = "reason" /\ k = "reason",
             at = "dispatched" => UNCHANGED state /\ state = k
      PROVE  DialogInv'
  <2>1. pc[h] = "idle" /\ pc'[h] = at /\ job'[h].kind = k /\ job'[h].lead = l /\ job'[h].prompt = p
    BY <1>1, BeginsAs
  <2>2. OthersStay(h) /\ (~ muddled' => ~ muddled /\ Alone(h))
    BY <1>1, BeginsAs, BeginOthers
  <2>3. ~ muddled' => Follows(h)'
    <3> SUFFICES ASSUME ~ muddled, Follows(h) PROVE Follows(h)'
      BY <2>2, AtWorkAlone
    <3>. QED  BY <1>1, <2>1 DEF Follows, Asked, Prompted
  <2>. QED  BY <1>1, <2>2, <2>3, SamePrompts, DialogKept
<1>2. ASSUME UNCHANGED <<pc, job, state, data, prompts, shown, expired, session>> PROVE DialogInv'
  BY <1>2 DEF DialogInv, Follows, Asked, Prompted, TypedReplyReachesItsLead, Reaches
<1>3. ASSUME NEW l \in Leads, NEW k \in AllKinds, Click(h, k, l) PROVE DialogInv'
  BY <1>1, <1>3 DEF Click
<1>4. ASSUME NEW l \in Leads, NEW k \in AllKinds, ChooseCustom(h, k, l) PROVE DialogInv'
  BY <1>1, <1>4 DEF ChooseCustom
<1>5. ASSUME NEW l \in Leads, ClickRemind(h, l) \/ ChooseTime(h, l) PROVE DialogInv'
  BY <1>2, <1>5 DEF ClickRemind, ChooseTime
<1>6. ASSUME NEW l \in Leads, ChooseReason(h, l) PROVE DialogInv'
  BY <1>1, <1>6 DEF ChooseReason
<1>7. ASSUME NEW l \in Leads, AnswerReplace(h, l) PROVE DialogInv'
  BY <1>1, <1>7 DEF AnswerReplace
<1>8. ASSUME NEW p \in DOMAIN prompts, Reply(h, p) PROVE DialogInv'
  BY <1>1, <1>8 DEF Reply
<1>9. CASE Cancel(h)
  BY <1>1, <1>9 DEF Cancel
<1>. QED  BY <1>3, <1>4, <1>5, <1>6, <1>7, <1>8, <1>9 DEF User

LEMMA DialogStep ==
    ASSUME TypeInv, DialogInv, [Next]_vars
    PROVE  DialogInv'
<1>0. TypeInv'
  BY TypeStep
<1>1. ASSUME NEW h \in Handlers, Fails(h) PROVE DialogInv'
  BY <1>1 DEF Fails, DialogInv
<1>2. CASE Expires
  BY <1>2 DEF Expires, DialogInv, Follows, Asked, Prompted, TypedReplyReachesItsLead, Reaches, session
<1>3. CASE UNCHANGED vars
  BY <1>3 DEF vars, fsm, chat, session, DialogInv, Follows, Asked, Prompted, TypedReplyReachesItsLead, Reaches
<1>. QED  BY <1>0, <1>1, <1>2, <1>3, DialogStep1, DialogUser, ExpiresFacts DEF Next

-----------------------------------------------------------------------------
(* The invariant, and what it says                                         *)

LEMMA InvInit == Init => IInv
<1>. SUFFICES ASSUME Init PROVE IInv
  OBVIOUS
<1>1. OpenedInv
  BY DEF Init, OpenedInv, NoData
<1>2. PromptInv
  BY DEF Init, PromptInv
<1>3. DialogInv
  BY DEF Init, DialogInv, Asked, AllKinds, TypedReplyReachesItsLead
<1>. QED  BY <1>1, <1>2, <1>3, TypeInit DEF IInv

\* The inductive invariant, for any handlers that overlap and fail: the context holds no
\* lead that was not turned to since it was cleared, and no prompt that has been answered;
\* and as long as it is not muddled, the prompt in it asks for what the state awaits.
THEOREM DialogInvariant == Spec => []IInv
<1>1. Init => IInv
  BY InvInit
<1>2. IInv /\ [Next]_vars => IInv'
  BY TypeStep, OpenedStep, PromptStep, DialogStep DEF IInv
<1>. QED  BY <1>1, <1>2, PTL DEF Spec

\* The types hold, and an answer is used once, whatever overlaps: is_force_reply compares
\* the reply with the prompt in the context, which cleanup_force_reply forgets, and a
\* prompt is stored once.
THEOREM AnswersAreUsedOnce == Spec => []Inv
<1>1. IInv => Inv
  BY DEF IInv, TypeInv, PromptInv, Inv, AnsweredOnce
<1>. QED  BY <1>1, DialogInvariant, PTL

\* The lead and the kind of an input are those that its prompt names, for every dialog that
\* stores its lead (start_force_reply, update_data), from where the context was cleared to
\* where handlers overlap or fail.
THEOREM TypedRepliesReachTheirLeads == Spec => []TypedReplyReachesItsLead
<1>1. IInv => TypedReplyReachesItsLead
  BY DEF IInv, DialogInv, TypedReplyReachesItsLead
<1>. QED  BY <1>1, DialogInvariant, PTL

\* When the bot awaits an input, the prompt that may be answered asks for it, and is in the
\* chat until its TTL, again unless handlers have overlapped or failed since the context
\* was cleared.
THEOREM AwaitedWasAsked == Spec => []AwaitedIsAsked
<1>1. IInv => AwaitedIsAsked
  BY TypeFacts DEF IInv, DialogInv, Asked, Prompted, AwaitedIsAsked
<1>. QED  BY <1>1, DialogInvariant, PTL

\* After /cancel or the end of a dialog nothing is done to a lead that the manager has not
\* turned to since, but by handlers that had it in hand, whatever overlaps and fails
\* (handle_amount_input and the like take the lead from the context).
THEOREM CancelledLeadsAreForgotten == Spec => CancelledIsForgotten
<1>1. IInv /\ [Next]_vars => [\A a \in applied' \ applied : a.lead \in opened]_vars
  <2>. SUFFICES ASSUME IInv, Next PROVE \A a \in applied' \ applied : a.lead \in opened
    OBVIOUS
  <2>1. ASSUME NEW h \in Handlers, Applied(h) PROVE \A a \in applied' \ applied : a.lead \in opened
    BY <2>1 DEF Applied, IInv, OpenedInv
  <2>2. (\A h \in Handlers : ~ Applied(h)) => applied' \subseteq applied
    BY DEF Next, Step, User, Fails, ExpirePrompt, ExpireMenu, StoreLead, SendMenu, DropOld, Post, Remember,
           Guard, GetLead, NotApplied, AskReplace, CleanUp, ForgetPrompt, Clear, Emptied, Click, ChooseCustom,
           ClickRemind, ChooseReason, ChooseTime, AnswerReplace, Reply, Cancel, session
  <2>. QED  BY <2>1, <2>2
<1>. QED  BY <1>1, DialogInvariant, PTL DEF Spec, CancelledIsForgotten

=============================================================================
