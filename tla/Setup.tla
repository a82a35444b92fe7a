------------------------------- MODULE Setup -------------------------------
(***************************************************************************)
(* /setup in the CRM bot: a tenant of one owner is bound to a group, and   *)
(* the group gets its forum topics.                                        *)
(*                                                                         *)
(* A run goes through TOPIC_SPECS in one transaction: a recorded topic is  *)
(* probed in Telegram, a missing one created and recorded in tenant_topics.*)
(* After the commit it does the same for the topic of the panel and those  *)
(* that have a menu, each in a transaction of its own, and last, unless    *)
(* something went wrong, it binds the tenant.  /cabinet does it for its    *)
(* own topic.  Runs of different groups, and of the same one, may   *)
(* overlap.  Handlers that look a topic up keep what they read in a cache  *)
(* of the process.                                                         *)
(***************************************************************************)
EXTENDS Naturals, Sequences, FiniteSets

CONSTANTS Tenants, Groups, Runs,
          Topics,      \* TOPIC_SPECS, in order
          Panel,       \* the topic of ensure_panel_message
          MenuTopics,  \* those of STATUS_TO_TOPIC_KEY, in order
          Cabinet,     \* the topic of ensure_cabinet_message
          Unbound,     \* group_id = 0
          Absent,      \* the tenant is not registered yet
          NoMap,       \* nothing is cached
          MaxThreads,  \* bound on the topics made in Telegram
          MaxFaults    \* bound on the faults of a behaviour

Keys  == {Topics[i] : i \in DOMAIN Topics}
Order == Topics \o <<Panel>> \o MenuTopics  \* what a run of /setup goes through

ASSUME SetupAssumption ==
    /\ Topics \in Seq(Keys) /\ Topics # << >> /\ {Panel, Cabinet} \subseteq Keys
    /\ MenuTopics \in Seq(Keys) /\ MenuTopics # << >>
    /\ Unbound \notin Groups /\ Absent \notin Groups \cup {Unbound} \cup Tenants
    /\ MaxThreads \in Nat /\ MaxFaults \in Nat

VARIABLES
    group,      \* tenants.group_id
    onboarded,  \* tenants.onboarding_completed
    rows,       \* tenant_topics: the thread of a group's topic, 0 for no row
    threads,    \* the topics made in Telegram: group and key
    alive,      \* those that have not been deleted
    cache,      \* topic_cache of the bot, by group
    lookup,     \* a handler that has read a group's rows and not cached them yet
    offers,     \* buttons in the chats: <<group, tenant>>
    job,        \* the runs
    overlapped, \* history: two runs have overlapped, or a lookup and a commit
    repaired,   \* history: groups whose last run ended well, with no topic deleted since
    lost,       \* history: a handler or the process has died
    faults

tables   == <<group, onboarded, rows>>
telegram == <<threads, alive>>
cached   == <<cache, lookup>>
history  == <<overlapped, repaired, lost>>
vars     == <<tables, telegram, cached, offers, job, history, faults>>

None   == [k \in Keys |-> 0]
NoJob  == [pc |-> "idle", t |-> Absent, g |-> Unbound, bind |-> FALSE, i |-> 1, map |-> None,
           thread |-> 0, seen |-> FALSE, writes |-> None, err |-> FALSE, broken |-> FALSE,
           shaken |-> FALSE]
NoLookup == [g |-> Unbound, map |-> None]

Init ==
    /\ group     = [t \in Tenants |-> Absent]
    /\ onboarded = [t \in Tenants |-> FALSE]
    /\ rows      = [g \in Groups |-> None]
    /\ threads   = << >> /\ alive = {}
    /\ cache     = [g \in Groups |-> NoMap]
    /\ lookup    = NoLookup
    /\ offers    = {}
    /\ job       = [r \in Runs |-> NoJob]
    /\ overlapped = FALSE /\ repaired = {} /\ lost = FALSE
    /\ faults    = 0

Fault == faults < MaxFaults /\ faults' = faults + 1

Running == {r \in Runs : job[r].pc # "idle"}
Do(r, j) == job' = [job EXCEPT ![r] = j]

-----------------------------------------------------------------------------
(* Registration                                                            *)

\* ix_tenants_group_id_nonzero: a group is of one tenant.
Taken(t, g) == \E u \in Tenants \ {t} : group[u] = g

\* handle_company_name of the master bot: a tenant without a group.
RegisterUnbound(t) ==
    /\ group[t] = Absent
    /\ group' = [group EXCEPT ![t] = Unbound]
    /\ UNCHANGED <<onboarded, rows, telegram, cached, offers, job, history, faults>>

\* /start and handle_company_name of the CRM bot, in a group nobody has (the index
\* refuses one that somebody else has got in the meantime).
RegisterGroup(t, g) ==
    /\ group[t] = Absent /\ ~ Taken(t, g)
    /\ group' = [group EXCEPT ![t] = g]
    /\ UNCHANGED <<onboarded, rows, telegram, cached, offers, job, history, faults>>

-----------------------------------------------------------------------------
(* /setup: which tenant                                                    *)

Start(r, t, g, bind) ==
    /\ Do(r, [NoJob EXCEPT !.pc = "map", !.t = t, !.g = g, !.bind = bind])
    /\ overlapped' = (overlapped \/ Running # {})

\* _select_setup_tenant: the tenant of this chat, or the only unbound one; the
\* owner is asked when there are several.
CmdSetup(r, g) ==
    LET bound   == {t \in Tenants : group[t] = g}
        unbound == {t \in Tenants : group[t] = Unbound}
    IN  /\ job[r].pc = "idle"
        /\ \/ \E t \in bound : bound = {t} /\ Start(r, t, g, FALSE) /\ UNCHANGED offers
           \/ \E t \in unbound : /\ bound = {} /\ unbound = {t}
                                 /\ Start(r, t, g, TRUE) /\ UNCHANGED offers
           \/ /\ bound = {} /\ Cardinality(unbound) > 1
              /\ offers' = offers \cup {<<g, t>> : t \in unbound}
              /\ UNCHANGED <<job, overlapped>>
        /\ UNCHANGED <<tables, telegram, cached, repaired, lost, faults>>

SelectAnyTenant(r, t, g) ==  \* mutant: the tenant of an old button may be bound by now
    /\ job[r].pc = "idle" /\ <<g, t>> \in offers
    /\ Start(r, t, g, TRUE)
    /\ UNCHANGED <<tables, telegram, cached, offers, repaired, lost, faults>>

\* cb_setup_select_tenant: the button may be an old one.
SelectTenant(r, t, g) ==
    /\ job[r].pc = "idle" /\ <<g, t>> \in offers
    /\ group[t] = Unbound
    /\ Start(r, t, g, TRUE)
    /\ UNCHANGED <<tables, telegram, cached, offers, repaired, lost, faults>>

-----------------------------------------------------------------------------
(* _run_setup_for_tenant: the topics                                       *)

\* A run is for a tenant (/setup) or for none (/cabinet).
InCabinet(j) == j.t = Absent
Key(j)       == IF InCabinet(j) THEN Cabinet ELSE Order[j.i]
InMenu(j)    == InCabinet(j) \/ j.i > Len(Topics)  \* each topic has its own commit
InPanel(j)   == ~ InCabinet(j) /\ j.i = Len(Topics) + 1

Topic(j) == IF j.map[Key(j)] # 0 THEN [j EXCEPT !.pc = "probe"] ELSE [j EXCEPT !.pc = "create"]

\* ensure_panel_message is for a topic that was recorded or made; a menu's topic is
\* looked up.
Ensure(j) == CASE InPanel(j) /\ j.map[Panel] # 0 -> [j EXCEPT !.pc = "menu", !.thread = j.map[Panel]]
               [] InPanel(j) /\ j.map[Panel] = 0 -> [j EXCEPT !.i = @ + 1, !.pc = "resolve"]
               [] OTHER                          -> [j EXCEPT !.pc = "resolve"]

\* On to the next topic: after the last the transaction is committed, after the last
\* menu the tenant is bound.  The panel has a session of its own.
NextTopic(j) ==
    LET n == [j EXCEPT !.i = @ + 1, !.thread = 0, !.seen = FALSE, !.broken = @ /\ ~ InPanel(j)] IN
    IF InCabinet(j) THEN NoJob
    ELSE CASE n.i <= Len(Topics)                -> Topic(n)
           [] j.i = Len(Topics)                 -> [n EXCEPT !.pc = "commit"]
           [] InMenu(j) /\ n.i <= Len(Order)    -> Ensure(n)
           [] OTHER                             -> [n EXCEPT !.pc = "bind"]

\* A topic fails.  A failure among the menus is only logged.
Error(j) == NextTopic([j EXCEPT !.err = @ \/ ~ InMenu(j)])

ReadMap(r) ==
    LET j == job[r] IN
    /\ j.pc = "map"
    /\ Do(r, Topic([j EXCEPT !.map = rows[j.g]]))
    /\ UNCHANGED <<tables, telegram, cached, offers, history, faults>>

ProbeOrCreate(r) ==  \* mutant: whatever fails, the topic is taken for missing
    LET j == job[r] IN
    /\ j.pc = "probe"
    /\ \/ /\ j.map[Key(j)] \in alive
          /\ Do(r, [j EXCEPT !.pc = "record", !.thread = j.map[Key(j)]])
          /\ UNCHANGED faults
       \/ /\ j.map[Key(j)] \notin alive
          /\ Do(r, [j EXCEPT !.pc = "create", !.map[Key(j)] = 0])
          /\ UNCHANGED faults
       \/ Fault /\ Do(r, [j EXCEPT !.pc = "create", !.map[Key(j)] = 0])
    /\ UNCHANGED <<tables, telegram, cached, offers, history>>

ProbeNot(r) ==  \* mutant: what is recorded is taken to be there
    LET j == job[r] IN
    /\ j.pc = "probe"
    /\ Do(r, [j EXCEPT !.pc = "record", !.thread = j.map[Key(j)]])
    /\ UNCHANGED <<tables, telegram, cached, offers, history, faults>>

\* _probe_topic_thread: "message thread not found", or another error.
Probe(r) ==
    LET j == job[r] IN
    /\ j.pc = "probe"
    /\ \/ /\ j.map[Key(j)] \in alive
          /\ Do(r, [j EXCEPT !.pc = "record", !.thread = j.map[Key(j)]])
          /\ UNCHANGED faults
       \/ /\ j.map[Key(j)] \notin alive
          /\ Do(r, [j EXCEPT !.pc = "create", !.map[Key(j)] = 0])
          /\ UNCHANGED faults
       \/ Fault /\ Do(r, Error(j))
    /\ UNCHANGED <<tables, telegram, cached, offers, history>>

\* create_forum_topic
Create(r) ==
    LET j == job[r] IN
    /\ j.pc = "create"
    /\ \/ /\ Len(threads) < MaxThreads
          /\ threads' = Append(threads, [g |-> j.g, k |-> Key(j)])
          /\ alive'   = alive \cup {Len(threads')}
          /\ Do(r, [j EXCEPT !.pc = "record", !.thread = Len(threads')])
          /\ UNCHANGED faults
       \/ Fault /\ Do(r, Error(j)) /\ UNCHANGED telegram
    /\ UNCHANGED <<tables, cached, offers, history>>

\* upsert_topic looks for the row.  A session whose INSERT has failed fails again,
\* which ends the handler when the topic was there before.
SelectRow(r) ==
    LET j == job[r] IN
    /\ j.pc = "record"
    /\ Do(r, CASE ~ j.broken -> [j EXCEPT !.pc = "write", !.seen = rows[j.g][Key(j)] # 0]
               [] j.broken /\ ~ InMenu(j) /\ j.thread = j.map[Key(j)] -> NoJob
               [] OTHER -> Error(j))
    /\ UNCHANGED <<tables, telegram, cached, offers, history, faults>>

\* A row another run has written and not committed: INSERT and UPDATE wait for it.
Waits(r) == \E q \in Runs \ {r} : job[q].g = job[r].g /\ job[q].writes[Key(job[r])] # 0

\* The INSERT meets a row that was not there: the session is rolled back.
Conflict(j) == ~ j.seen /\ rows[j.g][Key(j)] # 0

WriteRow(r) ==
    LET j == job[r] IN
    /\ j.pc = "write" /\ ~ InMenu(j) /\ ~ Waits(r)
    /\ Do(r, IF Conflict(j)
             THEN Error([j EXCEPT !.broken = TRUE, !.writes = None])
             ELSE NextTopic([j EXCEPT !.writes[Key(j)] = j.thread, !.map[Key(j)] = j.thread]))
    /\ UNCHANGED <<tables, telegram, cached, offers, history, faults>>

\* A map read before this commit is out of date.
Outdates(g) == lookup.g = g

\* session.commit()
Commit(r) ==
    LET j == job[r] IN
    /\ j.pc = "commit"
    /\ IF j.broken THEN Do(r, NoJob) /\ UNCHANGED <<rows, overlapped>>
       ELSE /\ rows' = [rows EXCEPT ![j.g] = [k \in Keys |-> IF j.writes[k] # 0 THEN j.writes[k]
                                                                               ELSE @[k]]]
            /\ overlapped' = (overlapped \/ Outdates(j.g))
            /\ Do(r, [j EXCEPT !.pc = "invalidate", !.writes = None])
    /\ UNCHANGED <<group, onboarded, telegram, cached, offers, repaired, lost, faults>>

\* On to the panel and the menus, to the panel's message, or to the next of them.
AfterInvalidate(j) == CASE j.thread = 0 -> Ensure(j)
                        [] j.thread # 0 /\ InPanel(j) -> [j EXCEPT !.pc = "message"]
                        [] OTHER -> NextTopic(j)

InvalidateNot(r) ==  \* mutant: the cache is left as it is
    LET j == job[r] IN
    /\ j.pc = "invalidate"
    /\ Do(r, AfterInvalidate(j))
    /\ UNCHANGED <<tables, telegram, cached, offers, history, faults>>

\* invalidate_topic_cache
Invalidate(r) ==
    LET j == job[r] IN
    /\ j.pc = "invalidate"
    /\ cache' = [cache EXCEPT ![j.g] = NoMap]
    /\ Do(r, AfterInvalidate(j))
    /\ UNCHANGED <<tables, telegram, lookup, offers, history, faults>>

-----------------------------------------------------------------------------
(* ensure_panel_message, _ensure_topic_menus, ensure_cabinet_message       *)

\* resolve_topic_thread_id: the cache, or else the table, which is then cached.
Resolve(r) ==
    LET j   == job[r]
        hit == cache[j.g] # NoMap /\ cache[j.g][Key(j)] # 0
    IN  /\ j.pc = "resolve"
        /\ Do(r, CASE hit               -> [j EXCEPT !.pc = "menu", !.thread = cache[j.g][Key(j)]]
                   [] ~ hit /\ j.broken -> NextTopic(j)
                   [] OTHER             -> [j EXCEPT !.pc = "menu", !.thread = rows[j.g][Key(j)]])
        /\ cache' = IF hit \/ j.broken \/ rows[j.g] = None THEN cache
                                                           ELSE [cache EXCEPT ![j.g] = rows[j.g]]
        /\ UNCHANGED <<tables, telegram, lookup, offers, history, faults>>

\* /cabinet, in the group of a tenant, or a button of the cabinet.
CmdCabinet(r, g) ==
    /\ job[r].pc = "idle" /\ \E t \in Tenants : group[t] = g
    /\ Do(r, [NoJob EXCEPT !.pc = "resolve", !.g = g])
    /\ overlapped' = (overlapped \/ Running # {})
    /\ UNCHANGED <<tables, telegram, cached, offers, repaired, lost, faults>>

\* A topic is probed, and a new one is made if it is gone.  Other errors are logged.
EnsureTopic(r, next) ==
    LET j == job[r] IN
    /\ j.pc = "menu"
    /\ \/ j.thread \in alive /\ Do(r, next) /\ UNCHANGED faults
       \/ j.thread \notin alive /\ Do(r, [j EXCEPT !.pc = "create"]) /\ UNCHANGED faults
       \/ Fault /\ Do(r, NextTopic(j))
    /\ UNCHANGED <<tables, telegram, cached, offers, history>>

EnsurePanel(r)   == InPanel(job[r]) /\ EnsureTopic(r, [job[r] EXCEPT !.pc = "message"])
EnsureMenu(r)    == ~ (InPanel(job[r]) \/ InCabinet(job[r])) /\ EnsureTopic(r, NextTopic(job[r]))
EnsureCabinet(r) == InCabinet(job[r]) /\ EnsureTopic(r, NextTopic(job[r]))

\* The panel's message is edited, or posted again: an error is one of the run.
PanelMessage(r) ==
    LET j == job[r] IN
    /\ j.pc = "message"
    /\ \/ j.thread \in alive /\ Do(r, NextTopic(j)) /\ UNCHANGED faults
       \/ j.thread \notin alive /\ Do(r, NextTopic([j EXCEPT !.err = TRUE])) /\ UNCHANGED faults
       \/ Fault /\ Do(r, NextTopic([j EXCEPT !.err = TRUE]))
    /\ UNCHANGED <<tables, telegram, cached, offers, history>>

\* Its row is written and committed.
WriteMenuRow(r) ==
    LET j == job[r] IN
    /\ j.pc = "write" /\ InMenu(j) /\ ~ Waits(r)
    /\ IF Conflict(j) THEN Do(r, NextTopic([j EXCEPT !.broken = TRUE])) /\ UNCHANGED <<rows, overlapped>>
       ELSE /\ rows' = [rows EXCEPT ![j.g][Key(j)] = j.thread]
            /\ overlapped' = (overlapped \/ Outdates(j.g))
            /\ Do(r, [j EXCEPT !.pc = "invalidate"])
    /\ UNCHANGED <<group, onboarded, telegram, cached, offers, repaired, lost, faults>>

-----------------------------------------------------------------------------
(* The end                                                                 *)

BindAnyway(r) ==  \* mutant: errors do not stop the binding
    LET j == job[r] IN
    /\ j.pc = "bind"
    /\ j.bind /\ ~ Taken(j.t, j.g)
    /\ group'     = [group EXCEPT ![j.t] = j.g]
    /\ onboarded' = [onboarded EXCEPT ![j.t] = TRUE]
    /\ repaired'  = IF j.shaken THEN repaired ELSE repaired \cup {j.g}
    /\ Do(r, NoJob)
    /\ UNCHANGED <<rows, telegram, cached, offers, overlapped, lost, faults>>

\* bind_group and complete_onboarding, whatever the tenant's group is by now; the
\* index refuses a group that another tenant has.
Bind(r) ==
    LET j == job[r] IN
    /\ j.pc = "bind"
    /\ IF j.err \/ (j.bind /\ Taken(j.t, j.g)) THEN UNCHANGED <<group, onboarded, repaired>>
       ELSE /\ group'     = IF j.bind THEN [group EXCEPT ![j.t] = j.g] ELSE group
            /\ onboarded' = [onboarded EXCEPT ![j.t] = TRUE]
            /\ repaired'  = IF j.shaken THEN repaired ELSE repaired \cup {j.g}
    /\ Do(r, NoJob)
    /\ UNCHANGED <<rows, telegram, cached, offers, overlapped, lost, faults>>

-----------------------------------------------------------------------------
(* Everything else                                                         *)

\* resolve_topic_thread_id in another handler reads the rows ...
LookUp(g) ==
    /\ lookup = NoLookup /\ rows[g] # None
    /\ cache[g] # NoMap => \E k \in Keys : cache[g][k] = 0
    /\ lookup' = [g |-> g, map |-> rows[g]]
    /\ UNCHANGED <<tables, telegram, cache, offers, job, history, faults>>

\* ... and caches them when its coroutine goes on.
SetCached ==
    /\ lookup # NoLookup
    /\ cache'  = [cache EXCEPT ![lookup.g] = lookup.map]
    /\ lookup' = NoLookup
    /\ UNCHANGED <<tables, telegram, offers, job, history, faults>>

\* TTL_SEC
CacheExpires(g) ==
    /\ cache[g] # NoMap
    /\ cache' = [cache EXCEPT ![g] = NoMap]
    /\ UNCHANGED <<tables, telegram, lookup, offers, job, history, faults>>

\* An administrator of the group deletes a topic.
DeleteTopic(x) ==
    /\ x \in alive
    /\ alive'    = alive \ {x}
    /\ repaired' = repaired \ {threads[x].g}
    /\ job'      = [r \in Runs |-> IF job[r].g = threads[x].g THEN [job[r] EXCEPT !.shaken = TRUE]
                                                              ELSE job[r]]
    /\ UNCHANGED <<tables, threads, cached, offers, overlapped, lost, faults>>

\* The handler fails outside its try blocks: its transaction is undone.
Dies(r) ==
    /\ r \in Running /\ Fault
    /\ Do(r, NoJob) /\ lost' = TRUE
    /\ UNCHANGED <<tables, telegram, cached, offers, overlapped, repaired>>

\* The bot's process dies.
Crash ==
    /\ Running # {} /\ Fault
    /\ job' = [r \in Runs |-> NoJob] /\ lost' = TRUE
    /\ cache' = [g \in Groups |-> NoMap] /\ lookup' = NoLookup
    /\ UNCHANGED <<tables, telegram, offers, overlapped, repaired>>

-----------------------------------------------------------------------------
RunStep(r) ==
    \/ ReadMap(r) \/ Probe(r) \/ Create(r) \/ SelectRow(r) \/ WriteRow(r) \/ Commit(r)
    \/ Invalidate(r) \/ Resolve(r) \/ EnsurePanel(r) \/ PanelMessage(r) \/ EnsureMenu(r)
    \/ EnsureCabinet(r) \/ WriteMenuRow(r) \/ Bind(r)

Next ==
    \/ \E t \in Tenants : RegisterUnbound(t) \/ \E g \in Groups : RegisterGroup(t, g)
    \/ \E r \in Runs, g \in Groups : CmdSetup(r, g) \/ CmdCabinet(r, g) \/ \E t \in Tenants : SelectTenant(r, t, g)
    \/ \E r \in Runs : RunStep(r) \/ Dies(r)
    \/ \E g \in Groups : LookUp(g) \/ CacheExpires(g)
    \/ SetCached \/ Crash
    \/ \E x \in alive : DeleteTopic(x)

Spec == Init /\ [][Next]_vars

-----------------------------------------------------------------------------
(* Properties                                                              *)

TopicMap == [Keys -> 0 .. Len(threads)]

\* The types; a row, a cache or a run names a topic that was made in Telegram.
TypeOK ==
    /\ group \in [Tenants -> Groups \cup {Unbound, Absent}]
    /\ onboarded \in [Tenants -> BOOLEAN]
    /\ rows \in [Groups -> TopicMap]
    /\ threads \in Seq([g : Groups, k : Keys]) /\ alive \subseteq DOMAIN threads
    /\ cache \in [Groups -> {NoMap} \cup TopicMap]
    /\ lookup \in [g : Groups \cup {Unbound}, map : TopicMap]
    /\ offers \subseteq Groups \X Tenants
    /\ job \in [Runs -> [pc : {"idle", "map", "probe", "create", "record", "write", "commit",
                               "invalidate", "resolve", "menu", "message", "bind"},
                         t : Tenants \cup {Absent}, g : Groups \cup {Unbound}, bind : BOOLEAN,
                         i : 1 .. Len(Order) + 1, map : TopicMap, thread : 0 .. Len(threads),
                         seen : BOOLEAN, writes : TopicMap, err : BOOLEAN, broken : BOOLEAN,
                         shaken : BOOLEAN]]
    /\ overlapped \in BOOLEAN /\ lost \in BOOLEAN
    /\ repaired \subseteq Groups /\ faults \in 0 .. MaxFaults

\* An onboarded tenant has a group in which every topic is recorded, and each record
\* is of a topic made there for that key: however runs overlap, fail or die, a card
\* always has a topic to go to.
OnboardedHasTopics ==
    \A t \in Tenants : onboarded[t] =>
        /\ group[t] \in Groups
        /\ \A k \in Keys : /\ rows[group[t]][k] # 0
                           /\ threads[rows[group[t]][k]] = [g |-> group[t], k |-> k]

\* The state is sound, and an onboarded tenant has its topics.
Inv == TypeOK /\ OnboardedHasTopics

\* "Этот CRM-аккаунт уже привязан" (setup.py:751): as long as runs do not overlap, a
\* tenant keeps the group it was bound to, whatever old buttons are in the chats.
BoundOnce ==
    [][\A t \in Tenants :
          ~ overlapped /\ group[t] \in Groups => group'[t] = group[t]]_vars

\* docs/commands.md:7, /setup creates and checks the topics: as long as runs do not
\* overlap and no handler has died, every topic in Telegram is one that is recorded, so
\* that repeating /setup after an error makes no second topic for a key.
NoDuplicateTopics ==
    ~ overlapped /\ ~ lost /\ Running = {} =>
        \A x \in alive : rows[threads[x].g][threads[x].k] = x

\* /setup repairs: when a run has ended well and no topic has been deleted since it
\* began, every topic recorded for the group is there.
SetupRepairs ==
    ~ overlapped => \A g \in repaired, k \in Keys : rows[g][k] \in alive

\* The cache agrees with the table when no run is between its commit and its
\* invalidation, as long as no lookup was overtaken by a commit.
CacheFollowsRows ==
    ~ overlapped /\ ~ lost /\ (\A r \in Runs : job[r].pc # "invalidate") =>
        \A g \in Groups : cache[g] = NoMap \/ cache[g] = rows[g]
=============================================================================
