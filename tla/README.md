# TelegramCRM: TLA+ models, checks and proofs

TelegramCRM is a multi-tenant CRM inside Telegram. Leads come in over HTTP or
from a form; managers move them through a pipeline with the buttons of a card in
a forum topic; owners register, pay and set their group up. This directory
models the parts of it whose correctness depends on the order of steps: the row
locks and transactions of PostgreSQL, the calls of Telegram between them, the
scheduler in the bot's memory, the notices of YooKassa, the FSM context of a
chat. TLC checks small instances; TLAPS proves what matters most for all sizes.

Paths below are relative to the repository; `file:line` is a line of it.

## 1. The system

Three processes share one PostgreSQL (READ COMMITTED, `app/db/database.py`) and,
optionally, one Redis; docker restarts each (`restart: always`).

    website, Tilda --HTTP--> API ---+                       +--> Telegram (cards, answers)
    YooKassa -----webhook--> API ---+--> PostgreSQL <--+    |
    managers --updates--> CRM bot (handlers, reminders, ----+
                          subscription job, deletions)
    owners, admin ------> master bot --> PostgreSQL

* **API** (`app/entrypoints/api.py`): leads, transitions, payments.
* **CRM bot** (`app/entrypoints/crm_bot.py`): aiogram handlers, which run
  concurrently (no isolation of events), `ReminderService`, the hourly
  subscription job and the deletion service, all on one event loop.
* **Master bot** (`app/entrypoints/master_bot.py`): registration, payments,
  trials, administration.

Nothing but the database is shared between the processes. A handler yields at
every `await`, so a Python read and a later write are not atomic; an UPDATE locks
its rows until the commit, and re-reads what it waited for.

### Inventory

| component | state | operations | hard behaviour | what makes it correct |
|---|---|---|---|---|
| Lead lifecycle (`lead_repository.py`, `lead_service.py`, `lead_callbacks_status.py`, `..._force_reply.py`, API PATCH) | `leads`, `lead_history`, `lead_archives` | create, clone, take, paid, success, reject | concurrent handlers, conditional UPDATE, stale ORM objects, savepoints | one path through the pipeline; row, history and archive agree; no update lost |
| Lead cards (`lead_service.py`, `ui/tg_edit.py`) | `lead_card_messages`, messages | post-commit sync, refresh | Telegram between read and write; overlap; deadlock; partial failure | the card is in the topic of the status; the active card is never lost |
| Reminders (`reminder_service.py`, `lead_callbacks_notes.py`) | `reminders`, APScheduler jobs | set, replace, cancel, claim, send, retry, give up, restart | crash, retry, lease, jobs without rows and rows without jobs | no needless duplicate, nothing sent after a cancellation it could see, nothing stranded but by a crash in mid-delivery |
| Subscriptions (`yukassa_webhook.py`, `tenant_repository.py`, `subscription_scheduler.py`, `tenant_middleware.py`, `master_bot/admin.py`) | `tenants`, `payments` | payment, notice, extension, trial, bonus, block, expiry | duplicate and lost notices, unlocked read-modify-write, two deactivators | a payment counts once; no free days; expiry ends access |
| Monthly quota (`tenant_repository.py`, `routes/leads.py`, `deps.py`) | counter of the month in `tenants` | reserve, commit, roll back, change plan | check and count in one statement; change of month | the counter is exact; the limit holds; no false refusal |
| ForceReply dialogs (`force_reply.py`, `lead_callbacks_*.py`, `cancel.py`) | FSM state and data, prompts, menus | open, prompt, answer, cancel, expire | three writes of the context with Telegram between them; old prompts and menus | an answer reaches the lead its prompt names, once, and a cancelled dialog is forgotten |
| Setup and topics (`handlers/setup.py`, `tenant_topics.py`, `topic_cache.py`, `topic_resolver.py`) | `tenants.group_id`, `tenant_topics`, cache | register, /setup, choose, bind, resolve | partial failure, overlap, deleted topics, stale cache | an onboarded tenant has its topics; /setup repairs and does not duplicate |
| Panel and cabinet (`handlers/panel.py`, `handlers/cabinet.py`) | their topics, `panel_messages` | ensure the topic and its message | the pattern of /setup, from other handlers | a lost topic comes back, once |
| Managers and permissions (`setup.py`, `panel.py`, `permissions.py`) | `managers`, `tenants.max_managers` | add, contact, promote, register the owner, remove, change the limit | limit checked in another session; active-only lookup against a unique index | the limit a handler went by is passed by those that counted together at most; who is entered is a manager |
| Manual lead form (`lead_callbacks_create.py`) | FSM context, prompts, confirmations | fields, skip, confirm, cancel | double confirmation, old messages, failure after the commit | a lead is made of one form, a form makes one lead |
| Message deletion (`message_deletion_service.py`, `menu_cleanup.py`) | Redis set, or heap and jobs in memory | schedule, drain, clean up | crash and reschedule between two steps | nothing is deleted early, nothing owed is forgotten |
| Safe sender (`safe_sender.py`) | lock and time per chat, attempts | wait, call, retry | flood control, waiting in line | calls keep their distance and end |
| Registration, referrals, keys (`master_bot/handlers.py`) | `tenants` | register, trial, payment link | trial checked before it is written | in Setup and Subscription |
| Card text, keyboards, archive analytics, tracing, bootstrap, configuration, health, migrations, scripts, `tilda_snippet.js` | little or none | reads, formatting, wiring | | not modelled (section 7) |

`PROJECT.json` lists them all with their files, and every hazard at its line.

## 2. Modules

| module | models | composed with |
|---|---|---|
| `LeadPipeline` | abstract: status, owner and history of a lead change in one step | implemented by `LeadLifecycle` |
| `LeadLifecycle` | handlers as database sessions | `MCLeadLifecycle`, `LeadLifecycle_proofs` |
| `LeadCards` | syncs of one lead's card (transitions as in the pipeline) | `MCLeadCards`, `GroupLeads_proofs` |
| `Reminders` | reminders of one manager on one lead | `MCReminders`, `Reminders_proofs` |
| `Subscription` | paid time of tenants | `Subscription_proofs` |
| `SubscriptionSerial` | the same with a history: whether activations have overlapped | extends `Subscription`; `MCSubscription`, `Subscription_proofs` |
| `LeadQuota` | the month's counter of one tenant | `TenantLimits` |
| `LeadDialogs` | the FSM context of one manager, and the handlers that interleave on it | `MCLeadDialogs`, `LeadDialogs_proofs` |
| `Setup` | registration, /setup, topics of panel, cabinet and menus, their cache | `MCSetup`, `Setup_proofs` |
| `Managers` | the managers of one tenant and the limit of its plan | `TenantLimits` |
| `TenantLimits` | both in one tenant's row, whose plan sets both limits | extends `Managers` and `LeadQuota`; `MCTenantLimits`, `TenantLimits_proofs` |
| `LeadForm` | the form of a manual lead, in the FSM context of `LeadDialogs` | `MCLeadForm`, `GroupLeads_proofs` |
| `SafeSender` | lock, delay and attempts of the calls of one chat | used by `MessageDeletion` |
| `MessageDeletion` | messages with a time to live, and the worker that deletes them | extends `SafeSender`; `MCMessageDeletion`, `MessageDeletion_proofs` |

Operators whose comment says *mutant* are wrong variants of the definition that
follows or precedes them; `PROJECT.json` says which property each must break. `Inv` of a
module is its type invariant and an invariant or two of the module; `IInv` is an inductive
invariant that is proved. `LeadQuota` and `LeadForm` prefix such names (`QuotaInv`,
`FormSpec`), because a proof module extends them together with another component.

### LeadPipeline and LeadLifecycle

A *session* is one handler with its SQLAlchemy session. Its `pc` follows the
code: `Load`, `LoadHistory` (the first `get_by_id`), the transition's UPDATE
(`TryTakeLead`, `MarkPaid`, `MarkSuccess`, `SelectFromStatus` and `RejectLead`),
`Commit` or `Rollback`, then `PostCommitSync`, which may retry the archive.
`view` is the Lead object of the first SELECT. Later SELECTs do not refresh it; an
ORM-enabled UPDATE does (`Synced`). `draft` is what the transaction has written and
not committed, `lock` the row lock. An UPDATE whose WHERE does not match the
committed row fails at once, one whose row is locked waits. Bot handlers and the
API's PATCH start a session with different guards (`CanAct`, `Enforced`), which is
how managerless transitions come in. A lead is created for nobody (the form, a clone) or
for a manager the request names (`manager_id` of POST /leads), of whom no history row
tells. The archive is built from `view`, so it lacks the closing row (finding 2).

`LeadPipeline` has no sessions: one step per transition, with the pipeline's rules.
`LeadLifecycle` implements it under `Pipeline == INSTANCE LeadPipeline WITH status <-
status, owner <- owner`: the committed rows are the abstract state, a commit is a step.

### LeadCards

After the commit, a second transaction reads the active card row, takes its
buttons off, posts the new card, deactivates the rows it sees active, inserts its
own. The instance is one lead; a lead enters a status once, so a status names the
transition, its sync, the message and the row. `want` and `off` are the two halves of
the READ COMMITTED UPDATE: the rows its snapshot has seen, and those it has got the
lock of. `LockedBy` is what makes it wait, and the lead's own row (`set_tg_message`)
makes a circle conceivable: `SomeSyncGoesOn` says there is none.

### Reminders

Time is relative. A row counts the ticks to `remind_at` and since
`processing_started_at`; a job counts the ticks to its run. A handler chooses, applies
(schedules the job, writes the row), commits. A job claims, re-reads, sends, marks.
`Restart` is `start_scheduler`, at any time after a crash, as docker does it (`restart:
always`). A job made by a restart that comes before the lease of an interrupted claim is
over ends without a claim, and none follows until the next restart: such a reminder is
`Forgotten`. What an environment may do is a set of faults (`env`, fixed by `Init`): a
commit slower than the due time, a database error, a lost answer. Crashes are always
possible. `DeactivateManager` cancels what is to come and leaves what is overdue, is being
delivered or is being set, as the code does. `cancelled` is history: the reminders a
cancellation has reached in time, that is, whose delivery had not read the row again.

### Subscription

A *session* is one run of `activate_subscription`, by a webhook or an administrator:
read the tenant, UPDATE it, read the referrer, UPDATE it, commit. `notice` is what
YooKassa still has to tell: it repeats a notice until it is answered, and the code
answers ok to its own failures as well. A trial is two steps in both bots: `trying` holds
the tenants whose handler has found the trial unused and has not written it yet. The hourly job is a scan and then one step
per tenant, in transactions of their own; the middleware is a read and a write. A
tick is a day.

### LeadQuota

A request is authorised (the plan is read), asks (the month is read), reserves in one
UPDATE (`NeedsReset`, `CountWith`, `MonthWith`, `Fits` are its CASE expressions), and
commits or rolls back. `stamp` is the month it has read, which may be over when the
UPDATE gets its lock.

### LeadDialogs

`state` and `data` are the FSM context of one manager in one chat; `prompts` the
ForceReply messages, `shown` those still in the chat, `menus` the inline menus. A
handler's `pc` separates what Telegram calls separate: `set_state`, `update_data` of
the lead, deleting the old prompt, posting, `update_data` of the prompt; then the
state filter, `reject_non_force_reply`, the input, the clean-up, `state.clear`. Which
buttons a card has is left open: any dialog may start on any lead. Handlers of the same
manager interleave at each of these steps. The histories say when that matters: `muddled`,
whether handlers have overlapped or failed since the context was last cleared (a clear by a
handler that is alone makes the context clean again); `opened`, the leads turned to since then,
and those other handlers had in hand; `answered`, the prompts whose answer a handler has tidied
up after, and `again`, those to which another reply got through.

### Setup

A *run* is `_run_setup_for_tenant`: the rows are read, each topic is probed, created
and recorded in one transaction, the cache is invalidated, the menus' topics are
ensured one transaction each, and last the tenant is bound unless something went
wrong. `RegisterUnbound` is the master bot's registration, `RegisterGroup` the CRM
bot's. An INSERT meets the unique index when it is flushed (`Conflict`), after which
the session fails. Another handler that resolves a topic reads the rows and then
caches them (`LookUp`, `SetCached`). The panel's topic is ensured between the commit and
the menus (`EnsurePanel`, `PanelMessage`); /cabinet is a run of its own, for one topic and
no tenant (`CmdCabinet`, `EnsureCabinet`).

### Managers

`op` is where a handler is: `count` (the plan's limit), `look` (the row it finds), `write`;
and the limit it has read, with the tenant, when it started. The five kinds of handler are the
commands, a contact in the panel, and the owner's registration (by /setup, /start or the master
bot). `SetTenantLimits` is what a trial or a payment does to the limit, at any time; it may
leave fewer places than there are managers, and removes nobody. `exempt` and `ceiling` are
history: the active managers no limit was checked for, and the limit by which a handler was
last let through. What a removal does to reminders is `DeactivateManager` of `Reminders`.

### TenantLimits

The API counts leads and the bot enters managers; what they share is the row of the tenant. One
UPDATE, `set_tenant_limits`, changes both limits (`SetPlan`), and waits for a request that holds the
row. `TenantKeepsBoth` proves that the composition is a behaviour of either component.

### LeadForm

The value of a field is the number of the form it was typed for, so that `MadeOfOneForm` can
tell forms apart. A handler's `at` separates what is separate in the context and in Telegram:
guard, `update_data`, `set_state`, forgetting the prompt, posting the next, remembering it;
then read, create and commit, the messages, `state.clear`. `overlap` says what has ever
overlapped: nothing, presses of a confirmation, or any handlers.

### SafeSender and MessageDeletion

`SafeSender` has the steps of one call of `_call`: wait in line, hold the lock through the
delay, call, be told to retry, try again. Its callers are coroutines: in `MessageDeletion`
the handler of each message, and the worker. `due` and `heap` are the jobs (Redis has a score
per message, the memory a job and heap entries), `batch` what a round has read, `owed` and
`deadlines` are history. A handler sends a message and schedules its deletion; pressing a
button deletes it, and if that fails takes the buttons off, sets a last text and schedules
again. What Telegram did may differ from what it answered (`Done` or not, both with an error).

## 3. Runs

Deadlock checking is off where a bounded instance ends: the leads are all closed,
the last day or month is over. `LeadCards` covers deadlock by `SomeSyncGoesOn`.

| run | instance | properties |
|---|---|---|
| `lead` | 2 leads, 2 managers, an admin, 2 sessions, symmetric | `IInv`, `HistoryIsAPath`, `OwnerIsLastActor`, `ArchiveIsOfClosedLead`, `NoLostUpdate`, `ImplementsPipeline` |
| `reminders` | 2 reminders, 2 faults, delays 1 and 2, lease 2, back-off 1 and 2, 3 attempts | `Inv` (`NoneStranded`), `NoNeedlessDuplicate`, `CancelledIsNotSent`, `EventuallySettled` |
| `cards` | one lead, 3 syncs or refreshes at a time | `Inv` (`ActiveCardIsNotLost`, `RowsMatchMessages`), `SerialCardInPlace`, `SomeSyncGoesOn` |
| `subscription` | a host, a guest it brought, a payment each, 2 sessions, one fault | `Inv` (`CreditedOnce`), `SerialNoFreeDays`, `SerialNeverShortened` |
| `subscription_live` | the same with one payment and one session, a crash | `ExpiredLosesAccess`, `PaidIsCredited` |
| `tenant_limits` | plans for 1 manager and 2 leads, for 2 and any, for any and any; 3 users and 2 handlers, or 2 requests and 3 months | `Inv` (`Known`), `LimitBounded`, `EnteredIsManager`; `QuotaInv` (`CounterIsExact`), `QuotaHolds`, `NoFalseRefusal` |
| `dialogs` | 2 leads, 2 prompts, 2 menus, 2 handlers, one failure | `Inv` (`AnsweredOnce`), `TypedReplyReachesItsLead`, `AwaitedIsAsked`, `CancelledIsForgotten` |
| `setup` | 2 tenants, 2 groups, 2 runs, topics of a menu, the panel and the cabinet, one fault | `Inv` (`OnboardedHasTopics`), `BoundOnce`, `NoDuplicateTopics`, `SetupRepairs`, `CacheFollowsRows` |
| `form` | 2 forms, 2 handlers, one failure | `FormInv` (`MadeOfOneForm`), `OneLeadPerForm`, `AwaitedIsAsked` |
| `sending` | 2 messages and the worker, Redis or memory, one fault | `Inv` (`NoEarlyDelete`), `SpacedCalls`, `EveryCallEnds`, `OwedIsTried` |
| `dialogs_reason` | 2 leads, 2 menus of reasons | `ReplyReachesItsLead`: finding 1 of section 5 |
| `lead_archive` | a lead, a manager, one session | `ArchiveHistoryEndsWithFinalStatus`: finding 2 |

What they show, and why the bounds are enough:

* `lead`. Two handlers suffice for every race on a row: an UPDATE conflicts with one
  other at a time, and the rest wait. Two managers and the admin make "own", "foreign"
  and "any" lead; a managerless PATCH is the fourth case. `CONSTRAINT Bounded` splits
  the instance: two sessions on one lead, or a lead and its copy with one session,
  since leads share no state but the clone's read; a session that finds the lead closed
  is alone. The whole history is kept.
* `reminders`. Two reminders are what one replacement needs. A back-off shorter than
  the lease and one longer are the two orders the code has (60 s, 300 s, then more,
  against 300 s); three attempts are the code's own structure in small (first, middle,
  last). A behaviour has either crashes alone or every fault (`MCEnvironments`): the
  promises that hold under crashes alone say `env = {}`. A lease of 2 leaves room for a
  restart before it is over and after. `Bounded` allows two faults to one
  reminder, or one fault while a reminder replaces another.
* `cards`. Three at a time: one that has archived, one that has posted, one that begins.
  A lead has at most four transitions and the fifth status completes the paths. Once
  something has failed, two at a time (`Bounded`).
* `subscription`. Overlapping activations are checked for `CreditedOnce`; the other two
  hold only as long as activations do not overlap (ghost `overlapped` of
  `SubscriptionSerial`), see section 5. A payment of each tenant lets the bonus meet the
  referrer's own time. Trials are tried one at a time, before any fault and without
  overlapping activations; `SerialNeverShortened` excepts the one write that cannot know of
  a payment (section 5). The job and the middleware only withdraw
  access, which these properties do not mention, so they do not overlap with
  activations (`Bounded`); in `subscription_live`, whose properties do, they overlap freely. Days are few: a period of 2 and a trial of 1 give "expired",
  "last day" and "ahead".
* `tenant_limits`. Managers and leads do not read what the other writes, so a behaviour has the ones
  or the others (`MCNext`), and the plan changes beside them: up, down, to none, while one of the
  handlers is free. The plans have the shape of `PLAN_LIMITS` (trial limits both, base the managers,
  pro nothing). Two handlers are the least that counts together, three users leave one who is past
  the limit. Two requests
  are one that waits and one that commits, since the row lock admits one at a time; three months:
  a stale month may be the one before and two before. Both parts are proved for any number.
* `dialogs`. Two handlers interleave at every step. Two leads and two prompts are the least
  that confuses an answer. `Bounded` keeps overlaps to dialogs about amounts and failures to
  dialogs about reasons, which between them have every step of prompt, menu and data, with
  one handler at a time once something has failed, and lets one prompt at most outlive its
  TTL, with no menu in the chat; the proofs need none of this.
* `setup`. A topic with a menu, the panel's and the cabinet's stand for the classes of
  TOPIC_SPECS. Six topics are both groups set up; `Bounded` allows one deleted topic, of
  five, no fault during a lookup, and neither faults nor deletions, and four topics, in
  behaviours in which runs have overlapped.
* `form`. Two forms are the least that can be mixed. Presses of a confirmation overlap freely;
  other handlers do not (`Bounded`), since no property but the types is about them.
* `sending`. Two messages and the worker are three in a line; the delay of a call is 2, and every
  other time is 1 or 0, so that each can pass before, during and after a call. One handler
  at a time beside the worker, and buttons of one message only (`Bounded`); a button is
  pressed once. What `Bounded` cuts off are steps of the environment, which are not fair, so that
  the liveness properties lose no fair behaviour of what remains.

Bounds in guards: `MaxSyncs`, `MaxCrashes`, `Horizon`, `MaxExtends`, `MaxFaults`,
`MaxMonth`, `MaxLeads`, `MaxPrompts`, `MaxMenus`, `MaxFails`, `MaxForms`, `MaxThreads`, and
`pressed` of `MessageDeletion`.

### Fairness

* `Reminders!LiveSpec`: weak fairness of a running job's steps, of a handler's commit,
  of the restart and of time. The event loop runs what is ready, docker restarts the
  bot (sooner or later than a lease, nothing is said of when), APScheduler runs what is due
  (misfire grace of an hour). Crashes are not fair and are bounded: with a crash at every
  attempt nothing is ever delivered. A reminder that a crash interrupted in mid-delivery may
  be forgotten by a restart that comes too soon, and `EventuallySettled` says so.
* `Subscription!Fairness`: weak fairness of a session's steps and of the job; strong
  fairness of a notice's reception, because YooKassa repeats what is not answered, and
  of the job's deactivation of a tenant, because an UPDATE waits in PostgreSQL's queue
  for a row that is locked now and then. Time is not fair: nothing must happen soon.
* `MessageDeletion!Fairness`: weak fairness of each handler's next step, of each call (the lock
  is served in turn, Telegram answers), of the worker and of time. Sending, pressing and faults
  are not fair; faults are bounded, as a worker that always dies deletes nothing.

## 4. Proofs

Every component has its proofs, in eight modules: `<Component>_proofs`, but for
`TenantLimits_proofs` (`Managers`, `LeadQuota` and their composition) and
`GroupLeads_proofs` (`LeadCards` and `LeadForm`: a lead in the group). They hold for any
sessions, runs, handlers, leads, managers, payments, messages, topics, limits and delays,
from the named assumption of each component (`LifecycleAssumption`, `QuotaAssumption`,
`SenderAssumption`, `DeletionAssumption`, `ManagersAssumption`, `SubscriptionAssumption`,
`TenantLimitsAssumption`, `SetupAssumption`, `RemindersAssumption`, `CardsAssumption`, `FormAssumption`,
`DialogsAssumption`): markers are outside the sets they mark, no manager is an admin, delays,
attempts, back-offs, periods and trials are at least 1, handlers and the worker are the
callers of the sender, nobody refers itself, TOPIC_SPECS and the menus are not empty, and
finitely many updates are handled at the same time. The models' bounds (`Horizon`,
`MaxFaults`, `MaxThreads`, ...) are constants like any other: what is proved holds for all
of them. No theorem assumes the `Bounded` of an MC module.

**Lead lifecycle.** `NoLostUpdate` is not inductive: that the row still satisfies the
WHERE clause of an uncommitted UPDATE follows from the lock. `IInv` adds, for every
session, what it owes to the row it has locked (`Held`: the lock is its own, the WHERE
clause matches, the draft follows from the committed row), where it may stand
(`Asked`), that the status it names is one the lead has been in (`Past`), and that the
history accounts for the status (`Accounted`). `Inductive` is the invariant, one step per
action; from it follow

* `TypeCorrect`: `TypeOK`;
* `NoUpdateIsLost`: `NoLostUpdate`;
* `HistoryIsTruthful`, `HistoryIsAlwaysAPath`: the history tells the status, and is one
  path, on which a rejection names a status the lead has really been in;
* `OwnerIsTheLastActor`: the manager of a lead is the last its history tells of, and until
  then the one it was created for; he changes only with the history;
* `ArchiveIsTrue`: an archive has the status of its lead, and the manager if one closed it. It
  needs one more invariant, `Seen`: what the stale Lead object of a session may still be when
  the archive is built from it;
* `PipelineIsImplemented`: `ImplementsPipeline`, that is, a commit is a step of
  `LeadPipeline` and everything else a stutter.

**Quota.** The counter is exact because the row lock keeps what an open transaction has
computed (`RowLocked`) true until it commits. `QuotaInvariant` is `QuotaInv`; from it
follow `CounterIsAlwaysExact`, `QuotaIsNeverExceeded` and `NoRequestIsRefusedFalsely`.
Here the two action properties say of a step what the state before it allows.

**Sending.** Whatever a handler, the worker, a restart or time does is, for the sender, one of
its own steps (`EveryStepIsASenderMove`). `SpacingInv` says that who holds the lock is the first
in line and sleeps at least what is left of the delay, and that the limiter's clock runs with
Telegram's; `SpacingInvariant` proves it and `CallsAreSpaced` is `SpacedCalls`. Without the
first part two callers could hold the lock, and the second would have slept too little.

`NothingIsDeletedEarly` is `Inv`, with `NoEarlyDelete`. Its invariant `DeletionInv` adds `Planned`:
every job, in Redis or in the heap, and every message a round has read, carries a time that was
set for it. It cites the properties of the line (`LineInv`), since a handler's next step
depends on whether its call has ended.

**Reminders.** `IInv` says for each reminder that a job that runs has a row and has counted its
attempt (`Started`), that while it may still be sent all messages of it are unrecorded ones (`Unsent`), and that a handler's
uncommitted reminder has a job at its time and what it replaces is there (`Prepared`). From it
follow `NobodyIsStranded` (`Inv`, with `NoneStranded`), `NothingIsSentTwice` (`NoNeedlessDuplicate`)
and `NothingCancelledIsSent` (`CancelledIsNotSent`). The first holds without faults but crashes,
with the restart at any time; the other two through every fault. The last needs that a reminder that
was cancelled in time stays closed, and that the deliveries of it that still run are at most about
to read it again.

**Cards.** `CardsInv` holds however syncs and refreshes overlap and fail: the lead has been where its status
says (`Before`), hence each status has one sync; what a sync has read is a row that is there
(`SyncOK`), and a row belongs to a sync that has ended and posted its message (`RowOK`). A
commit that deactivates rows inserts its own, so the last active row never goes. From it follows `ActiveCardStays` (`Inv`). `SerialInv`, as long
as nothing overlaps or fails, says there is one sync and what it has done so far to the messages and
rows (`Alone`); from it follows `CardIsInPlace` (`SerialCardInPlace`). For the proof `began` keeps
the place of a transaction that failed: it orders rows, and a failed one leaves none.

**Form.** `FormIInv` has four parts.

* `FormTypeInv` holds whatever overlaps: what a handler has at each place (`Sound`) is a field and a
  form that was begun. That no form is begun beyond the bound needs the handlers that are about to
  begin one, counted.
* `FormSerialInv`, as long as nothing overlaps but presses of a confirmation: the fields are of
  the form begun last or empty, and so are the prompt and what each handler holds (`Current`). A lead
  made so far is of one form. From it follows `FormsAreNotMixed` (`FormInv`).
* `CountInv`, as long as nothing has failed either: a form that may be confirmed again (`Open`) has
  made no more leads than there are handlers that have created one and have not left yet
  (`Created`): each of them is going to clear the context. So the last of the presses that overlap
  closes the form, and a form makes at most one lead for each handler, or one without overlap
  (`OneLeadForEachPress`).
* `AskedInv`: but for a handler between two states (`Between`), what is awaited was asked
  (`AwaitedWasAsked`).

The proof found the update of `overlap` in `Begins` written as a CASE with guards that could hold
together; it is an IF now. `MadeOfOneForm` and `AwaitedIsAsked` were stated for handlers that never
overlap, and hold with presses that do: they, and the exact bound of one lead, are stated so now.

**Dialogs.** All theorems are about any number of handlers that interleave and fail at any step.
`DialogsAreTyped` is `TypeInv`: what a handler works on is a lead, and a prompt that was sent for
it. `IInv` (`DialogInvariant`) adds three parts:

* `OpenedInv`: the context, and what is in a handler's hands, hold no lead but one turned to since
  it was cleared. From it follows `CancelledLeadsAreForgotten`.
* `PromptInv`: a prompt is stored in the context by the handler that posted it and by no other, so
  that one whose answer was dealt with, and which was therefore dropped from the context, never
  comes back. From it follows `AnswersAreUsedOnce` (`Inv`, with `AnsweredOnce`).
* `DialogInv`, as long as the context is not `muddled`: how far the dialog has come (`Follows`), and
  that the prompt in the context asks for what the state awaits (`Prompted`). The lead that it
  compares excepts the reason, which is finding 1. From it follow `TypedRepliesReachTheirLeads`
  (`TypedReplyReachesItsLead`) and `AwaitedWasAsked` (`AwaitedIsAsked`).

The premise of the last two is a history, not an assumption about the behaviour: handlers may overlap
before and after, and the promise is back once the context has been cleared. It cannot be dropped:
without it TLC finds the lead of one handler with the prompt of the other (section 5).

**Managers.** `Inv` is inductive with `LimitBounded` and the finiteness of the active managers
(`IInv`); `Known`, what each handler has read and may still rely on, is part of it. From it
follow `HandlersKnow` (`Inv`), `LimitIsBounded` (`LimitBounded`) and `WhoIsEnteredIsManager`
(`EnteredIsManager`). `LimitBounded` is the sharp bound for handlers that count before one of them
writes; it is inductive because it counts those that are about to write. It holds although the limit
changes, because it is about the limit by which a handler was last let through: that handler
has found fewer managers than this, whatever limits were before, and all others can add is one each.

**Subscriptions.** `PaymentsAreCreditedOnce` (`Inv`) needs, for each session, what it works on
(`Working`): whose payment it holds, that the payment is pending, and that no other session
holds it, which is the row lock. `NoDaysForFree` (`SerialNoFreeDays`) and `NothingIsShortened`
(`SerialNeverShortened`) hold as long as activations do not overlap, over the specification
with that history, `SubscriptionSerial`. Neither is inductive, since an activation writes an
absolute date it has computed from earlier reads; `SerialInv` adds what the reads are still good for
(`Knows`: a date read is within what its tenant is entitled to, and the date in the row is later
only by a trial), and that there are finitely many payments and friends to count (`Counted`), so that
one more is one more in `Entitled`. `NothingIsShortened` assumes that a trial is no longer than
a period and than a bonus, as in `config.py:27-29`: with a longer trial, a payment that has
read the tenant before the trial began would take days of it. The other theorems do not need this.

**Setup.** Four invariants, each relative to those before it:

* `SetupInv` holds however runs overlap, fail and die: rows and runs have topics made for that
  key in that group (`MadeFor`, `Own`), a run without an error has written all it has gone
  through (`Recorded`), and a run that is not to bind its tenant finds it bound, to its own group or to one
  that is complete (`Placed`). From it follows `OnboardedTenantsHaveTopics` (`Inv`).
* `SerialInv`, as long as runs do not overlap: one run at a time, whose unrecorded topics are
  there unless one was deleted since it began (`Whole`), and a tenant it will bind has no group
  yet. From it follow `RepairedGroupsAreWhole` (`SetupRepairs`) and
  `TenantsAreBoundOnce` (`BoundOnce`).
* `CacheInv`: a map that is read is up to date until it is cached, and the cache is, or is about
  to be invalidated. From it follows `CacheIsNotStale` (`CacheFollowsRows`).
* `TopicsInv`, as long as no handler dies either: every topic in Telegram is recorded or held
  by a run that is about to record it (`Accounted`), and a run knows the topics that are
  there and makes no other for their keys (`Knows`); in particular it creates one only where the row
  and the open transaction name none that is there. From it follows
  `TopicsAreMadeOnce` (`NoDuplicateTopics`). Without `lost` it is false: a handler
  that dies between `create_forum_topic` and its commit leaves a topic nobody has recorded.

The proof of `Own` found the step to the next topic (`NextTopic`) written with two
guards that could hold together, a choice TLA+ leaves open and TLC makes by order; it now asks for
the cabinet first, as `ensure_cabinet_message` is called from handlers of its own, without a next topic.

Each inductive invariant was checked by TLC on the instance of its run before it was proved;
the runs `lead` and `tenant_limits` check theirs (`IInv`, `QuotaInv`) as a property.

**Only model-checked.** Every invariant and action property of the runs is proved, but for
`SomeSyncGoesOn`, which is about `ENABLED` (`NoCircleOfWaits` proves that one of the syncs that run waits
for no lock; that its next step is then enabled is what the run adds). It and liveness under fairness (`EventuallySettled`,
`ExpiredLosesAccess`, `PaidIsCredited`, `EveryCallEnds`, `OwedIsTried`) are out of TLAPS's reach here.

## 5. Findings

Checked by a run that ends in a violation:

1. `dialogs_reason`: the custom reason takes its lead from the FSM context, not from
   its menu (`lead_callbacks_status.py:184`): with two menus open, the answer to a prompt
   that names lead A rejects lead B, against `docs/commands.md:22`.
2. `lead_archive`: the archived `status_history` lacks the transition that closed the lead, though
   `tests/test_lead_archive_layer.py:98` asserts that it comes last. The collection was loaded
   before the transition and is not refreshed (`lead_repository.py:225`).

Stated as a property that TLC refutes, with a configuration beside the runs:

* `CardFollowsStatus` (`LeadCardsRace.cfg`, module `MCLeadCards`): two transitions whose syncs
  overlap leave two active cards with buttons in two topics (`lead_service.py:449`);
  `README.md:105` says the card moves.
* `PaidIsCredited` after an error (`SubscriptionLostNotice.cfg`, `MCSubscription`): one error while a
  notice is processed is answered with `ok` (`yukassa_webhook.py:168`), YooKassa never repeats it, and
  the paid subscription that `master_bot/handlers.py:562` promises is never activated.
* `AddedIsManager` (`ManagersRestore.cfg`, `Managers`): `get_manager_by_tg_id` returns active managers
  only, so /add_manager inserts a second row for a removed one and the unique index refuses it
  (`setup.py:823`); the code that restores him and says so (842) is never reached. The same lookup
  (339) makes /setup fail for a removed owner. A contact in the panel does restore.

Met while modelling, reproducible by weakening the properties named:

* A lead created twice: by two presses of the confirmation, or by a second press after the
  answer to the first raised, when the lead is committed already (`OneLeadPerForm` allows one per
  press; `lead_callbacks_create.py:191-253`). An old confirmation creates the lead from the
  data of now, not the data it shows (`ConfirmedIsShown`).
* A message scheduled again while the worker deletes it loses its job in Redis (`Held` in
  `MessageDeletion`), and a delete that failed is not tried again.
* A trial overwrites a period that was paid between its check and its write
  (`tenant_repository.py:362`, `SerialNeverShortened` without its exception).
* /panel in any topic posts the panel there, though its answer says it works in the managers'
  topic alone (`panel.py:216`): only the lack of a topic is refused.
* `subscription_scheduler.py:21` says the warning is sent once; it is repeated on each of
  the last three days (`already_notified` holds for a day, 67-70).
* The hourly job deactivates by id what it has read expired (46-50), also a tenant who has
  paid in between; `tenant_middleware.py:87` likewise.
* With overlapping activations `SerialNeverShortened` fails without its premise: the bonus
  is an absolute date computed from an unlocked read and overwrites what the referrer has
  just paid for (`tenant_repository.py:440-447`). `SerialNoFreeDays` fails too: both grant
  the bonus of one friend.
* `app/db/models/tenant.py:60` says a scheduler resets the monthly counter; only the next
  month's first lead does, and `master_bot/admin.py:90` shows the old count until then.
* `lead_id` of the dialog is overwritten before the prompt is (`lead_callbacks_status.py:124`):
  with two overlapping handlers, an answer in flight reaches the other lead, and the prompt in the
  context may ask for something else than the state (`TypedReplyReachesItsLead` and `AwaitedIsAsked`
  without `muddled`). Two replies to one prompt that are handled at the same time are both applied.
* A restart faster than the lease forgets a reminder that the crash interrupted in mid-delivery
  (`Forgotten`; `reminder_service.py:243` against `lead_repository.py:951`), until the next
  restart. So does a commit slower than the due time (`NoneStranded` without `env = {}`).
* Reminders of a removed manager that are overdue, being delivered or just being set are sent to the
  group, and a delivery that fails is put off into the future for him (`lead_repository.py:968`).
* A trial after a payment lowers `max_managers` (`tenant_repository.py:379`), and more managers
  stay active than the plan has. The two add-by-contact and add-by-command limits only
  refuse new ones.
* `master_bot/handlers.py:283` promises the invited user a bonus that only the inviter gets.

## 6. Running

    tlc -config LeadLifecycle.cfg MCLeadLifecycle      # likewise the other runs
    tlapm LeadLifecycle_proofs.tla                     # and the other seven

The passing runs take between one and four minutes each on two cores.

## 7. Not modelled

* Texts, keyboards, parsing and validation: no state. HTTP limits of slowapi: a library's.
* Analytics and exports: reads. Tracing: logs. Bootstrap, configuration, health checks,
  migrations and scripts: run once, or wiring; their restarts are the crashes above.
* Panel and cabinet: which message of the topic is the pinned one (`panel_messages`), and their
  sections, which are reads and exports. Their topics are in `Setup`.
* `handle_menu_period` (`lead_callbacks_create.py:429`): a read. `batch_size` of the deletion
  worker: a round of more than 200 jobs.
* Company names, API keys and referral codes of a registration: one INSERT writes them.
* `_parse_amount` (`lead_callbacks_shared.py:56`) accepts `nan` and `inf`; amounts are not
  in the models, since no transition depends on them.
* What PostgreSQL, SQLAlchemy, Telegram, YooKassa and docker do is modelled from how the
  code uses them, and marked external in the map.

## 8. Plan

The core and the components around it are modelled, and what the runs check is proved as far
as the prover goes. What is left, in this order:

1. A composition of `LeadLifecycle` and `LeadCards` with two leads: that the statuses `LeadCards`
   assumes of the transitions (`Enters`, `Stale`) are those of `LeadLifecycle`, as a refinement.
2. `panel_messages`: two handlers that post the panel of one topic at once.
3. `Reminders` with slow commits: what exactly a commit after the due time strands, as `Forgotten`
   says it of a crash.
