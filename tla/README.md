# Verification of the AI Stock intent system

AI Stock watches Taiwan stock quotes on behalf of its users.  A user states a
trade intent (a price alert, a limit, market or trailing order, a TWAP plan); the
backend evaluates it against incoming quotes and, when its condition holds,
records a trigger, writes a notification and sends a Telegram message.  It never
places an order.  This directory holds TLA+ models of that backend, the TLC
configurations that check them and TLAPS proofs about them.

Paths below are relative to `src/src/app/` of the repository unless they start
with `docs/`.

## 1. Inventory

| Part | State it keeps | Operations | What makes it correct |
|---|---|---|---|
| Session rules (`domain/trading_session.py`) | none | phase, trading date, initial status, expiry cutoff | the four rules agree at 09:00, 13:30, midnight and over weekends |
| Core intent track (`commands/trade_intent_core.py`, `commands/trigger_intent_core.py`, `repositories/trade_intent_core_repository.py`, `services/quote_dispatcher_core.py`) | `trade_intent_core` rows, trigger rows, notifications | create, cancel, read, dispatch a quote, trigger, update a trailing baseline | one trigger per intent, final statuses, no duplicates, limits |
| Lifecycle (`commands/intent_lifecycle.py`) | none of its own | expire, activate | expired and triggered intents never come back |
| Quote provider (`services/quote/`) | subscriptions, last snapshots, listeners | startup, shutdown, subscribe, unsubscribe, tick and bid/ask callbacks | every open intent's symbol is subscribed, the limit holds |
| Quote evaluation (`domain/quote_evaluation.py`, `domain/price.py`) | none | evaluate one intent against one quote, ticks, trailing baseline | triggers exactly when the condition holds; a trailing baseline only moves the favourable way |
| Legacy track (`commands/trade_intent.py`, `commands/trigger_intent.py`, `repositories/intent_repository.py`, `services/quote_dispatcher.py`) | `trade_intents`, `trigger_events` | as the core track, frozen; still the store of TWAP | as the core track |
| TWAP (`domain/twap.py`, `commands/twap.py`, `services/twap_scheduler.py`) | `twap_slices` | plan, confirm, process due slices, price follow-ups, complete | lots add up, a slice is announced once, the plan completes |
| Kill switch (`commands/kill_switch.py`, `services/kill_switch.py`) | system flag, cached value | set, read with a TTL | nothing new fires while it is on |
| Idempotency (`services/idempotency.py`, `services/idempotency_cleanup.py`) | idempotency keys | run a request under a key, purge | a retried request takes effect once |
| Telegram drafts (`commands/telegram_intent.py`, `api/routes/telegram.py`) | interactions with a status and an expiry | message, confirm, cancel | a draft becomes at most one intent |
| Accounts (`commands/account.py`) | users, invitations | provision, invite, accept, disable, reactivate, resend | an invitation is used once, a disabled account is inert |
| Sessions (`commands/auth.py`, `commands/password_reset.py`, `commands/two_factor.py`) | refresh tokens, reset tokens, TOTP secrets | login, refresh, logout, reset, enrol | a refresh token has one successor, reuse of a rotated one ends the user's sessions |
| Rate limiting (`core/rate_limiter.py`) | token buckets | consume, reset | no more requests than capacity and refill allow |
| Notifications (`repositories/notification_repository.py`, `commands/notification.py`) | inbox rows | list, mark read | an owner sees only their own |
| Transport, schemas, templates, mail, migrations | | | |

How they interact: API requests run in a thread pool, quote callbacks in the
broker's threads, the TWAP worker and the cleanup in background tasks of the same
process.  Each handler opens its own database session, so all of them meet only
in PostgreSQL (READ COMMITTED, no serialisable transactions) and in the quote
provider, which is memory of the process.  Production runs one process
(`main.py`, `docs/architecture.md`), so a crash ends every handler at once and
empties the subscriptions.

What is hard: a handler is several statements long, and between two of them any
other handler may commit.  Cancellation reads and then writes without a lock;
the dispatcher evaluates a list it read earlier; duplicate checks and limits read
before they insert; the subscription of a symbol is shared by all its intents and
changed outside the transactions; Telegram is called before the commit; expiry
and activation are run lazily by whichever request or quote comes next.  Each of
these is listed, with its line, under `hazards` in `PROJECT.json`.

## 2. How the models are built

A handler of this backend is a few database statements and some memory of the
process.  In every module a committed row is a variable, a handler in progress is
an entry of `tx` (what it has read, what it has locked), and an action is what one
statement or one commit does.  Between two actions anything else may happen, as
under READ COMMITTED.  A statement that would wait for a row lock or for the index
entry of an uncommitted insert is disabled until it is released; a guarded UPDATE
is evaluated on the committed row when it runs.  Rollbacks, lost processes and
failing calls are actions of their own, bounded by `MAX_FAULTS`.

`CoreTrack` is the centre.  The other modules look at
one mechanism each, with what surrounds it reduced to what that mechanism sees:
`CoreTrack` leaves open what the evaluator answers and `QuoteFeed` computes it;
`CoreTrack` uses the answer of the kill switch and `KillSwitch` produces it.  They
share no variable, so TLC checks them side by side: a module
`MCRules`, `MCMarket`, `MCRequests`, `MCAccounts` or `MCProgress` instantiates
several of them, a variable `part` is chosen in the initial state, only the
instance it names moves, and a property reads `part = "x" => Instance!Property`,
sometimes for several instances of one question.
What one such run explores is the union of its instances, not their product.

## 3. What is modelled

### TradingSession, SessionClock

Minutes in Taipei time from a Monday midnight; a date is a day number.  The
operators have the names of `TradingSessionService`.  Holidays do not exist in
the code (it knows weekdays only) and so not in the model.  `SessionClock` walks
the clock minute by minute and checks what `LegacyProofs` proves of every instant.

### CoreTrack

State: the committed columns of an intent (`row`, `status`, `trigger`, `notes`),
the accounts (`users`), what the kill switch answers (`halt`), the provider's
subscriptions (`subs`), the clock and, per thread, the handler in progress (`tx`):
where it is, the row it works on, the time it read, the rows it has locked, the
intents it has listed, and those it has fired and not committed.

Four more record history that no column holds and no guard reads: `sent`, the
Telegram messages delivered for an intent since a rollback last took one back (the
sender is best effort, so a message may be lost and none is promised); `opened`,
the instant at which a creation was committed; `cut`, the symbols a cancellation
unsubscribed although an open intent, or a creation under way, relied on them; and
`past` of a handler: it had passed its check of the kill switch when the switch was
turned on.

| Action | Code |
|---|---|
| `BeginCreate` | admission of a request (`api/deps.py` get_active_user), or a Telegram confirmation |
| `CreateInsert`, `CreateReject` | limits, duplicate check, flushed INSERT, or an early error |
| `CreateSubscribe` | `reconcile_on_create` |
| `CreateCheck`, `CreateFire` | the inline trigger: kill switch and session are asked once; the quote is fetched and evaluated and the message sent afterwards |
| `CreateCommit`, `Abort` | commit or rollback |
| `CancelBegin`, `CancelRead`, `CancelWrite` | the lifecycle of the route, then `repo.cancel`: read, UPDATE by id, commit |
| `CancelCount`, `CancelUnsubscribe` | `reconcile_after_terminal_transition` |
| `DispatchCheck`, `DispatchLifecycle`, `DispatchList` | kill switch and clock; the lifecycle, which commits; the list of active intents, read after it |
| `DispatchSkip`, `DispatchBaseline`, `DispatchFire`, `DispatchCommit` | the loop over the listed intents and its commit |
| `ReadIntents` | the list and detail routes, which run the lifecycle |
| `DisableUser`, `ReactivateUser`, `SetKillSwitch` | the admin commands |
| `Crash`, `Boot` | end of the process, `lifespan()` |
| `Tick` | the clock |

Statements that wait for a row lock are disabled while another transaction holds
the row (`Free`); a guarded UPDATE is evaluated on the committed status when it
runs, as PostgreSQL re-evaluates its WHERE clause.  The index entry of an
uncommitted insert makes an equal insert wait (`IndexWait`).  What the evaluator
answers is left open: any listed intent may or may not meet its condition, so
everything shown holds for every quote.

Data that is abstracted: strategy, dedup key and quantity are one `key`; prices,
templates and audit rows do not appear; the lifecycle's two UPDATEs and its
commit are one step (both are guarded by status, and run in one transaction).
`CreateInsert` counts, looks for duplicates and inserts in one step: what may
happen between these statements is the commit of another creation, and to the
count it makes no difference whether that comes just before or just after the
insert, while the unique index decides about duplicates when the row is flushed.
`halt` is the switch as `is_halted()` answers it.

### IntentContract

What an intent promises its owner, with no threads or transactions in sight:
`absent`, `open` or `closed`, and a number of notifications.  It opens at most
once, closes at most once, and its notification is recorded by the very step
that closes it.  `CoreTrack` implements it (`KeepsContract`) under the mapping
`life` = status class, `told` = notification rows.

### Prices and quotes: Price, PriceLadder, QuoteEvaluation, QuoteFeed

`Price` has the operators of `domain/price.py` over ten-thousandths of a dollar,
the resolution of the columns: tick tables, `nearest_lower`, `nearest_upper`,
`validate`, and the stop of a trailing alert.  `PriceLadder` raises a price in
steps of 50 units through every boundary of the tables and carries along the
highest legal price it met, the reference definition of rounding down.

`QuoteEvaluation` is `QuoteEvaluator.evaluate` and `QuoteValidator.validate` on one
snapshot and one intent.  `QuoteFeed` is the way of a quote there: `Startup`,
`Subscribe` (two SDK calls, the second of which may fail), `Unsubscribe`,
`Shutdown`; a callback of a channel (`Tick`, `BidAsk`) normalises and merges into
the cached snapshot under the provider's lock; its listener then lists the intent
(`DispatchList`) and writes what the evaluator said (`DispatchWrite`) outside it,
on the thread of the channel.  With `Serial` a dispatch ends before the next
callback; with `Churn` the symbol is unsubscribed and the provider restarted.

### Subscriptions

The quota, the allowlist and the two tables that need symbols.  `Insert`,
`reconcile_on_create`, `CommitCreate`, `RollbackCreate` are a creation of either
track; `ReadForCancel`, `CommitCancel`, `CountRemaining`, `reconcile_on_terminal` a
cancellation, which counts in the table of its own track; `Close` a trigger or an
expiry, which releases nothing.  `cut` is the history of the symbols a cancellation unsubscribed
while they were needed, until they are subscribed again.  `BeginLegacySeed`,
`SeedOne`, `BeginCoreSeed`, `Serve`, `StartupAborts`, `Stopped`, `Shutdown` are
`lifespan()` in `main.py`.

### TwapPlan, Twap

`TwapPlan` is `build_twap_plan`: its checks in order, the window (rounded up to the
next second), the number of slices, and `_allocate_slices` as a loop.  `Twap` has
the rows of a plan: `Confirm`, `CommitConfirm`, `ReplyDuplicate` with the two
unique indexes; `ReadForCancel` and its write; the worker's phases (`BeginPhase`,
`Load` with FOR UPDATE SKIP LOCKED, `CommitDue`, `CommitFollowups`, `Fail`); expiry,
account cascade, `SetHalt`, `CoreUnsubscribe` and `Restart`.  The feed may report
zeros (`ReportZero`; a side of the book without orders is kept as a price), which
the CHECK of `twap_slices` refuses: the flush of such a slice fails and takes its
whole phase with it (`FlushFails`), as often as the scheduler tries.  `turn` is the
place of `run_forever` between its two phases.

### LegacyTrack

The frozen track with its dispatcher, which evaluates all listed intents in one
transaction and triggers each in a savepoint, and the dev route that does the same
under a row lock.  The dispatcher's lifecycle commits (`RunLifecycle`) before its
list is read (`ListActive`); the history variable `late` has the rows whose creation
was committed after their trading date, which such a list may contain.  It too
implements `IntentContract`.

### KillSwitch, Idempotency

`KillSwitch`: `Upsert`, `CommitToggle` and the invalidation of the toggle;
`FlipInDatabase` for an operator; a read is answered from the cache, or reads the
flag under the lock of the provider and stores it (`BeginRead`, `StoreAndAnswer`,
`ReadFails`).  `Idempotency`: `Replay` or `Miss`, `Execute` (a creation, in its own
transaction), `Record`, where the unique index picks a winner, `Stop` of the
process, and the record's TTL.

### TelegramDraft

Messages with what the language model made of them, the interaction row, the bot
message as the group sees it (`shown`) and presses on it that are delivered late or
twice.  `BeginConfirm` claims the row, `CreateCommits` commits the claim with the
intent, `FinishConfirm` marks it confirmed.  `made` counts intents per draft.

### IntentShape, Pages, Inbox

`IntentShape` follows a body through the schema of its endpoint, the command, the
repository, numeric(9,4) columns, the dedup key and the response; a decimal keeps
the number of places it was written with, because Python's text of it is in the
key.  `Pages` is a client walking `GET /trade-intents` by cursor while rows are
created, closed, activated and touched.  `Close` is a trigger, which finds the row
active; `CancelReads` and `CancelWrites` are a cancellation, which finds it open and
writes whatever it is by then; a baseline is written by id too.  A walk remembers
which closed rows were rewritten (`moved`) and whether the row of its own cursor
was among them (`astray`).  `Inbox` is the same for notifications, which
several windows mark as read.  Timestamps are those of the beginning of a
transaction, up to `LAG` before its commit.

### Accounts, RateLimiter

Every account, session, reset and second-factor command is a read (`Begin...`)
and a write with its commit; no read locks.  Ghost fields count uses (`used`,
`accepted`) and remember which secrets were verified.  `VerificationsAreAlone` says
that no verification of an admin overlaps a set-up, a bootstrap or a refresh of the
same admin, which nothing in the code ensures.  `RateLimiter` is one bucket:
`Arrive` reads the time, `EnsureRow` inserts, `LockRow` waits, `LoginFails` commits
what was taken, `LoginSucceeds` deletes the row.  `back` counts the ticks by which a
request that waited for the lock has set `updated_at` back.

## 4. Runs

| Run | Checks | Result |
|---|---|---|
| `core_races` | two threads, two intents, one owner with a Telegram group: `FiredIsClosed`, `TriggerIsRecordedOnce`, `MessageStandsForOneTrigger`, `FiredByItsTradingDate`, `NoDuplicateOpen`, `SubscribedUnlessCut`, `HaltSilences`, `RewrittenByStaleCancel`, `KeepsContract` | pass |
| `core_serial` | one thread, two intents, two owners, two symbols and one slot: `TypeOK`, `DisabledOwnerIsClosed`, `TerminalIsFinal` | pass |
| `rules` | the pure rules, see below | pass |
| `market` | quotes, subscriptions, legacy track, TWAP | pass |
| `requests` | kill switch, idempotency, Telegram, pages, inbox | pass |
| `accounts` | accounts, sessions, rate limits | pass |
| `progress` | liveness | pass |
| `core_limits` | `LimitsHold` with two threads, one intent per owner | violated |
| `core_cancel_race` | `TriggerSurvivesCancel` (docs/domain.md line 39) | violated |
| `core_unsubscribe_race` | `OpenIntentIsSubscribed` with two threads | violated |
| `core_leftover_subscription` | `TerminalReleasesSubscription` (docs/architecture.md line 39) | violated |
| `core_disabled_owner` | `DisabledOwnerIsClosed` with a Telegram draft | violated |

### The core track

What `core_races` checks holds for every interleaving, and says what is left of
the stronger statements that the violated runs refute:

- a terminal status is rewritten, but only by a cancellation that had read the
  intent while it was open (`RewrittenByStaleCancel`), and it never becomes open
  again (`FiredIsClosed`);
- an open intent loses its subscription, but only to a cancellation whose count was
  stale (`SubscribedUnlessCut`);
- a message may be lost, and one whose transaction is rolled back stands for
  nothing, but no two delivered messages stand for one trigger
  (`MessageStandsForOneTrigger`);
- a dispatch fires an intent after its trading date only if the creation was
  committed after that dispatch had begun (`FiredByItsTradingDate`): what is
  inserted on Friday and committed on Monday, between the lifecycle and the list of
  a dispatch, is listed unexpired;
- while the kill switch is on, handlers that had passed their check still send, and
  nobody else does (`HaltSilences`).

The properties of `core_serial` are true only as long as requests do not overlap
and no Telegram draft outlives its account; `core_disabled_owner` needs no overlap,
only such a draft.  `findings` in `PROJECT.json` quotes the lines the violated runs
contradict.

Two threads are enough for every race between two handlers; two intents for
duplicates and for a count that sees one of two.  In `core_serial` two symbols share
one slot, so that the quota is met.  The instants Friday 09:00, Friday 13:30 and
Monday 09:00 are inside a session, the boundary at which intents expire and new ones
are scheduled over the weekend, and the session in which these are activated.

### `rules` (MCRules)

| Part | Instance | Properties |
|---|---|---|
| clock | every minute of two weeks | `NewIntentIsLive`, `ExpiryIsMonotone` |
| ladder | climbs of 20 dollars that start below zero and under each boundary, both security types, percentage and fixed trails | `PricesMatchReference` (both roundings, validation, stops), `StopRisesWithBaseline` |
| plan | requests and instants on both sides of every limit of a plan | `PlanIsExact` (date and status, instants, lots) |
| shape | bodies of every strategy, prices and trails with trailing zeros, too many places, off the tick or missing; three open rows | `DuplicatesAreExact`, `EchoesRequest` |

### `market` (MCMarket)

| Part | Instance | Properties |
|---|---|---|
| alerts, churn | both channels, prices around a target of 100, missing, zero and crossed, the last twenty seconds of a session; churn adds unsubscription and restart of the provider | `FiredByTheRule`, `OpenIsStreamed` (the provider's half: subscribed means streamed) |
| trail, serial trail | a stop five dollars or five percent under the top; dispatches overlap, or do not | `StopTrailsTheHighest` (that the stop matches its baseline in both, that the baseline is the highest in the second) |
| slots | a plan and two core intents, four symbols of which three are allowed, a quota of two, two requests, two failures, cancellations at any point | `OpenIsStreamed` (open means subscribed, and what is open fits the quota at startup; unless a cancellation unsubscribed what was needed) |
| legacy, dev | two threads over a weekend, two intents; dev has one intent, the dev routes and trailing stops | `LegacyTriggerIsSound`, `KeepsLegacyContract` (dev) |
| confirm | three plans of two owners confirmed by two requests | `OnePlanPerSide` |
| worker | a plan of two slices, the scheduler and a dev request as workers; cancellation, account cascade, quotes, restart and unsubscription | `OpenMeansWorkLeft`, `NotifiedOnce`, `NoSliceAfterClose` |

### `requests` (MCRequests)

| Part | Instance | Properties |
|---|---|---|
| toggle | two admins, two readers, TTL 2, three flips | `HaltIsCurrent` (a toggle takes effect at once) |
| stale | as toggle, one admin, and flips in the database | `HaltIsCurrent` (answers are younger than the TTL) |
| race | two requests, keys and payloads within the TTL, one stop of the process | `OneAnswerPerKey` (replies agree) |
| retry | one client over two TTLs, no failures | `OneAnswerPerKey` (the request runs once) |
| press | one draft, two webhooks, two messages, one failure of any call but the commit | `ConfirmationIsExact` (one intent per draft, as shown) |
| merge | two drafts, merged from clarifications | `ConfirmationIsExact` (a draft with a button is complete) |
| listed, closed | three intents, pages of one, both orders of the list; in closed one is a trailing stop and one may be cancelled, both written late | `WalkIsComplete` (nothing skipped, nothing repeated, except what was rewritten after it was closed and walks whose cursor was) |
| unread | three notifications, the unread filter, two windows | `WalkIsComplete`, `ReadersAgree` |

### `accounts` (MCAccounts)

| Part | Instance | Properties |
|---|---|---|
| factor | two commands at a time: bootstrap, disabling, sessions and second factor, restricted to `VerificationsAreAlone` | `EnabledSecretIsVerified`, `SessionStepsAreSafe` (revocation is final, a refresh carries the second factor) |
| invite | two commands at a time on the life of an account, mails that fail | `InvitedHasInvitation` |
| sessions | two commands at a time on sessions and resets | `SessionStepsAreSafe` (revocation is final) |
| window | three overlapping attempts, no refill | `AdmissionsAreBounded` |
| refill | two overlapping attempts, with refill and successes | `AdmissionsAreBounded` (up to the ticks that were set back) |

One user is enough: no command touches the rows of two.  Two or three rows per
table are enough for an old link beside a new one and a chain of two refreshes.

### `progress` (MCProgress)

| Part | Property | Fairness, and why the code gives it |
|---|---|---|
| twap | `DueIsHandled`: a due slice or follow-up is handled unless the session ends, the switch is on or the plan closes; a slice if zeros are not reported for ever, see section 5 | weak, on the scheduler's steps: `run_forever` catches every exception and sleeps a second; and on an open request: transactions end.  One transaction may fail |
| slots | `RestartServes`: a stopped process serves again | weak, on startup: the container restarts the process; two failures.  The quota holds all symbols, see section 5 |
| draft | `ConfirmingIsResolved`: a claimed confirmation is confirmed | strong, on the steps of a confirmation: it waits for a row lock that others take and release, and PostgreSQL queues waiters; weak, on webhooks that hold the lock.  No failures, see section 5 |

For the core track no liveness is claimed: expiry and activation run only when a
request or a quote arrives, and the code has no scheduler for them, so no fairness
is justified.

Deadlock is not checked in `rules`, `market` and `progress`, where a clock stops at
its horizon, a plan is complete, or all rows are used up; it is checked in all
other runs.

## 5. Disagreements

Five have runs of their own (section 4).  The others below were met while the
modules were written; TLC finds each of them on the instance described, with the
property named, which is defined in its module.  Where a
passing run checks the same property, it leaves out the circumstance named here.

| Where | What the code does | What is said | Property and instance |
|---|---|---|---|
| `domain/price.py:121` | a price of zero or less gets the tick of the lowest row; fixed trails larger than their baseline rely on it | lines 118-119: "will silently fall through to the highest tick bucket" | `PriceLadder!NonPositiveFallsToTopBucket`, part ladder |
| `repositories/trade_intent_core_repository.py:314` | a dispatch that listed an old baseline writes over a higher one committed meanwhile | docs/domain.md:23: "追蹤日內最高參考價" | `QuoteFeed!BaselineIsHighest`, part trail |
| `domain/quote_evaluation.py:83` | nothing calls `QuoteValidator`; a buy fires on a quote it refuses | `services/quote/validation.py:3-5`: snapshots pass "through the same checks before they reach the evaluator" | `QuoteFeed!FiredOnValidatedQuote`, part alerts |
| `db/models/core.py:152` | a short plan with the quantity of an open long one is refused as a duplicate, by the index of the other strategies | docs/domain.md:53: "TWAP 以 owner、symbol、position side 與交易日防止重複有效計畫。" | `Twap!DuplicateOnlyPerSide`, part confirm with equal quantities |
| `commands/twap.py:222` | a follow-up is sent for a plan the account cascade closed | `commands/account.py:343-344`: a partial cascade would "繼續觸發、繼續發通知" | `Twap!DisabledGetsNoNotification`, part worker |
| `commands/twap.py:310` | a bid, ask or last price of zero is kept by `normalize.py:41-48`, fails the CHECK of `db/models/core.py:217-220` at the flush and rolls back all slices of the phase, every second for as long as the zero stands | docs/notifications.md:71: "TWAP scheduler 為每個到期 slice 建立一筆通知" | `Twap!DueIsHandledAtAnyPrice`, part twap of `progress` |
| `services/quote/intent_reconciler.py:62` | cancelling the last core intent on a symbol unsubscribes an open TWAP plan | `repositories/intent_repository.py:531-532`: "only fire when **no** active intent (from any owner) still wants the symbol" | `Subscriptions!OpenPlanIsStreamed`, part slots |
| `main.py:79` | the slot freed that way is taken, and the next startup is refused | `main.py:46-47`: "read every active/scheduled intent from DB and `subscribe()` its symbol" | `Subscriptions!SeedIsAlwaysAdmitted`, part slots with a third core intent |
| `services/idempotency.py:71` | a stop between effect and record lets a sequential retry run again | lines 12-13: "replays without re-executing" | `Idempotency!RunsOnce`, part retry with a fault |
| `services/idempotency.py:68` | of two requests that find an expired record, the slower deletes the live record of the faster | line 4: "return the stored response, no re-execution" | `Idempotency!RepliesAgree`, part race over the TTL |
| `commands/telegram_intent.py:222` | an error after the creation's commit leaves the draft confirming, and the chat can do nothing else | lines 223-224: "Keep the draft pending so the user can retry" | `TelegramDraft!FailedCreateKeepsPending`, part press |
| `api/routes/telegram.py:118` | a commit that fails after the message was edited lets a press confirm other values | `commands/telegram_intent.py:265-267`: "must not silently overwrite the confirmation currently shown" | `TelegramDraft!CreatedAsShown`, part press with `COMMIT_FAILS` |
| `repositories/trade_intent_core_repository.py:324` | a late baseline write moves a closed row down the list, and the walk skips rows | `src/tests/test_trade_intent_core_repository_integration.py:385`: "三筆不重不漏" | `Pages!EverythingShown`, part closed |
| `repositories/trade_intent_core_repository.py:286` | a cancellation that read the intent while it was open writes `updated_at` after a trigger closed it: a row already passed moves to the top of the list, and a walk whose cursor it is starts over there | the same test | `Pages!EverythingShown`, part closed |
| `commands/account.py:289` | a form sent twice accepts an invitation twice; a reset link behaves alike (`ResetUsedOnce`, part sessions) | `api/routes/auth.py:197`: "邀請連結已被使用" answers the second | `Accounts!InvitationAcceptedOnce`, part invite |
| `commands/auth.py:342` | a verification during a refresh is lost to the successor | lines 123-124: it "survives access-token rotation" | `Accounts!StepUpsAreCarried`, part factor without `VerificationsAreAlone` |
| `commands/two_factor.py:161` | a second set-up during a verification leaves an enabled secret nobody verified | `repositories/user_repository.py:63-64`: enabling "happens on the first successful verify" | `Accounts!EnabledSecretIsVerified`, part factor without `VerificationsAreAlone` |
| `commands/account.py:284` | an acceptance in flight makes an account active that was disabled meanwhile | `repositories/user_repository.py:103`: "Move an invited user to active" | `Accounts!OnlyReactivationEnables`, part invite |
| `commands/account.py:392` | an invited account, disabled and reactivated, is active without a password | line 371: "the user logs in afresh" | `Accounts!ActiveCanLogIn`, part invite |
| `core/rate_limiter.py:69` | a request that waited for the lock sets the time back, and the interval is refilled twice | lines 3-4: "concurrent requests serialise on it, refills lazily from elapsed wall-clock" | `RateLimiter!AdmissionsAreBounded`, part refill |
| `core/rate_limiter.py:55` | a success deletes the row between insert and lock of another request, which fails | line 47: "Ensure the row exists (full bucket on first touch), then lock it." | `RateLimiter!RowIsThere`, part refill |

## 6. Proofs

TLC looks at the instances of section 4; the theorems below hold for every value
of the constants that the named assumption allows: any threads, rows, owners,
symbols and instants, any quota, TTL, batch size or bound.  Each assumption asks
for natural bounds, disjoint kinds of threads and a `None` distinct from the values
it stands beside; an MC module states it of every instance it checks.
`NoneAssumption` is the last of these for the drafts: `None` is no interaction's id
and no interaction, which is so of the model value the instances use.

| Module | Theorem | Property | Assumed beside it |
|---|---|---|---|
| `CoreTrackProofs` | `TypeCorrect` | `TypeOK` | `CoreAssumption` |
| | `FiredStaysClosed`, `TriggerOnce`, `OpenIntentsDistinct` | `FiredIsClosed`, `TriggerIsRecordedOnce`, `NoDuplicateOpen` | `CoreAssumption` |
| | `AnnouncedAtMostOnce`, `FiredOnTime`, `HaltIsSilent` | `MessageStandsForOneTrigger`, `FiredByItsTradingDate`, `HaltSilences` | `CoreAssumption` |
| | `OpenIntentsSubscribed`, `OnlyCancelRewrites` | `SubscribedUnlessCut`, `RewrittenByStaleCancel` | `CoreAssumption` |
| | `ImplementsContract` | `KeepsContract`: the track implements `IntentContract` | `CoreAssumption` |
| `LegacyProofs` | `NewIntentsAreLive` | `LiveAt(t)` at every instant (`NewIntentIsLive` under the clock) | |
| | `ExpiryNeverRetreats` | the cutoff of a later instant is not earlier (`ExpiryIsMonotone` under the clock) | |
| | `LegacyTriggerIsAlwaysSound` | `LegacyTriggerIsSound` | `LegacyAssumption` |
| | `LegacyKeepsTheContract` | `KeepsLegacyContract`: the track implements `IntentContract` | `LegacyAssumption` |
| `TwapProofs` | `OnePlanPerSideAlways` | `OnePlanPerSide` | `TwapAssumption` |
| | `OpenAlwaysMeansWorkLeft` | `OpenMeansWorkLeft`, `ClosedHasNoPending` | `TwapAssumption` |
| | `AlwaysNotifiedOnce` | `NotifiedOnce` | `TwapAssumption` |
| | `NoSliceIsSentAfterClose` | `NoSliceAfterClose` | `TwapAssumption` |
| `AdmissionProofs` | `OpenIsAlwaysStreamed` | `Subscriptions!OpenIsStreamed`, `SeedIsAdmitted` | `SubscriptionAssumption` |
| | `AdmissionsAreAlwaysBounded` | `AdmissionsAreAccounted`, and `AdmissionsAreBounded` without refill | `RateLimiterAssumption` |
| `RequestProofs` | `HaltIsAlwaysCurrent` | `HaltIsCurrent` | `KillSwitchAssumption` |
| | `OneAnswerPerKeyAlways` | `OneAnswerPerKey` | `IdempotencyAssumption` |
| | `ReadersAlwaysAgree` | `ReadersAgree` | `InboxAssumption` |
| `DraftProofs` | `OneIntentPerInteraction` | `TelegramDraft!OneIntentPerDraft` | `NoneAssumption` |
| | `DraftsAreConfirmable` | `DraftIsConfirmable` | `NoneAssumption` |
| | `ConfirmedAsShown` | `CreatedAsShown` | `NoneAssumption`; no commit fails after a delivered reply |
| | `DraftsAreNeverRewritten` | no step changes the values of a draft, deletes it or reopens a claimed one | `NoneAssumption` |
| `AccountsProofs` | `InvitedAlwaysHasInvitation` | `InvitedHasInvitation`, `InvitationWasMailed` | `AccountsAssumption` |
| | `SessionStepsAreAlwaysSafe` | `SessionStepsAreSafe` | `AccountsAssumption` |
| | `EnabledSecretIsAlwaysVerified` | `EnabledSecretIsVerified`, `StepUpsAreCarried` | `AccountsAssumption`; `VerificationsAreAlone` throughout |

What is assumed beside an assumption is the circumstance under which the property
is true at all: section 5 gives the counterexample without it.  Other properties
carry theirs inside: `OneAnswerPerKey` (no expired record; one client),
`SubscribedUnlessCut` and `Subscriptions!OpenIsStreamed` (no cancellation has
unsubscribed the symbol), `AdmissionsAreAccounted` (the ticks set back).

Every proof has the same plan: an inductive invariant, the lemmas that every
action keeps it, and the theorems read off it.  None of the
properties is inductive by itself.  What the invariants add:

**Core track** (`IInv`, module `CoreTrackInvariant`).

- `RowsOK`: committed rows have columns, an uncommitted row belongs to exactly
  one thread and has no status yet;
- `LocksOK`: a row is locked by one thread, and no handler survives the process;
- `ThreadOK`: what a thread has fired is its own uncommitted row, or an active
  row it has locked, so no other handler can change that row's status before the
  commit; the evaluation was in session, and what was listed is not past its date
  unless it was committed since; a thread that may still send while the kill switch
  is on had passed its check before (`past`);
- `UniqueOK`: open rows and uncommitted rows are distinct together;
- `MessageStandsForOneTrigger` itself: the row lock keeps a second dispatcher from
  sending what a first one has fired and not yet committed;
- `SubsOK`: what an open intent or a creation past `reconcile_on_create` relies on is
  subscribed or `cut`.

A commit turns fired intents into triggered ones, and only the lock explains why
they were not closed by someone else meanwhile.  `HandlersNext` reduces each step
to the thread that takes it (`ThreadStep`): the others are spared.  `StepShape`
then says that every step is quiet or a commit, and the safety properties and the
contract follow from that alone, and so does `RewrittenByStaleCancel`, because a
quiet step rewrites a terminal status only as a cancellation.

**Legacy track** (`LegacyInvariant`).  `SoundRow`: nothing is written for an
intent before it closes, and what is written is one event and the one notification
of its strategy.  `SoundTx`: what a batch has staged is still active, because the
batch holds its row, and was listed on a day not after its date unless it is `late`.
`Swept`: once the lifecycle of a dispatch has run, what is still open is not past its
date or is `late`.  `Apart`: two transactions hold no row in common.  The refinement reuses the invariant: the step
that commits a batch closes and notifies, at once, exactly the intents it staged.

**TWAP** (`TwapInvariant`).  `SoundSlice` ties the counters of a slice to its
status; `SoundPlan` ties the status of a plan to those of its slices; `SoundRun`
says that the rows a worker has loaded are as they were when it locked them
(pending, of an open plan; or waiting for a follow-up), `RunsApart` that two runs
share no plan, `NoCollision` that the keys of committed and of flushed rows are
distinct together.  `CloseStep` covers every step that closes plans at once:
cancellation, cascade, lifecycle, restart and the commits of the worker.

**Subscriptions** (`SlotInvariant`).  As long as nothing is cut, what is subscribed and
what is open fit the quota together; each phase of the startup says what is
subscribed already and what is still in its loop.  **Rate limiter**
(`BucketInvariant`).  What was admitted plus what is left is at most the capacity plus
the refill up to the row's time, and of the ticks it was set back.

**Kill switch** (`SwitchInvariant`).  A value that was read or cached dates from a
moment at which the flag had it; only the holder of the lock has read one.
**Idempotency** (`IdemInvariant`).  Every reply is that of the record while no
record expires; an execution is followed by its record before the next request of
the same client.  **Inbox** (`MailInvariant`).  What was answered is what the row
holds.

**Telegram drafts** (`DraftInvariant`).  `WebhookOK` says what a webhook knows of
the rows it has locked, above all that the reply it is about to commit keeps the
values of a complete draft; `LocksOK` that no other webhook holds them; `MadeOK`
that an interaction with an intent was claimed.  `WebhookStep` is the shape of every
step of a webhook: it writes only rows no other one has locked, and sends only the
reply it is about to commit.  `ShownInvariant`, for `ConfirmedAsShown`, says that a
confirm button, and a press under way, are `Backed`: by the row, or by the reply
whose commit is still to come.  That commit is what the disagreement at
`api/routes/telegram.py:118` (section 5) lets fail.

**Accounts** (`AccountInvariant`).  Rows refer to accounts that exist and what a
command has read is still there when it writes; no row is deleted or changes hands
(`AccountsGrow`).  `AccountFactors` adds, for the second factor, that what a
verification or a refresh has read is still what the row says (`AccountFresh`), which
`VerificationsAreAlone` keeps true.

Only model-checked:

- `TerminalIsFinal` and `DisabledOwnerIsClosed`, with one request at a time;
- `FiredByTheRule`, `StopTrailsTheHighest` and the streaming of a subscribed symbol
  (`QuoteFeed`), `WalkIsComplete` (`Pages`, `Inbox`), `DuplicatesAreExact` and
  `EchoesRequest` (`IntentShape`);
- the violations.

Out of the prover's reach, and so left to TLC: the liveness of `progress`; and what
loops compute for every input, the slices of a TWAP plan and the rounding along the
tick tables, which would need induction over data.

## 7. Not modelled

Message texts and mail bodies, the encoding of cursors, migrations and seeds,
password hashing and token cryptography, the audit log, the symbol table (read
only), configuration, the answers of the language model (left open), the in-memory
quote provider (a test double), and the Shioaji SDK beyond the calls the provider
makes and the callbacks it receives.  Of what is modelled these simplifications
matter: the modules are not composed with each other except through the values
named in section 2, so a property of one says nothing of a race between, say, a
Telegram confirmation and an idempotent retry; PostgreSQL is READ COMMITTED with
row locks and unique indexes, without deadlock detection or statement timeouts;
and there is one process, as in production.
