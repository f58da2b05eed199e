----------------------------- MODULE CoreTrack ------------------------------
(***************************************************************************)
(* The new intent track: table trade_intent_core with its trigger and      *)
(* notification rows, the API commands that create and cancel intents, the *)
(* quote dispatcher that triggers them, the lifecycle command that         *)
(* activates and expires them, and the account cascade that closes them.   *)
(*                                                                         *)
(* Threads of the one process (API requests and quote callbacks) run these *)
(* handlers concurrently, each on a database session of its own.  The      *)
(* database is PostgreSQL at READ COMMITTED: a statement sees what was     *)
(* committed before it started, an UPDATE waits for the transaction that   *)
(* holds the row and then evaluates its WHERE clause again, and a          *)
(* transaction's writes become visible together at its commit.  So a       *)
(* handler is a sequence of steps, cut where another thread's commit can   *)
(* change what the handler already read.                                   *)
(*                                                                         *)
(* The variables sent, opened, cut and the field past of a handler are     *)
(* history: no guard reads them.  The clock, the limits and the INSERT of  *)
(* a creation are one step.                                                *)
(***************************************************************************)
EXTENDS TradingSession, FiniteSets

CONSTANTS
    Procs,          \* threads that can run a handler at the same time
    Intents,        \* ids of rows of trade_intent_core
    Owners,         \* users
    Symbols,        \* tradable symbols on the provider's allowlist
    Keys,           \* (strategy, dedup_key, quantity_lots) of an intent
    TelegramOwners, \* the owner of the Telegram group's drafts, if configured
    Instants,       \* the instants at which the clock is observed
    PER_USER,       \* IntentLimits.per_user
    PER_SYMBOL,     \* IntentLimits.per_symbol
    MAX_SUBSCRIPTIONS,  \* the provider's subscription limit
    None            \* "no value"

\* The columns of a row that never change.
Rows == [owner : Owners, symbol : Symbols, key : Keys, date : Nat]

ASSUME CoreAssumption ==
    /\ Instants \subseteq Nat
    /\ TelegramOwners \subseteq Owners
    /\ PER_USER \in Nat /\ PER_SYMBOL \in Nat
    /\ MAX_SUBSCRIPTIONS \in Nat
    /\ IsFiniteSet(Symbols)
    /\ None \notin Intents \cup Owners \cup Symbols
    /\ None \notin Rows

VARIABLES
    now,      \* the clock
    up,       \* the process has booted
    users,    \* users.status
    halt,     \* what KillSwitchProvider.is_halted() answers
    subs,     \* QuoteProvider.active_subscriptions()
    row,      \* immutable columns of a core row, None while it does not exist
    status,   \* committed trade_intent_core.status, "absent" before the commit
    trigger,  \* trade_intent_triggers: instant of the evaluation that fired
    notes,    \* committed notification rows per intent
    sent,     \* Telegram messages delivered per intent, since the last rollback
              \* of a transaction that had fired it
    opened,   \* instant at which the creation of an intent was committed
    cut,      \* symbols unsubscribed while an intent needed them
    tx        \* per thread, the handler it is in

vars == <<now, up, users, halt, subs, row, status, trigger, notes, sent, opened, cut, tx>>
db == <<row, status, trigger, notes>>
seen == <<sent, opened, cut>>

CANCELLABLE_STATUSES == {"active", "scheduled"}
TERMINAL_STATUSES ==
    {"triggered", "expired", "cancelled", "cancelled_by_account_disabled"}
VALID_STATUSES == CANCELLABLE_STATUSES \cup TERMINAL_STATUSES

NoTrigger == -1

\* own: the authenticated owner; sym: the symbol of the quote being dispatched;
\* cur: the intent being created or cancelled; at: the handler's own `now`;
\* todo: listed intents not evaluated yet; held: existing rows this transaction
\* has locked; fired: intents it has triggered and not committed; past: it had
\* passed its check of the kill switch when the switch was turned on.
Tx == [pc : {"idle", "c_auth", "c_inserted", "c_subscribed", "c_armed", "c_ready",
             "x_swept", "x_read", "x_cancelled", "x_unneeded",
             "d_checked", "d_swept", "d_loop"},
       own : Owners \cup {None}, sym : Symbols \cup {None},
       cur : Intents \cup {None}, at : Instants \cup {0},
       todo : SUBSET Intents, held : SUBSET Intents, fired : SUBSET Intents,
       past : BOOLEAN]

Idle == [pc |-> "idle", own |-> None, sym |-> None, cur |-> None, at |-> 0,
         todo |-> {}, held |-> {}, fired |-> {}, past |-> FALSE]

Open(i) == status[i] \in CANCELLABLE_STATUSES

\* A creation that has subscribed its symbol and has not committed its row, one
\* that has inserted the row, and a handler that may still send a message.
Subscribing(p) == tx[p].pc \in {"c_subscribed", "c_armed", "c_ready"}
Inserting(p) == tx[p].pc = "c_inserted" \/ Subscribing(p)
Armed(p) == tx[p].pc \in {"c_armed", "d_checked", "d_swept", "d_loop"}

\* Rows inserted by a transaction that has not committed.
Inserted == {tx[p].cur : p \in {q \in Procs : Inserting(q)}}

\* Mutant: a row that another transaction has updated is not waited for.
NeverWaits(p, i) == p \in Procs /\ i \in Intents

\* No other transaction holds the row: an UPDATE of it does not wait.
Free(p, i) == \A q \in Procs \ {p} : i \notin tx[q].held

Ready(p, pc) == up /\ tx[p].pc = pc

-----------------------------------------------------------------------------
(* Lifecycle: IntentLifecycleCommand.run over the core repository.  Both    *)
(* statements and the commit are one step, taken when no row they change is *)
(* held by another transaction.                                             *)

\* Mutant: the sweep forgets the intents that were activated.
ExpireThroughScheduledOnly(st, cutoff) ==
    [i \in Intents |->
        IF st[i] = "scheduled" /\ row[i].date <= cutoff THEN "expired" ELSE st[i]]

ExpireThrough(st, cutoff) ==
    [i \in Intents |->
        IF st[i] \in CANCELLABLE_STATUSES /\ row[i].date <= cutoff
        THEN "expired" ELSE st[i]]

\* Mutant: the activation has no status guard.
ActivateAnyStatus(st, day) ==
    [i \in Intents |->
        IF st[i] # "absent" /\ row[i].date = day THEN "active" ELSE st[i]]

ActivateScheduled(st, day) ==
    [i \in Intents |->
        IF st[i] = "scheduled" /\ row[i].date = day THEN "active" ELSE st[i]]

LifecycleRun ==
    LET expired == ExpireThrough(status, get_expirable_day_intent_cutoff(now))
    IN  IF get_trading_day_phase(now) = REGULAR_SESSION
        THEN ActivateScheduled(expired, DayOf(now))
        ELSE expired

LifecycleReady(p) == \A i \in Intents : LifecycleRun[i] # status[i] => Free(p, i)

\* GET /trade-intents and GET /trade-intents/{id} run the lifecycle first.
ReadIntents(p) ==
    /\ Ready(p, "idle")
    /\ LifecycleReady(p)
    /\ status' = LifecycleRun
    /\ UNCHANGED <<now, up, users, halt, subs, row, trigger, notes, seen, tx>>

-----------------------------------------------------------------------------
(* CreateTradeIntentCommand *)

\* The API admits an account that has not been disabled; the Telegram
\* confirmation callback takes the owner from the stored draft.
BeginCreate(p, o) ==
    /\ Ready(p, "idle")
    /\ users[o] = "active" \/ o \in TelegramOwners
    /\ tx' = [tx EXCEPT ![p] = [Idle EXCEPT !.pc = "c_auth", !.own = o]]
    /\ UNCHANGED <<now, up, users, halt, subs, db, seen>>

OpenOf(o) == {i \in Intents : Open(i) /\ row[i].owner = o}

\* Mutant: the count forgets scheduled intents.
ActiveOn(s) == {i \in Intents : status[i] = "active" /\ row[i].symbol = s}

OpenOn(s) == {i \in Intents : Open(i) /\ row[i].symbol = s}

WithinLimits(o, s) ==
    /\ Cardinality(OpenOf(o)) < PER_USER
    /\ Cardinality(OpenOf(o) \cap OpenOn(s)) < PER_SYMBOL

\* Mutant: the index and the SELECT cover active rows only.
DuplicateActive(i, r) == status[i] = "active" /\ row[i] = r

\* uq_trade_intent_core_active_duplicate, and the SELECT in create() that
\* answers for it: the columns are equal and the row is still open.
Duplicate(i, r) == Open(i) /\ row[i] = r

\* An insert that meets an uncommitted one with the same index entry waits.
IndexWait(r) == \E i \in Inserted : row[i] = r

NewRow(o, s, k) ==
    [owner |-> o, symbol |-> s, key |-> k, date |-> get_day_intent_trading_date(now)]

\* Limits, duplicate check and the flushed INSERT.
CreateInsert(p, i, s, k) ==
    LET r == NewRow(tx[p].own, s, k)
    IN  /\ Ready(p, "c_auth")
        /\ row[i] = None
        /\ WithinLimits(tx[p].own, s)
        /\ \A j \in Intents : ~ Duplicate(j, r)
        /\ ~ IndexWait(r)
        /\ row' = [row EXCEPT ![i] = r]
        /\ tx' = [tx EXCEPT ![p].pc = "c_inserted", ![p].cur = i, ![p].at = now]
        /\ UNCHANGED <<now, up, users, halt, subs, status, trigger, notes, seen>>

\* A limit, a duplicate, or an unusable symbol or price: nothing was written.
CreateReject(p) ==
    /\ Ready(p, "c_auth")
    /\ tx' = [tx EXCEPT ![p] = Idle]
    /\ UNCHANGED <<now, up, users, halt, subs, db, seen>>

\* Mutant: off by one at the provider's limit.
SubscribableInclusive(s) == s \in subs \/ Cardinality(subs) <= MAX_SUBSCRIPTIONS

\* reconcile_on_create: the symbol is subscribed before the commit.
Subscribable(s) == s \in subs \/ Cardinality(subs) < MAX_SUBSCRIPTIONS

\* reconcile_on_create.
CreateSubscribe(p) ==
    LET s == row[tx[p].cur].symbol
    IN  /\ Ready(p, "c_inserted")
        /\ Subscribable(s)
        /\ subs' = subs \cup {s}
        /\ cut' = cut \ {s}
        /\ tx' = [tx EXCEPT ![p].pc = "c_subscribed"]
        /\ UNCHANGED <<now, up, users, halt, db, sent, opened>>

\* Mutant: the inline trigger ignores the kill switch.
CreateCheckUnhalted(p) ==
    /\ Ready(p, "c_subscribed")
    /\ tx' = [tx EXCEPT ![p].pc =
                 IF get_initial_day_intent_status(tx[p].at) = "active"
                 THEN "c_armed" ELSE "c_ready"]
    /\ UNCHANGED <<now, up, users, halt, subs, db, seen>>

\* is_halted() is read once, before the quote is fetched.
CreateCheck(p) ==
    /\ Ready(p, "c_subscribed")
    /\ tx' = [tx EXCEPT ![p].pc =
                 IF get_initial_day_intent_status(tx[p].at) = "active" /\ ~ halt
                 THEN "c_armed" ELSE "c_ready"]
    /\ UNCHANGED <<now, up, users, halt, subs, db, seen>>

\* dispatch_notification_to_telegram: the message leaves before the commit; a
\* bot that is not configured or an error of the call loses it.
Announce(i) == UNCHANGED sent \/ sent' = [sent EXCEPT ![i] = @ + 1]

\* The inline trigger: no usable quote or a condition that does not hold leaves
\* the intent open, otherwise the trigger is persisted and announced.
CreateFire(p) ==
    LET i == tx[p].cur
    IN  /\ Ready(p, "c_armed")
        /\ \/ /\ tx' = [tx EXCEPT ![p].pc = "c_ready"]
              /\ UNCHANGED sent
           \/ /\ tx' = [tx EXCEPT ![p].pc = "c_ready", ![p].fired = {i}]
              /\ Announce(i)
        /\ UNCHANGED <<now, up, users, halt, subs, db, opened, cut>>

\* Mutant: a notification for every row the transaction has touched.
PublishTouched(p) ==
    /\ trigger' = [i \in Intents |-> IF i \in tx[p].fired THEN tx[p].at ELSE trigger[i]]
    /\ notes' = [i \in Intents |->
           IF i \in tx[p].fired \cup tx[p].held THEN notes[i] + 1 ELSE notes[i]]

\* What a commit publishes for the intents the transaction has fired.
Publish(p) ==
    /\ trigger' = [i \in Intents |-> IF i \in tx[p].fired THEN tx[p].at ELSE trigger[i]]
    /\ notes' = [i \in Intents |-> IF i \in tx[p].fired THEN notes[i] + 1 ELSE notes[i]]

CreateCommit(p) ==
    LET i == tx[p].cur
    IN  /\ Ready(p, "c_ready")
        /\ status' = [status EXCEPT ![i] =
               IF i \in tx[p].fired THEN "triggered"
               ELSE get_initial_day_intent_status(tx[p].at)]
        /\ Publish(p)
        /\ opened' = [opened EXCEPT ![i] = now]
        /\ tx' = [tx EXCEPT ![p] = Idle]
        /\ UNCHANGED <<now, up, users, halt, subs, row, sent, cut>>

-----------------------------------------------------------------------------
(* CancelTradeIntentCommand, behind the cancel route *)

\* The route runs the lifecycle, which commits ...
CancelBegin(p, i) ==
    /\ Ready(p, "idle")
    /\ status[i] # "absent"
    /\ users[row[i].owner] = "active"
    /\ LifecycleReady(p)
    /\ status' = LifecycleRun
    /\ tx' = [tx EXCEPT ![p] = [Idle EXCEPT !.pc = "x_swept", !.cur = i]]
    /\ UNCHANGED <<now, up, users, halt, subs, row, trigger, notes, seen>>

\* Mutant: every status but "cancelled" is taken for cancellable.
CancelReadAnyStatus(p) ==
    /\ Ready(p, "x_swept")
    /\ tx' = [tx EXCEPT ![p].pc =
                 IF status[tx[p].cur] = "cancelled" THEN "x_cancelled" ELSE "x_read"]
    /\ UNCHANGED <<now, up, users, halt, subs, db, seen>>

\* ... and repo.cancel reads the row without a lock.  An intent already cancelled
\* is answered as it is, any other terminal status is refused.
CancelRead(p) ==
    LET i == tx[p].cur
    IN  /\ Ready(p, "x_swept")
        /\ \/ /\ Open(i)
              /\ tx' = [tx EXCEPT ![p].pc = "x_read"]
           \/ /\ status[i] = "cancelled"
              /\ tx' = [tx EXCEPT ![p].pc = "x_cancelled"]
           \/ /\ status[i] \in TERMINAL_STATUSES \ {"cancelled"}
              /\ tx' = [tx EXCEPT ![p] = Idle]
        /\ UNCHANGED <<now, up, users, halt, subs, db, seen>>

\* UPDATE ... WHERE id = :id, and commit.
CancelWrite(p) ==
    LET i == tx[p].cur
    IN  /\ Ready(p, "x_read")
        /\ Free(p, i)
        /\ status' = [status EXCEPT ![i] = "cancelled"]
        /\ tx' = [tx EXCEPT ![p].pc = "x_cancelled"]
        /\ UNCHANGED <<now, up, users, halt, subs, row, trigger, notes, seen>>

\* reconcile_after_terminal_transition counts what still needs the symbol ...
CancelCount(p) ==
    /\ Ready(p, "x_cancelled")
    /\ tx' = IF OpenOn(row[tx[p].cur].symbol) = {}
             THEN [tx EXCEPT ![p].pc = "x_unneeded"]
             ELSE [tx EXCEPT ![p] = Idle]
    /\ UNCHANGED <<now, up, users, halt, subs, db, seen>>

\* An open intent, or one about to be committed, relies on the subscription.
Needed(s) ==
    \/ OpenOn(s) # {}
    \/ \E q \in Procs : Subscribing(q) /\ row[tx[q].cur].symbol = s

\* ... and unsubscribes when the count was zero, whatever it would be by now.
CancelUnsubscribe(p) ==
    LET s == row[tx[p].cur].symbol
    IN  /\ Ready(p, "x_unneeded")
        /\ subs' = subs \ {s}
        /\ cut' = IF Needed(s) THEN cut \cup {s} ELSE cut
        /\ tx' = [tx EXCEPT ![p] = Idle]
        /\ UNCHANGED <<now, up, users, halt, db, sent, opened>>

-----------------------------------------------------------------------------
(* TradeIntentCoreDispatcher, one quote of one symbol *)

\* A callback already under way is delivered after an unsubscribe too.
DispatchCheck(p, s) ==
    /\ Ready(p, "idle")
    /\ ~ halt
    /\ tx' = [tx EXCEPT ![p] = [Idle EXCEPT !.pc = "d_checked", !.sym = s, !.at = now]]
    /\ UNCHANGED <<now, up, users, halt, subs, db, seen>>

\* The lifecycle commits ...
DispatchLifecycle(p) ==
    /\ Ready(p, "d_checked")
    /\ LifecycleReady(p)
    /\ status' = LifecycleRun
    /\ tx' = [tx EXCEPT ![p].pc = "d_swept"]
    /\ UNCHANGED <<now, up, users, halt, subs, row, trigger, notes, seen>>

\* ... before system_list_active_by_symbols reads.
DispatchList(p) ==
    /\ Ready(p, "d_swept")
    /\ tx' = [tx EXCEPT ![p].pc = "d_loop",
                        ![p].todo = {i \in Intents : /\ status[i] = "active"
                                                     /\ row[i].symbol = tx[p].sym}]
    /\ UNCHANGED <<now, up, users, halt, subs, db, seen>>

\* The evaluator's answer is "no".
DispatchSkip(p, i) ==
    /\ Ready(p, "d_loop")
    /\ i \in tx[p].todo
    /\ tx' = [tx EXCEPT ![p].todo = @ \ {i}]
    /\ UNCHANGED <<now, up, users, halt, subs, db, seen>>

\* apply_trailing_baseline_update touches the row whatever its status is.
DispatchBaseline(p, i) ==
    /\ Ready(p, "d_loop")
    /\ i \in tx[p].todo
    /\ is_within_regular_session(tx[p].at)
    /\ Free(p, i)
    /\ tx' = [tx EXCEPT ![p].held = @ \cup {i}]
    /\ UNCHANGED <<now, up, users, halt, subs, db, seen>>

\* Mutant: the UPDATE has no status guard.
CanFireUnguarded(i) == trigger[i] = NoTrigger

\* The guard of persist_core_trigger: UPDATE ... WHERE status = 'active', and
\* the UNIQUE constraint on trade_intent_triggers.trade_intent_id.
CanFire(i) == status[i] = "active" /\ trigger[i] = NoTrigger

\* The answer is "yes": a savepoint around persist_core_trigger.  Losing the
\* race to another transaction is skipped, winning it announces the trigger.
DispatchFire(p, i) ==
    /\ Ready(p, "d_loop")
    /\ i \in tx[p].todo
    /\ is_within_regular_session(tx[p].at)
    /\ Free(p, i)
    /\ \/ /\ CanFire(i)
          /\ Announce(i)
          /\ tx' = [tx EXCEPT ![p].todo = @ \ {i}, ![p].held = @ \cup {i},
                              ![p].fired = @ \cup {i}]
       \/ /\ ~ CanFire(i)
          /\ tx' = [tx EXCEPT ![p].todo = @ \ {i}]
          /\ UNCHANGED sent
    /\ UNCHANGED <<now, up, users, halt, subs, db, opened, cut>>

DispatchCommit(p) ==
    /\ Ready(p, "d_loop")
    /\ tx[p].todo = {}
    /\ status' = [i \in Intents |-> IF i \in tx[p].fired THEN "triggered" ELSE status[i]]
    /\ Publish(p)
    /\ tx' = [tx EXCEPT ![p] = Idle]
    /\ UNCHANGED <<now, up, users, halt, subs, row, seen>>

-----------------------------------------------------------------------------
(* Failure of one handler, of the process, and the rest of the system *)

\* Any exception before the commit rolls the transaction back: an inserted row
\* is gone, locks are released, the message and the subscription are not undone.
Abort(p) ==
    /\ up
    /\ tx[p].pc \notin {"idle", "c_auth"}
    /\ row' = [i \in Intents |-> IF Inserting(p) /\ i = tx[p].cur THEN None ELSE row[i]]
    /\ sent' = [i \in Intents |-> IF i \in tx[p].fired THEN 0 ELSE sent[i]]
    /\ tx' = [tx EXCEPT ![p] = Idle]
    /\ UNCHANGED <<now, up, users, halt, subs, status, trigger, notes, opened, cut>>

\* The process dies: every open transaction is rolled back by the database.
Crash ==
    /\ up
    /\ up' = FALSE
    /\ subs' = {}
    /\ cut' = {}
    /\ row' = [i \in Intents |-> IF i \in Inserted THEN None ELSE row[i]]
    /\ sent' = [i \in Intents |-> IF \E p \in Procs : i \in tx[p].fired THEN 0 ELSE sent[i]]
    /\ tx' = [p \in Procs |-> Idle]
    /\ UNCHANGED <<now, users, halt, status, trigger, notes, opened>>

\* lifespan(): lifecycle, then subscribe every symbol an open intent needs.  A
\* subscription over the limit raises and the process does not come up.
Boot ==
    LET needed == {row[i].symbol : i \in {j \in Intents : LifecycleRun[j] \in CANCELLABLE_STATUSES}}
    IN  /\ ~ up
        /\ status' = LifecycleRun
        /\ up' = (Cardinality(needed) <= MAX_SUBSCRIPTIONS)
        /\ subs' = IF up' THEN needed ELSE {}
        /\ UNCHANGED <<now, users, halt, row, trigger, notes, seen, tx>>

\* Mutant: the cascade closes active intents only.
DisableUserActiveOnly(p, o) ==
    /\ Ready(p, "idle")
    /\ \A i \in OpenOf(o) : Free(p, i)
    /\ users' = [users EXCEPT ![o] = "disabled"]
    /\ status' = [i \in Intents |->
           IF i \in OpenOf(o) /\ status[i] = "active"
           THEN "cancelled_by_account_disabled" ELSE status[i]]
    /\ UNCHANGED <<now, up, halt, subs, row, trigger, notes, seen, tx>>

\* DisableUserCommand: the account and its open intents in one transaction.
DisableUser(p, o) ==
    /\ Ready(p, "idle")
    /\ \A i \in OpenOf(o) : Free(p, i)
    /\ users' = [users EXCEPT ![o] = "disabled"]
    /\ status' = [i \in Intents |->
           IF i \in OpenOf(o) THEN "cancelled_by_account_disabled" ELSE status[i]]
    /\ UNCHANGED <<now, up, halt, subs, row, trigger, notes, seen, tx>>

ReactivateUser(p, o) ==
    /\ Ready(p, "idle")
    /\ users[o] = "disabled"
    /\ users' = [users EXCEPT ![o] = "active"]
    /\ UNCHANGED <<now, up, halt, subs, db, seen, tx>>

SetKillSwitch(p) ==
    /\ Ready(p, "idle")
    /\ halt' = ~ halt
    /\ tx' = [q \in Procs |-> [tx[q] EXCEPT !.past = ~ halt /\ Armed(q)]]
    /\ UNCHANGED <<now, up, users, subs, db, seen>>

Tick ==
    /\ \E t \in Instants : t > now /\ now' = t
    /\ UNCHANGED <<up, users, halt, subs, db, seen, tx>>

-----------------------------------------------------------------------------
Init ==
    /\ now \in Instants
    /\ up = TRUE
    /\ users = [o \in Owners |-> "active"]
    /\ halt = FALSE
    /\ subs = {}
    /\ row = [i \in Intents |-> None]
    /\ status = [i \in Intents |-> "absent"]
    /\ trigger = [i \in Intents |-> NoTrigger]
    /\ notes = [i \in Intents |-> 0]
    /\ sent = [i \in Intents |-> 0]
    /\ opened = [i \in Intents |-> NoTrigger]
    /\ cut = {}
    /\ tx = [p \in Procs |-> Idle]

Create(p) ==
    \/ \E o \in Owners : BeginCreate(p, o)
    \/ \E i \in Intents, s \in Symbols, k \in Keys : CreateInsert(p, i, s, k)
    \/ CreateReject(p) \/ CreateSubscribe(p) \/ CreateCheck(p) \/ CreateFire(p)
    \/ CreateCommit(p)

Cancel(p) ==
    \/ \E i \in Intents : CancelBegin(p, i)
    \/ CancelRead(p) \/ CancelWrite(p) \/ CancelCount(p) \/ CancelUnsubscribe(p)

Dispatch(p) ==
    \/ \E s \in Symbols : DispatchCheck(p, s)
    \/ DispatchLifecycle(p) \/ DispatchList(p)
    \/ \E i \in Intents :
           DispatchSkip(p, i) \/ DispatchBaseline(p, i) \/ DispatchFire(p, i)
    \/ DispatchCommit(p)

Admin(p) ==
    \/ \E o \in Owners : DisableUser(p, o) \/ ReactivateUser(p, o)
    \/ SetKillSwitch(p)

Next ==
    \/ \E p \in Procs : ReadIntents(p) \/ Create(p) \/ Cancel(p) \/ Dispatch(p)
                        \/ Admin(p) \/ Abort(p)
    \/ Crash \/ Boot \/ Tick

Spec == Init /\ [][Next]_vars

-----------------------------------------------------------------------------
(* Properties that hold for any number of concurrent threads *)

\* Types of the state; the provider never holds more subscriptions than its
\* limit (ShioajiDemoQuoteProvider.subscribe).
TypeOK ==
    /\ now \in Instants
    /\ up \in BOOLEAN
    /\ users \in [Owners -> {"active", "disabled"}]
    /\ halt \in BOOLEAN
    /\ subs \subseteq Symbols /\ Cardinality(subs) <= MAX_SUBSCRIPTIONS
    /\ row \in [Intents -> Rows \cup {None}]
    /\ status \in [Intents -> VALID_STATUSES \cup {"absent"}]
    /\ trigger \in [Intents -> Instants \cup {0, NoTrigger}]
    /\ notes \in [Intents -> Nat]
    /\ sent \in [Intents -> Nat]
    /\ opened \in [Intents -> Instants \cup {NoTrigger}]
    /\ cut \subseteq Symbols
    /\ tx \in [Procs -> Tx]

Fired(i) == trigger[i] # NoTrigger

\* An intent with a trigger row is never open: dispatchers that listed it while
\* it was active, and the activation of scheduled intents, cannot bring it back.
FiredIsClosed == \A i \in Intents : Fired(i) => status[i] \in TERMINAL_STATUSES

\* The trigger row, the notification row and the status are committed together:
\* a triggered intent has its trigger row, and an intent has one notification if
\* it has a trigger row and none otherwise, whichever handlers were rolled back.
TriggerIsRecordedOnce ==
    \A i \in Intents :
        /\ status[i] = "triggered" => Fired(i)
        /\ notes[i] = IF Fired(i) THEN 1 ELSE 0

\* A message stands for one trigger: apart from messages whose transaction was
\* rolled back, an intent is announced at most once, and only while its trigger
\* is recorded or about to be (persist_core_trigger sends before the commit, and
\* several dispatchers may have listed the same intent).
MessageStandsForOneTrigger ==
    \A i \in Intents :
        sent[i] <= IF Fired(i) \/ (\E p \in Procs : i \in tx[p].fired) THEN 1 ELSE 0

\* An intent fires on an evaluation inside a regular session, and on one of a
\* later day than its trading_date only if that dispatch had begun before the
\* creation was committed: the dispatcher expires before it lists, and what is
\* committed in between is listed unexpired.
FiredByItsTradingDate ==
    \A i \in Intents : Fired(i) =>
        /\ is_within_regular_session(trigger[i])
        /\ DayOf(trigger[i]) <= row[i].date \/ trigger[i] <= opened[i]

\* Two open intents never agree in owner, symbol, strategy key and date, though
\* create() reads and inserts in two statements.
NoDuplicateOpen ==
    \A i, j \in Intents : Open(i) /\ Open(j) /\ row[i] = row[j] => i = j

\* While the kill switch is on, the only messages that leave are those of
\* handlers that had passed their check when it was turned on: quotes and
\* creations that come later are silent until it is turned off.
HaltSilences ==
    [][halt /\ (\E i \in Intents : sent'[i] > sent[i]) =>
         \E p \in Procs : tx[p].past /\ tx'[p] # tx[p]]_vars

\* A terminal status is rewritten by nothing but a cancellation that read the
\* intent before it was closed: activation, expiry, the account cascade and the
\* dispatchers leave it alone whatever they read earlier.
RewrittenByStaleCancel ==
    [][\A i \in Intents :
         status[i] \in TERMINAL_STATUSES /\ status'[i] # status[i] =>
             /\ status'[i] = "cancelled"
             /\ \E p \in Procs : /\ tx[p].pc = "x_read" /\ tx[p].cur = i
                                /\ tx'[p].pc = "x_cancelled"]_vars

\* While the process runs, the symbol of an open intent is subscribed, unless a
\* cancellation that had counted no open intent unsubscribed it after the
\* intent, or its creation, had come to rely on it.
SubscribedUnlessCut ==
    up => \A i \in Intents : Open(i) => row[i].symbol \in subs \cup cut

Life(i) ==
    IF status[i] = "absent" THEN "absent"
    ELSE IF Open(i) THEN "open" ELSE "closed"

Contract ==
    INSTANCE IntentContract WITH life <- [i \in Intents |-> Life(i)], told <- notes

\* The track keeps the contract: opened once, closed once, notified by the
\* transaction that closes, never reopened.
KeepsContract == Contract!ContractSpec

-----------------------------------------------------------------------------
(* Properties that hold when requests are served one at a time *)

\* A terminal status is final (docs/domain.md).
TerminalStays ==
    \A i \in Intents : status[i] \in TERMINAL_STATUSES => status'[i] = status[i]
TerminalIsFinal == [][TerminalStays]_vars

\* The part of it docs/domain.md states of the race between a trigger and a
\* cancellation: transaction, row lock and status guard decide it once.
TriggerSurvivesCancel ==
    [][\A i \in Intents :
         status[i] = "triggered" => status'[i] = "triggered"]_vars

\* An open intent receives quotes: its symbol is subscribed while the process
\* runs (CreateTradeIntentCommand, step 6).
OpenIntentIsSubscribed ==
    up => \A i \in Intents : Open(i) => row[i].symbol \in subs

\* A disabled account has no open intent (DisableUserCommand).
DisabledOwnerIsClosed ==
    \A i \in Intents : Open(i) => users[row[i].owner] = "active"

\* Open intents stay within the creation limits.
LimitsHold ==
    \A o \in Owners :
        /\ Cardinality(OpenOf(o)) <= PER_USER
        /\ \A s \in Symbols : Cardinality(OpenOf(o) \cap OpenOn(s)) <= PER_SYMBOL

\* Once every intent on a symbol is terminal and no handler runs, the symbol is
\* not subscribed any more (docs/architecture.md, step 6).
TerminalReleasesSubscription ==
    (\A p \in Procs : tx[p] = Idle) =>
        \A i \in Intents : status[i] \in TERMINAL_STATUSES /\ row[i].symbol \in subs
                              => OpenOn(row[i].symbol) # {}

=============================================================================
