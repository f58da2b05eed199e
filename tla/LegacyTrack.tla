----------------------------- MODULE LegacyTrack ----------------------------
(***************************************************************************)
(* The legacy intent track: table trade_intents with trigger_events and     *)
(* their notifications.  Since the cutover no route creates or cancels its  *)
(* non-TWAP intents, but the commands and the rows they wrote are there,    *)
(* and the legacy dispatcher still evaluates those rows on every quote, as  *)
(* does the dev route.  A batch evaluates all listed intents in one         *)
(* transaction, each trigger in a savepoint of its own.  Subscriptions are   *)
(* in module Subscriptions.                                                 *)
(***************************************************************************)
EXTENDS TradingSession, FiniteSets, Sequences

CONSTANTS
    Procs,      \* threads: API requests and quote callbacks
    Intents,    \* ids of rows of trade_intents
    Strategies, \* strategies of the intents a client may create
    Instants,   \* instants, in minutes, at which the clock is observed
    IntentLimit, \* IntentLimits.per_user, of the one owner and symbol modelled
    DevRoutes,  \* LOCAL_MODE mounts /dev/evaluate-quotes
    None

\* What an instance has to respect.
LegacyAssumption ==
    /\ Instants \subseteq Nat /\ IntentLimit \in Nat /\ DevRoutes \in BOOLEAN
    /\ None \notin [strategy : Strategies, date : Nat]

VARIABLES
    now, halt,
    row,      \* strategy and trading date of a row, None while it does not exist
    status,   \* committed status, "absent" before the commit
    base,     \* the trailing baseline is set
    event,    \* trigger_events: instants of the evaluations that fired
    notes,    \* types of the committed notifications
    late,     \* history: rows that were committed after their trading date
    tx        \* per thread, the transaction it is in

vars == <<now, halt, row, status, base, event, notes, late, tx>>

CANCELLABLE_STATUSES == {"scheduled", "active"}
MARKET_ORDER_STRATEGIES == {"market_order", "market_buy_order", "market_sell_order"}

Idle == [pc |-> "idle", cur |-> None, at |-> 0, todo |-> {}, held |-> {}, fired |-> {}, set |-> {}]

Inserted == {tx[p].cur : p \in {q \in Procs : tx[q].pc = "c_inserted"}}
Free(p, i) == \A q \in Procs \ {p} : i \notin tx[q].held

-----------------------------------------------------------------------------
(* CreateTradeIntentCommand *)

\* uq_trade_intents_active_duplicate and the SELECT before it, for intents that
\* differ in their strategy only.
Duplicate(r) == \E i \in Intents : status[i] \in CANCELLABLE_STATUSES /\ row[i] = r

\* The creation caps, counted on committed rows and without a lock.
WithinLimits == Cardinality({i \in Intents : status[i] \in CANCELLABLE_STATUSES}) < IntentLimit

\* The flush of IntentRepository.create waits for an uncommitted equal key.
create(p, i, s) ==
    LET r == [strategy |-> s, date |-> get_day_intent_trading_date(now)]
    IN  /\ tx[p].pc = "idle"
        /\ row[i] = None
        /\ WithinLimits
        /\ ~ Duplicate(r)
        /\ \A j \in Inserted : row[j] # r
        /\ row' = [row EXCEPT ![i] = r]
        /\ tx' = [tx EXCEPT ![p] = [Idle EXCEPT !.pc = "c_inserted", !.cur = i, !.at = now]]
        /\ UNCHANGED <<now, halt, status, base, event, notes, late>>

\* _apply_inline_trigger_if_quote_met: the quote is missing, or moves the
\* baseline of a trailing stop, or fires; a stop's baseline is set before it fires.
inline_trigger_if_quote_met(s) ==
    {[set |-> FALSE, fire |-> FALSE],
     [set |-> s = "trailing_stop_alert", fire |-> FALSE],
     [set |-> s = "trailing_stop_alert", fire |-> TRUE]}

\* _apply_inline_market_order_trigger: the current price, else the cached quote;
\* without a usable price the order stays active.
inline_market_order_trigger ==
    {[set |-> FALSE, fire |-> f] : f \in BOOLEAN}

\* The type persist_trigger gives the notification.
notification_type(s) ==
    IF s \in MARKET_ORDER_STRATEGIES THEN "market_order_triggered"
    ELSE IF s \in {"limit_buy_order", "limit_sell_order"} THEN "limit_order_triggered"
    ELSE IF s = "trailing_stop_alert" THEN "trailing_stop_triggered"
    ELSE "price_triggered"

\* What persist_trigger leaves for the commit, for the intents F evaluated at t.
persist_trigger(F, t) ==
    /\ event' = [i \in Intents |-> IF i \in F THEN Append(event[i], t) ELSE event[i]]
    /\ notes' = [i \in Intents |->
           IF i \in F THEN Append(notes[i], notification_type(row[i].strategy)) ELSE notes[i]]

\* Steps 5 and 6 of execute, and the commit: scheduled intents and a halted
\* system skip the inline trigger.
CommitCreate(p) ==
    LET i == tx[p].cur
        s == row[i].strategy
        initial == get_initial_day_intent_status(tx[p].at)
    IN  /\ tx[p].pc = "c_inserted"
        /\ \E r \in IF halt \/ initial # "active" THEN {[set |-> FALSE, fire |-> FALSE]}
                    ELSE IF s \in MARKET_ORDER_STRATEGIES THEN inline_market_order_trigger
                    ELSE inline_trigger_if_quote_met(s) :
              /\ status' = [status EXCEPT ![i] = IF r.fire THEN "triggered" ELSE initial]
              /\ base' = [base EXCEPT ![i] = r.set]
              /\ persist_trigger(IF r.fire THEN {i} ELSE {}, tx[p].at)
        /\ late' = IF row[i].date < DayOf(now) THEN late \cup {i} ELSE late
        /\ tx' = [tx EXCEPT ![p] = Idle]
        /\ UNCHANGED <<now, halt, row>>

-----------------------------------------------------------------------------
(* CancelTradeIntentCommand: read, then update by id *)

ReadForCancel(p, i) ==
    /\ tx[p].pc = "idle"
    /\ status[i] \in CANCELLABLE_STATUSES
    /\ tx' = [tx EXCEPT ![p] = [Idle EXCEPT !.pc = "x_read", !.cur = i]]
    /\ UNCHANGED <<now, halt, row, status, base, event, notes, late>>

cancel(p) ==
    /\ tx[p].pc = "x_read" /\ Free(p, tx[p].cur)
    /\ status' = [status EXCEPT ![tx[p].cur] = "cancelled"]
    /\ tx' = [tx EXCEPT ![p] = Idle]
    /\ UNCHANGED <<now, halt, row, base, event, notes, late>>

-----------------------------------------------------------------------------
(* Lifecycle, and the batch evaluation of the dispatcher and of the dev route *)

\* Mutant: an intent that was activated never expires.
ActiveNeverExpires ==
    [i \in Intents |->
        IF status[i] # "scheduled" THEN status[i]
        ELSE IF row[i].date <= get_expirable_day_intent_cutoff(now) THEN "expired"
        ELSE IF get_trading_day_phase(now) = REGULAR_SESSION /\ row[i].date = DayOf(now)
        THEN "active" ELSE status[i]]

LifecycleRun ==
    [i \in Intents |->
        IF status[i] \notin CANCELLABLE_STATUSES THEN status[i]
        ELSE IF row[i].date <= get_expirable_day_intent_cutoff(now) THEN "expired"
        ELSE IF /\ get_trading_day_phase(now) = REGULAR_SESSION
                /\ status[i] = "scheduled" /\ row[i].date = DayOf(now) THEN "active"
        ELSE status[i]]

LifecycleReady(p) == \A i \in Intents : LifecycleRun[i] # status[i] => Free(p, i)

\* _dispatch_inner: kill switch and clock, ...
BeginDispatch(p) ==
    /\ tx[p].pc = "idle" /\ ~ halt
    /\ tx' = [tx EXCEPT ![p] = [Idle EXCEPT !.pc = "checked", !.at = now]]
    /\ UNCHANGED <<now, halt, row, status, base, event, notes, late>>

\* ... then the lifecycle, ...
RunLifecycle(p) ==
    /\ tx[p].pc = "checked"
    /\ LifecycleReady(p)
    /\ status' = LifecycleRun
    /\ tx' = [tx EXCEPT ![p].pc = "swept"]
    /\ UNCHANGED <<now, halt, row, base, event, notes, late>>

\* ... and the list of the intents that are active by then.
ListActive(p) ==
    /\ tx[p].pc = "swept"
    /\ tx' = [tx EXCEPT ![p].pc = "batch", ![p].todo = {i \in Intents : status[i] = "active"}]
    /\ UNCHANGED <<now, halt, row, status, base, event, notes, late>>

\* evaluate_quotes: the lifecycle it runs is the core track's, and it asks no
\* kill switch.
evaluate_quotes(p) ==
    /\ DevRoutes
    /\ tx[p].pc = "idle"
    /\ tx' = [tx EXCEPT ![p] = [Idle EXCEPT !.pc = "batch", !.at = now,
                 !.todo = {i \in Intents : status[i] = "active"}]]
    /\ UNCHANGED <<now, halt, row, status, base, event, notes, late>>

\* The evaluator says no, or a quote is missing.
Skip(p, i) ==
    /\ tx[p].pc = "batch" /\ i \in tx[p].todo
    /\ tx' = [tx EXCEPT ![p].todo = @ \ {i}]
    /\ UNCHANGED <<now, halt, row, status, base, event, notes, late>>

\* system_update_trailing_baseline: WHERE id only.
system_update_trailing_baseline(p, i) ==
    /\ tx[p].pc = "batch" /\ i \in tx[p].todo \ tx[p].set
    /\ row[i].strategy = "trailing_stop_alert"
    /\ is_within_regular_session(tx[p].at)
    /\ Free(p, i)
    /\ tx' = [tx EXCEPT ![p].set = @ \cup {i}, ![p].held = @ \cup {i}]
    /\ UNCHANGED <<now, halt, row, status, base, event, notes, late>>

\* Mutant: neither the lock nor the UPDATE looks at the status.
StageAnyStatus(i) == TRUE

\* TriggerIntentCommand.stage: the row is locked, then its status must be active,
\* in the check as in the UPDATE of persist_trigger.
stage(i) == status[i] = "active"

\* The evaluator says yes; a trailing stop has its baseline by then.  A conflict
\* rolls the savepoint back, and the lock it took with it.
Trigger(p, i) ==
    /\ tx[p].pc = "batch" /\ i \in tx[p].todo
    /\ is_within_regular_session(tx[p].at)
    /\ row[i].strategy = "trailing_stop_alert" => base[i] \/ i \in tx[p].set
    /\ Free(p, i)
    /\ tx' = IF stage(i)
             THEN [tx EXCEPT ![p].todo = @ \ {i}, ![p].held = @ \cup {i}, ![p].fired = @ \cup {i}]
             ELSE [tx EXCEPT ![p].todo = @ \ {i}]
    /\ UNCHANGED <<now, halt, row, status, base, event, notes, late>>

CommitBatch(p) ==
    /\ tx[p].pc = "batch" /\ tx[p].todo = {}
    /\ status' = [i \in Intents |-> IF i \in tx[p].fired THEN "triggered" ELSE status[i]]
    /\ base' = [i \in Intents |-> base[i] \/ i \in tx[p].set]
    /\ persist_trigger(tx[p].fired, tx[p].at)
    /\ tx' = [tx EXCEPT ![p] = Idle]
    /\ UNCHANGED <<now, halt, row, late>>

-----------------------------------------------------------------------------
\* An exception outside the savepoints rolls the whole batch back.
Rollback(p) ==
    /\ tx[p].pc # "idle"
    /\ row' = [i \in Intents |->
                 IF tx[p].pc = "c_inserted" /\ i = tx[p].cur THEN None ELSE row[i]]
    /\ tx' = [tx EXCEPT ![p] = Idle]
    /\ UNCHANGED <<now, halt, status, base, event, notes, late>>

\* The account cascade; all intents belong to one owner.
cancel_active_for_owner ==
    /\ \A i \in Intents, p \in Procs : i \notin tx[p].held
    /\ status' = [i \in Intents |-> IF status[i] \in CANCELLABLE_STATUSES
                                    THEN "cancelled_by_account_disabled" ELSE status[i]]
    /\ UNCHANGED <<now, halt, row, base, event, notes, late, tx>>

SetHalt == halt' = ~ halt /\ UNCHANGED <<now, row, status, base, event, notes, late, tx>>

Advance ==
    /\ \E t \in Instants : /\ t > now
                           /\ \A u \in Instants : u > now => t <= u
                           /\ now' = t
    /\ UNCHANGED <<halt, row, status, base, event, notes, late, tx>>

Init ==
    /\ now \in Instants /\ \A t \in Instants : now <= t
    /\ halt = FALSE
    /\ row = [i \in Intents |-> None]
    /\ status = [i \in Intents |-> "absent"]
    /\ base = [i \in Intents |-> FALSE]
    /\ event = [i \in Intents |-> <<>>]
    /\ notes = [i \in Intents |-> <<>>]
    /\ late = {}
    /\ tx = [p \in Procs |-> Idle]

Next ==
    \/ \E p \in Procs :
           \/ \E i \in Intents, s \in Strategies : create(p, i, s)
           \/ CommitCreate(p) \/ cancel(p)
           \/ BeginDispatch(p) \/ RunLifecycle(p) \/ ListActive(p) \/ evaluate_quotes(p)
           \/ CommitBatch(p) \/ Rollback(p)
           \/ \E i \in Intents :
                  \/ ReadForCancel(p, i) \/ Skip(p, i) \/ Trigger(p, i)
                  \/ system_update_trailing_baseline(p, i)
    \/ cancel_active_for_owner \/ SetHalt \/ Advance

Spec == Init /\ [][Next]_vars

-----------------------------------------------------------------------------
\* A legacy intent keeps the promise of IntentContract: it opens and closes once,
\* and its only notification comes with the step that closes it, although two
\* batches, a cancellation and an expiry may hold it at the same time.
Life == [i \in Intents |->
            IF status[i] = "absent" THEN "absent"
            ELSE IF status[i] \in CANCELLABLE_STATUSES THEN "open" ELSE "closed"]
Told == [i \in Intents |-> Len(notes[i])]

Contract == INSTANCE IntentContract WITH life <- Life, told <- Told

KeepsLegacyContract == Contract!ContractSpec

\* Trigger event and notification are written together, the notification is of
\* the type the strategy calls for, and a triggered trailing stop has a baseline,
\* whatever part of a batch was rolled back.
LegacyTriggerIsWhole ==
    \A i \in Intents :
        /\ Len(event[i]) = Len(notes[i]) /\ Len(event[i]) <= 1
        /\ status[i] = "triggered" => Len(event[i]) = 1
        /\ Len(notes[i]) = 1 =>
              /\ notes[i][1] = "trailing_stop_triggered" <=> row[i].strategy = "trailing_stop_alert"
              /\ notes[i][1] = "limit_order_triggered" <=> row[i].strategy \in {"limit_buy_order", "limit_sell_order"}
              /\ notes[i][1] = "market_order_triggered" <=> row[i].strategy \in MARKET_ORDER_STRATEGIES
              /\ row[i].strategy = "trailing_stop_alert" => base[i]

\* The dispatcher fires no intent after its trading date, however long its thread
\* waits between its clock, the lifecycle, the list and the write; unless the
\* creation itself was committed after that date, which a sweep may miss.
LegacyFiredByItsDate ==
    \A i \in Intents \ late : \A k \in 1..Len(event[i]) : DayOf(event[i][k]) <= row[i].date

\* Both, the second where the dev route, which runs no legacy lifecycle, is off.
LegacyTriggerIsSound == LegacyTriggerIsWhole /\ (~ DevRoutes => LegacyFiredByItsDate)

=============================================================================
