------------------------------ MODULE QuoteFeed -----------------------------
(***************************************************************************)
(* The quotes of one symbol on their way to one intent: the provider's      *)
(* subscription and snapshot cache, the two SDK channels (last trades and   *)
(* order book) that update it from threads of their own, and the dispatch   *)
(* of each snapshot to the evaluator.                                       *)
(*                                                                         *)
(* Listeners run outside the provider's lock, so a thread may carry an old  *)
(* snapshot, and an intent it listed, past what the other thread commits.   *)
(* A dispatch writes in one transaction: the first UPDATE of the intent     *)
(* locks its row until the commit, so write and commit are one step.        *)
(***************************************************************************)
EXTENDS QuoteEvaluation

CONSTANTS
    Channels,    \* SDK callback threads, subset of {"tick", "bidask"}
    Lasts,       \* last prices a tick may carry
    Books,       \* pairs <<bid, ask>> a bidask callback may carry
    Clock,       \* instants, in seconds, at which the clock is observed
    Offers,      \* intents a client may create
    Serial,      \* a dispatch ends before another callback begins
    Churn        \* the symbol may be unsubscribed and the provider shut down

\* What an instance has to respect.
FeedAssumption ==
    /\ Channels \subseteq {"tick", "bidask"}
    /\ Clock \subseteq Nat
    /\ Serial \in BOOLEAN /\ Churn \in BOOLEAN

VARIABLES
    now,
    started,     \* ShioajiQuoteProvider._started, and the client's session
    subscribed,  \* the symbol is in _subscribed
    streams,     \* channels the broker streams
    snap,        \* _snapshots entry, or NoSnap
    call,        \* per channel thread, the callback it is in
    intent,      \* committed row with its trailing satellite
    fired,       \* the trigger row: result, quote and instant of its evaluation
    peak         \* highest reference price of the quotes evaluated for the intent

vars == <<now, started, subscribed, streams, snap, call, intent, fired, peak>>

NoSnap == Quote(NoPrice, NoPrice, NoPrice, -1)
NoIntent == [strategy |-> "none", type |-> "stock", target |-> NoPrice, mode |-> "none",
             value |-> 0, baseline |-> NoPrice, dynamic |-> NoPrice, status |-> "absent"]
NotFired == [fire |-> FALSE]

\* pc: payload at the callback, snapshot stored, intents listed.
IdleCall == [pc |-> "idle", q |-> NoSnap, at |-> 0, listed |-> NoIntent]

Quiet == \A c \in Channels : call[c].pc = "idle"

-----------------------------------------------------------------------------
(* ShioajiQuoteProvider: session and subscription *)

\* startup: login and the two handlers; a failed login changes nothing.
Startup ==
    /\ ~ started
    /\ started' = TRUE
    /\ UNCHANGED <<now, subscribed, streams, snap, call, intent, fired, peak>>

\* shutdown: the client swallows the broker's errors, logout ends the streams.
Shutdown ==
    /\ Churn
    /\ started
    /\ started' = FALSE
    /\ subscribed' = FALSE
    /\ streams' = {}
    /\ snap' = NoSnap
    /\ UNCHANGED <<now, call, intent, fired, peak>>

\* ShioajiClient.subscribe asks for Tick, then for BidAsk, and stops at the
\* first failure: what the broker may stream after it.
client_subscribe(on, ok) ==
    IF ok THEN {Channels} ELSE {on, on \cup ({"tick"} \cap Channels)}

\* ShioajiClient.unsubscribe swallows the broker's errors.
client_unsubscribe(on) == SUBSET on

\* subscribe: when the client fails the provider unsubscribes and raises.
subscribe ==
    /\ started /\ ~ subscribed
    /\ \/ /\ streams' \in client_subscribe(streams, TRUE)
          /\ subscribed' = TRUE
       \/ /\ \E on \in client_subscribe(streams, FALSE) : streams' \in client_unsubscribe(on)
          /\ UNCHANGED subscribed
    /\ UNCHANGED <<now, started, snap, call, intent, fired, peak>>

\* unsubscribe: the broker may keep streaming when its call failed.
unsubscribe ==
    /\ Churn
    /\ subscribed
    /\ subscribed' = FALSE
    /\ streams' \in client_unsubscribe(streams)
    /\ snap' = NoSnap
    /\ UNCHANGED <<now, started, call, intent, fired, peak>>

-----------------------------------------------------------------------------
(* Callbacks *)

\* The SDK hands over a payload stamped by the exchange; a tick without a price
\* and a book without both sides are dropped by the client.
Deliver(c) ==
    /\ c \in streams
    /\ call[c].pc = "idle"
    /\ Serial => Quiet
    /\ \E q \in IF c = "tick" THEN {Quote(NoPrice, NoPrice, l, now) : l \in Lasts}
                ELSE {Quote(b[1], b[2], NoPrice, now) : b \in Books \ {<<NoPrice, NoPrice>>}} :
           call' = [call EXCEPT ![c] = [IdleCall EXCEPT !.pc = "payload", !.q = q]]
    /\ UNCHANGED <<now, started, subscribed, streams, snap, intent, fired, peak>>

\* build_snapshot: the channel's own fields and the time are new, the other
\* channel's fields are kept from the previous snapshot.
build_snapshot(c, previous, q) ==
    IF c = "tick" THEN [previous EXCEPT !.last = q.last, !.at = q.at]
    ELSE [previous EXCEPT !.bid = q.bid, !.ask = q.ask, !.at = q.at]

\* _on_tick and _on_bidask: merge under the lock.  Nothing asks whether the
\* symbol is still subscribed.
on_quote(c) ==
    /\ call[c].pc = "payload"
    /\ snap' = build_snapshot(c, snap, call[c].q)
    /\ call' = [call EXCEPT ![c].pc = "fire", ![c].q = snap']
    /\ UNCHANGED <<now, started, subscribed, streams, intent, fired, peak>>

\* The dispatcher reads the clock and lists the active intents.
DispatchList(c) ==
    /\ call[c].pc = "fire"
    /\ call' = IF intent.status = "active"
               THEN [call EXCEPT ![c].pc = "listed", ![c].at = now, ![c].listed = intent]
               ELSE [call EXCEPT ![c] = IdleCall]
    /\ UNCHANGED <<now, started, subscribed, streams, snap, intent, fired, peak>>

Higher(a, b) == IF a >= b THEN a ELSE b

\* The reference price of an evaluation that reached the trailing rule.
SeenReference(q, r) ==
    IF r.skip \in {"none", "condition_not_met"} THEN trailing_reference_price(q) ELSE NoPrice

\* UPDATE trade_intent_trailing_params WHERE trade_intent_id: neither the status
\* of the intent nor the stored baseline is looked at.
system_update_trailing_baseline(row, r) ==
    [row EXCEPT !.baseline = r.baseline, !.dynamic = r.dynamic]

\* apply_trailing_baseline_update, then persist_core_trigger, which writes only
\* while the row is active.
Apply(q, r, at, row) ==
    LET moved == IF r.moved THEN system_update_trailing_baseline(row, r) ELSE row
    IN  /\ intent' = IF r.fire /\ row.status = "active"
                     THEN [moved EXCEPT !.status = "triggered"] ELSE moved
        /\ fired' = IF r.fire /\ row.status = "active"
                    THEN [fire |-> TRUE, result |-> r, q |-> q, at |-> at] ELSE fired
        /\ peak' = Higher(peak, SeenReference(q, r))

\* The listed intent is evaluated; the writes go to the row as it is now.
DispatchWrite(c) ==
    /\ call[c].pc = "listed"
    /\ Apply(call[c].q, evaluate(call[c].q, call[c].listed, call[c].at), call[c].at, intent)
    /\ call' = [call EXCEPT ![c] = IdleCall]
    /\ UNCHANGED <<now, started, subscribed, streams, snap>>

-----------------------------------------------------------------------------
(* A creation evaluates the quote at hand in its own transaction: the cache   *)
(* of get_quotes, or for a market order the REST price of get_current_price.  *)

\* The cached snapshot; without one QuoteUnavailableError is raised.
get_quotes == {snap} \ {NoSnap}

\* ShioajiClient.get_stock_snapshot: a quote of this instant, or a failure.
get_current_price == {Quote(b[1], b[2], l, now) : b \in Books, l \in Lasts}

\* _fetch_quote_for_create: NoSnap when no quote can be had.
CreateQuotes(i) ==
    (IF i.strategy \in {"market_order", "market_buy_order", "market_sell_order"}
     THEN get_current_price ELSE {})
    \cup (IF get_quotes = {} THEN {NoSnap} ELSE get_quotes)

CreateIntent ==
    /\ intent.status = "absent"
    /\ InSession(now)
    /\ subscribed
    /\ \E i \in Offers : \E q \in CreateQuotes(i) :
           LET row == [i EXCEPT !.status = "active"]
           IN  IF q = NoSnap
               THEN intent' = row /\ UNCHANGED <<fired, peak>>
               ELSE Apply(q, evaluate(q, row, now), now, row)
    /\ UNCHANGED <<now, started, subscribed, streams, snap, call>>

Advance ==
    /\ \E t \in Clock : /\ t > now
                        /\ \A u \in Clock : u > now => t <= u
                        /\ now' = t
    /\ UNCHANGED <<started, subscribed, streams, snap, call, intent, fired, peak>>

Init ==
    /\ now \in Clock /\ \A t \in Clock : now <= t
    /\ started = FALSE /\ subscribed = FALSE /\ streams = {}
    /\ snap = NoSnap
    /\ call = [c \in Channels |-> IdleCall]
    /\ intent = NoIntent /\ fired = NotFired /\ peak = NoPrice

Next ==
    \/ Startup \/ Shutdown \/ subscribe \/ unsubscribe
    \/ \E c \in Channels :
           Deliver(c) \/ on_quote(c) \/ DispatchList(c) \/ DispatchWrite(c)
    \/ CreateIntent
    \/ Advance

Spec == Init /\ [][Next]_vars

-----------------------------------------------------------------------------
\* While the provider counts the symbol as subscribed, the broker streams both
\* of its channels: a half-subscribed symbol would never update its bid or ask.
SubscribedMeansStreamed == subscribed => started /\ streams = Channels

\* The documented rule for every strategy, as one condition on the quote that
\* fired: buys look at the ask, sells and stops at the bid, and the last price
\* stands in only when that side is missing; the quote was at most ten seconds
\* old, inside the session, positive and not crossed.
FiredByTheRule ==
    fired.fire =>
        LET q == fired.q
            s == intent.strategy
            buys == s \in {"buy_price_alert", "limit_buy_order", "market_order", "market_buy_order"}
            side == IF buys THEN q.ask ELSE q.bid
            price == IF side # NoPrice THEN side ELSE q.last
        IN  /\ fired.result.price = price /\ price > 0
            /\ fired.result.fallback = (side = NoPrice)
            /\ fired.at - q.at <= 10 /\ InSession(fired.at) /\ InSession(q.at)
            /\ q.bid > 0 /\ q.ask > 0 => q.bid <= q.ask
            /\ s \in {"buy_price_alert", "limit_buy_order"} => price <= intent.target
            /\ s \in {"sell_price_alert", "limit_sell_order"} => price >= intent.target
            /\ s = "trailing_stop_alert" => price <= fired.result.dynamic

\* Baseline and stop of the stored row, and of the trigger row, belong to each
\* other whatever dispatches interleaved, and the stop never lies above the one
\* the highest price seen allows.
StopMatchesBaseline ==
    intent.strategy = "trailing_stop_alert" =>
        LET stop(b) == calculate_dynamic_trigger_price(intent.type, intent.mode, intent.value, b)
        IN  /\ intent.baseline # NoPrice => intent.dynamic = stop(intent.baseline)
            /\ fired.fire => fired.result.dynamic = stop(fired.result.baseline)
            /\ intent.baseline <= peak

\* The baseline of an active trailing intent is the highest reference price of
\* all quotes evaluated for it.
BaselineIsHighest ==
    intent.strategy = "trailing_stop_alert" => intent.baseline = peak

\* A trigger rests on a quote that the shared QuoteValidator accepts.
FiredOnValidatedQuote == fired.fire => validator_accepts(fired.q, fired.at)

=============================================================================
