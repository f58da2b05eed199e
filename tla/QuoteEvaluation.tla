--------------------------- MODULE QuoteEvaluation --------------------------
(***************************************************************************)
(* The decision on one (quote, intent) pair: QuoteEvaluator of             *)
(* domain/quote_evaluation.py, and the stand-alone QuoteValidator of       *)
(* services/quote/validation.py.                                           *)
(*                                                                         *)
(* Instants here are seconds, a refinement of the minutes of module        *)
(* TradingSession; a price or NoPrice for a missing one.                   *)
(***************************************************************************)
EXTENDS TradingSession, Price

NoPrice == -1

\* QuoteSnapshot; received_at is never read.
Quote(bid, ask, last, at) == [bid |-> bid, ask |-> ask, last |-> last, at |-> at]

PricesOf(q) == {q.bid, q.ask, q.last} \ {NoPrice}

InSession(t) == is_within_regular_session(t \div 60)

\* now - quote_time <= 10s
QUOTE_FRESHNESS_THRESHOLD == 10

SkipReason ==
    {"outside_session", "quote_stale", "quote_bid_gt_ask", "quote_nonpositive_price",
     "quote_missing_all_prices", "condition_not_met", "unsupported_strategy"}

-----------------------------------------------------------------------------
(* EvaluationResult *)

Skip(reason, intent) ==
    [fire |-> FALSE, price |-> NoPrice, ref |-> "none", fallback |-> FALSE,
     skip |-> reason, baseline |-> intent.baseline, dynamic |-> intent.dynamic,
     moved |-> FALSE]

Fire(price, ref, intent) ==
    [Skip("none", intent) EXCEPT !.fire = TRUE, !.price = price, !.ref = ref,
                                 !.fallback = (ref = "last_fallback")]

\* verify_trading_hours
verify_trading_hours(now, quote_time) == InSession(now) /\ InSession(quote_time)

\* _validate_quote: the reason to skip, or "none".
validate_quote(q) ==
    IF \E p \in PricesOf(q) : p <= 0 THEN "quote_nonpositive_price"
    ELSE IF q.bid # NoPrice /\ q.ask # NoPrice /\ q.bid > q.ask THEN "quote_bid_gt_ask"
    ELSE IF PricesOf(q) = {} THEN "quote_missing_all_prices"
    ELSE "none"

evaluate_buy(q, i) ==
    IF q.ask # NoPrice
    THEN IF q.ask <= i.target THEN Fire(q.ask, "ask", i) ELSE Skip("condition_not_met", i)
    ELSE IF q.last # NoPrice /\ q.last <= i.target
    THEN Fire(q.last, "last_fallback", i)
    ELSE Skip("condition_not_met", i)

evaluate_sell(q, i) ==
    IF q.bid # NoPrice
    THEN IF q.bid >= i.target THEN Fire(q.bid, "bid", i) ELSE Skip("condition_not_met", i)
    ELSE IF q.last # NoPrice /\ q.last >= i.target
    THEN Fire(q.last, "last_fallback", i)
    ELSE Skip("condition_not_met", i)

evaluate_market_buy(q, i) ==
    IF q.ask # NoPrice THEN Fire(q.ask, "ask", i)
    ELSE IF q.last # NoPrice THEN Fire(q.last, "last_fallback", i)
    ELSE Skip("condition_not_met", i)

evaluate_market_sell(q, i) ==
    IF q.bid # NoPrice THEN Fire(q.bid, "bid", i)
    ELSE IF q.last # NoPrice THEN Fire(q.last, "last_fallback", i)
    ELSE Skip("condition_not_met", i)

\* Last trade, else the middle of the book.
trailing_reference_price(q) ==
    IF q.last # NoPrice THEN q.last
    ELSE IF q.bid # NoPrice /\ q.ask # NoPrice THEN (q.bid + q.ask) \div 2
    ELSE NoPrice

\* Mutant: the reference price moves the baseline whether it is higher or not.
TrailTakesEveryReference(q, i) ==
    LET ref == trailing_reference_price(q)
        moves == ref # NoPrice
        j == IF moves
             THEN [i EXCEPT !.baseline = ref,
                            !.dynamic = calculate_dynamic_trigger_price(i.type, i.mode, i.value, ref)]
             ELSE i
    IN  [Skip("condition_not_met", j) EXCEPT !.moved = moves]

\* A new high moves the baseline and the stop with it; the bid, or the last
\* price without one, at or below the stop fires.  Missing values are -1, so a
\* first reference is above a missing baseline.
evaluate_trailing_stop(q, i) ==
    LET ref == trailing_reference_price(q)
        moves == ref # NoPrice /\ ref > i.baseline
        j == IF moves
             THEN [i EXCEPT !.baseline = ref,
                            !.dynamic = calculate_dynamic_trigger_price(i.type, i.mode, i.value, ref)]
             ELSE i
        stop == j.dynamic
        r == IF stop = NoPrice THEN Skip("condition_not_met", j)
             ELSE IF q.bid # NoPrice /\ q.bid <= stop THEN Fire(q.bid, "bid", j)
             ELSE IF q.bid = NoPrice /\ q.last # NoPrice /\ q.last <= stop
                  THEN Fire(q.last, "last_fallback", j)
             ELSE Skip("condition_not_met", j)
    IN  [r EXCEPT !.moved = moves]

\* Choice of the strategy's rule.
evaluate_strategy(q, i) ==
    CASE i.strategy \in {"buy_price_alert", "limit_buy_order"} -> evaluate_buy(q, i)
      [] i.strategy \in {"sell_price_alert", "limit_sell_order"} -> evaluate_sell(q, i)
      [] i.strategy \in {"market_order", "market_buy_order"} -> evaluate_market_buy(q, i)
      [] i.strategy = "market_sell_order" -> evaluate_market_sell(q, i)
      [] i.strategy = "trailing_stop_alert" -> evaluate_trailing_stop(q, i)
      [] OTHER -> Skip("unsupported_strategy", i)

\* Mutant: the freshness of the quote is not looked at.
EvaluateStaleToo(q, i, now) ==
    IF ~ verify_trading_hours(now, q.at) THEN Skip("outside_session", i)
    ELSE IF validate_quote(q) # "none" THEN Skip(validate_quote(q), i)
    ELSE evaluate_strategy(q, i)

\* QuoteEvaluator.evaluate
evaluate(q, i, now) ==
    IF ~ verify_trading_hours(now, q.at) THEN Skip("outside_session", i)
    ELSE IF now - q.at > QUOTE_FRESHNESS_THRESHOLD THEN Skip("quote_stale", i)
    ELSE IF validate_quote(q) # "none" THEN Skip(validate_quote(q), i)
    ELSE evaluate_strategy(q, i)

-----------------------------------------------------------------------------
(* QuoteValidator.validate accepts a snapshot; fallback_used is then set     *)
(* when the bid or the ask is missing.                                       *)

validator_accepts(q, now) ==
    /\ InSession(now) /\ InSession(q.at)
    /\ PricesOf(q) # {}
    /\ \A p \in PricesOf(q) : p > 0
    /\ q.bid # NoPrice /\ q.ask # NoPrice => q.bid <= q.ask
    /\ q.bid = NoPrice \/ q.ask = NoPrice => q.last # NoPrice

=============================================================================
