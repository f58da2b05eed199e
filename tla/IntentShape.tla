------------------------------ MODULE IntentShape -----------------------------
(***************************************************************************)
(* What becomes of a request to create an intent: the schema of its          *)
(* endpoint, the command's input, the checks of the command and of the       *)
(* repository, the row with its satellites and its key against duplicates,   *)
(* and the response read back from them.  One owner, symbol and day, so the   *)
(* intents are open and the limits, the session, the subscription and the     *)
(* quotes (modules CoreTrack, QuoteFeed) are left out.                        *)
(*                                                                         *)
(* A decimal is a number with a number of places, as it was written; the     *)
(* columns are numeric(9,4).                                                *)
(***************************************************************************)
EXTENDS Price, FiniteSets

CONSTANTS
    Bodies,    \* the bodies that are posted; None for a field that is absent
    SECURITY,      \* the type of the symbol
    MAX_ROWS,  \* bound on the intents created
    None

\* What an instance has to respect.
IntentShapeAssumption == SECURITY \in SecurityType /\ MAX_ROWS \in Nat

VARIABLES
    rows,  \* trade_intent_core with its satellites
    last   \* the last request, its outcome and the response

vars == <<rows, last>>

Is(v) == v # None
Power(n) == CASE n = 0 -> 1 [] n = 1 -> 10 [] n = 2 -> 100 [] n = 3 -> 1000 [] n = 4 -> 10000 [] n = 5 -> 100000

\* The integer part, and the fraction without trailing zeros but with two places.
format_price_str(d) ==
    LET least == CHOOSE p \in 0..d.places :
                    /\ d.num % Power(d.places - p) = 0
                    /\ \A q \in 0..(p - 1) : d.num % Power(d.places - q) # 0
        places == IF least < 2 THEN 2 ELSE least
        fraction == d.num % Power(d.places)
    IN  [int |-> d.num \div Power(d.places), places |-> places,
         fraction |-> IF places >= d.places THEN fraction * Power(places - d.places)
                      ELSE fraction \div Power(d.places - places)]

\* What a numeric(9,4) column holds, rounded half up.
Numeric(d) ==
    [num |-> IF d.places <= 4 THEN d.num * Power(4 - d.places) ELSE (d.num + 5) \div 10, places |-> 4]

\* Whether four places are enough.
FourPlaces(d) == d.places <= 4 \/ d.num % 10 = 0

BUY_SIDE_STRATEGIES == {"buy_price_alert", "limit_buy_order", "market_order", "market_buy_order"}
SELL_SIDE_STRATEGIES == {"sell_price_alert", "limit_sell_order", "trailing_stop_alert", "market_sell_order"}
MARKET_ORDER_STRATEGIES == {"market_order", "market_buy_order", "market_sell_order"}

derive_order_side(strategy) == IF strategy \in BUY_SIDE_STRATEGIES THEN "buy" ELSE "sell"

-----------------------------------------------------------------------------
(* The schemas: the fields a request must have or may have; any other is     *)
(* refused.                                                                 *)

TargetPriceIntentCreateRequest(strategy) ==
    [strategies |-> {strategy}, price |-> TRUE, trail |-> FALSE, modes |-> {}, default |-> None]
LimitOrderCreateRequest(strategy) ==
    [TargetPriceIntentCreateRequest(strategy) EXCEPT
        !.modes = {"single_notification", "partial_fill_allowed"}, !.default = "single_notification"]

MarketOrderCreateRequest ==
    [strategies |-> MARKET_ORDER_STRATEGIES, price |-> FALSE, trail |-> FALSE,
     modes |-> {"partial_fill_allowed"}, default |-> "partial_fill_allowed"]
TrailingStopAlertCreateRequest ==
    [strategies |-> {"trailing_stop_alert"}, price |-> FALSE, trail |-> TRUE, modes |-> {}, default |-> None]

Schemas ==
    {TargetPriceIntentCreateRequest(s) : s \in {"buy_price_alert", "sell_price_alert"}}
    \cup {LimitOrderCreateRequest(s) : s \in {"limit_buy_order", "limit_sell_order"}}
    \cup {MarketOrderCreateRequest, TrailingStopAlertCreateRequest}

\* Mutant: a percentage may have any number of places.
AnyPrecision(body) == body.trail_mode = "percentage" => body.trail_value.num <= 10 * Power(body.trail_value.places)

validate_percentage_trail_value(body) ==
    body.trail_mode = "percentage" =>
        body.trail_value.num <= 10 * Power(body.trail_value.places) /\ FourPlaces(body.trail_value)

Accepts(schema, body) ==
    /\ body.strategy \in schema.strategies
    /\ body.quantity >= 1
    /\ Is(body.price) <=> schema.price
    /\ Is(body.mode) => body.mode \in schema.modes
    /\ Is(body.trail_mode) <=> schema.trail
    /\ Is(body.trail_value) <=> schema.trail
    /\ schema.trail => body.trail_value.num > 0 /\ validate_percentage_trail_value(body)

Parsed(schema, body) == [body EXCEPT !.mode = IF Is(@) THEN @ ELSE schema.default]

\* IntentCreateRequest: the schema is found by the strategy.
IntentCreateRequest(body) == CHOOSE s \in Schemas : body.strategy \in s.strategies

-----------------------------------------------------------------------------
(* The endpoints, each with the input it gives the command *)

CreateTradeIntentInput(strategy, quantity) ==
    [strategy |-> strategy, quantity |-> quantity, price |-> None, mode |-> "single_notification",
     trail_mode |-> None, trail_value |-> None]

create_intent(r) ==
    [CreateTradeIntentInput(r.strategy, r.quantity) EXCEPT
        !.price = r.price, !.mode = IF Is(r.mode) THEN r.mode ELSE @,
        !.trail_mode = r.trail_mode, !.trail_value = r.trail_value]

create_buy_price_alert(r) == [CreateTradeIntentInput(r.strategy, r.quantity) EXCEPT !.price = r.price]
create_sell_price_alert(r) == [CreateTradeIntentInput(r.strategy, r.quantity) EXCEPT !.price = r.price]
create_limit_buy_order(r) == [CreateTradeIntentInput(r.strategy, r.quantity) EXCEPT !.price = r.price, !.mode = r.mode]
create_limit_sell_order(r) == [CreateTradeIntentInput(r.strategy, r.quantity) EXCEPT !.price = r.price, !.mode = r.mode]

\* Mutant: the mode of the request is not passed on.
MarketWithoutMode(r) == CreateTradeIntentInput(r.strategy, r.quantity)

create_market_order(r) == [CreateTradeIntentInput(r.strategy, r.quantity) EXCEPT !.mode = r.mode]
create_trailing_stop_alert(r) ==
    [CreateTradeIntentInput(r.strategy, r.quantity) EXCEPT !.trail_mode = r.trail_mode, !.trail_value = r.trail_value]

\* The endpoint of the strategy's own.
OwnEndpoint(r) ==
    CASE r.strategy = "buy_price_alert" -> create_buy_price_alert(r)
      [] r.strategy = "sell_price_alert" -> create_sell_price_alert(r)
      [] r.strategy = "limit_buy_order" -> create_limit_buy_order(r)
      [] r.strategy = "limit_sell_order" -> create_limit_sell_order(r)
      [] r.strategy \in MARKET_ORDER_STRATEGIES -> create_market_order(r)
      [] r.strategy = "trailing_stop_alert" -> create_trailing_stop_alert(r)

-----------------------------------------------------------------------------
(* The command and the repository *)

\* The command's checks of the price and of a fixed trail.
ValidPrices(inp) ==
    CASE inp.strategy = "trailing_stop_alert" ->
            /\ Is(inp.trail_mode) /\ Is(inp.trail_value)
            /\ inp.trail_mode = "fixed_amount" =>
                  /\ FourPlaces(inp.trail_value)
                  /\ validate_fixed_amount_tick(SECURITY, Numeric(inp.trail_value).num) = "ok"
      [] inp.strategy \in MARKET_ORDER_STRATEGIES -> TRUE
      [] OTHER ->
            /\ Is(inp.price) /\ FourPlaces(inp.price)
            /\ validate(SECURITY, [form |-> "number", value |-> Numeric(inp.price).num], inp.quantity) = "ok"

\* The parameters fit the strategy, or create raises a ValueError.
ParamsFit(inp) ==
    LET trailing == inp.strategy = "trailing_stop_alert" IN
    /\ Is(inp.trail_mode) <=> trailing
    /\ Is(inp.trail_value) <=> trailing
    /\ Is(inp.price) <=> ~ trailing /\ inp.strategy \notin MARKET_ORDER_STRATEGIES

build_dedup_key(inp) ==
    IF inp.strategy = "trailing_stop_alert" THEN <<inp.trail_mode, format_price_str(inp.trail_value)>>
    ELSE IF Is(inp.price) THEN <<format_price_str(inp.price)>>
    ELSE <<>>

\* The row of trade_intent_core, the price satellite and the trailing satellite.
PriceParams(inp) == IF Is(inp.price) THEN [target |-> Numeric(inp.price)] ELSE None
TrailingParams(inp) ==
    IF inp.strategy = "trailing_stop_alert"
    THEN [mode |-> inp.trail_mode, value |-> Numeric(inp.trail_value)] ELSE None

NewRow(inp) ==
    [strategy |-> inp.strategy, quantity |-> inp.quantity, mode |-> inp.mode,
     ref |-> IF derive_order_side(inp.strategy) = "buy" THEN "ask" ELSE "bid",
     key |-> build_dedup_key(inp), price |-> PriceParams(inp), trailing |-> TrailingParams(inp)]

\* The CHECK constraints of the two satellites.
PriceChecks(p) == Is(p) => p.target.num > 0
TrailingChecks(t) == Is(t) => t.value.num > 0 /\ (t.mode = "percentage" => t.value.num <= 10 * Power(4))

\* The query for duplicates, and the unique index.
Duplicate(row) == \E r \in rows : r.strategy = row.strategy /\ r.key = row.key /\ r.quantity = row.quantity

\* _to_domain and map_to_response_data.
to_domain(row) ==
    [strategy |-> row.strategy, quantity |-> row.quantity, mode |-> row.mode,
     price |-> IF Is(row.price) THEN row.price.target ELSE None,
     trail_mode |-> IF Is(row.trailing) THEN row.trailing.mode ELSE None,
     trail_value |-> IF Is(row.trailing) THEN row.trailing.value ELSE None]

map_to_response_data(i) ==
    [i EXCEPT !.price = IF Is(@) THEN format_price_str(@) ELSE None,
              !.trail_value = IF Is(@) THEN format_price_str(@) ELSE None]

-----------------------------------------------------------------------------
Answer(request, outcome, response) == last' = [request |-> request, outcome |-> outcome, response |-> response]

Refuse(request, outcome) == UNCHANGED rows /\ Answer(request, outcome, None)

Create(request, inp) ==
    LET row == NewRow(inp) IN
    IF ~ ValidPrices(inp) THEN Refuse(None, "invalid_price")
    ELSE IF ~ ParamsFit(inp) THEN Refuse(request, "ValueError")
    ELSE IF Duplicate(row) \/ ~ PriceChecks(row.price) \/ ~ TrailingChecks(row.trailing)
    THEN Refuse(request, "DuplicateIntentError")   \* any IntegrityError is taken for a duplicate
    ELSE rows' = rows \cup {row} /\ Answer(request, "created", map_to_response_data(to_domain(row)))

\* A request to the endpoint for all strategies, or to the strategy's own.
Post(body, own) ==
    LET schema == IntentCreateRequest(body)
        request == Parsed(schema, body)
    IN
    /\ Cardinality(rows) < MAX_ROWS
    /\ IF Accepts(schema, body)
       THEN Create(request, IF own THEN OwnEndpoint(request) ELSE create_intent(request))
       ELSE Refuse(None, "unprocessable")

\* Intents close, and with them the reason to refuse another.
Close(row) == rows' = rows \ {row} /\ Answer(None, "none", None)

Init == rows = {} /\ last = [request |-> None, outcome |-> "none", response |-> None]

Next == (\E body \in Bodies, own \in BOOLEAN : Post(body, own)) \/ (\E row \in rows : Close(row))

Spec == Init /\ [][Next]_vars

-----------------------------------------------------------------------------
Params(row) == [row EXCEPT !.key = <<>>, !.mode = "any"]

\* No two open intents differ in nothing that is stored: the key separates and
\* unites what the satellites do, however a price was written.
NoEquivalentIntents == \A r, s \in rows : Params(r) = Params(s) => r = s

\* A request is refused as a duplicate only when an open intent has the same
\* strategy, quantity and numbers: no other failed constraint ends there.
DuplicateHasATwin ==
    last.outcome = "DuplicateIntentError" =>
        \E r \in rows : Params(r) = Params(NewRow(create_intent(last.request)))

\* Whichever endpoint it was posted to, what was created is what was asked for:
\* the response, read back from the row, has the request's fields or their defaults.
EchoesRequest ==
    last.outcome = "created" =>
        /\ last.response = map_to_response_data(create_intent(last.request))
        /\ last.response.mode = IF Is(last.request.mode) THEN last.request.mode ELSE "single_notification"

\* A request the schema accepts never fails the repository's own checks of the
\* parameters of a strategy.
ParamsAlwaysFit == last.outcome # "ValueError"

=============================================================================
