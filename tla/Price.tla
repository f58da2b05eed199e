-------------------------------- MODULE Price -------------------------------
(***************************************************************************)
(* The price rules of domain/price.py: tick tables, rounding to a legal    *)
(* price and the validation of a requested price.                          *)
(*                                                                         *)
(* A price is a number of ten-thousandths of a dollar, the resolution of   *)
(* the database columns (numeric(9,4)), so all arithmetic is exact, as it  *)
(* is with Decimal.                                                        *)
(***************************************************************************)
EXTENDS Integers, Sequences

Cent == 100
Dollar == 100 * Cent

SecurityType == {"stock", "etf"}

\* Rows <<upper bound, tick>>, the bound exclusive; the last tick has no bound.
STOCK_TICK_TABLE ==
    << <<10 * Dollar, Cent>>, <<50 * Dollar, 5 * Cent>>, <<100 * Dollar, 10 * Cent>>,
       <<500 * Dollar, 50 * Cent>>, <<1000 * Dollar, Dollar>> >>
STOCK_TICK_ABOVE_1000 == 5 * Dollar

ETF_TICK_TABLE == << <<50 * Dollar, Cent>> >>
ETF_TICK_ABOVE_50 == 5 * Cent

Table(type) == IF type = "etf" THEN ETF_TICK_TABLE ELSE STOCK_TICK_TABLE
TopTick(type) == IF type = "etf" THEN ETF_TICK_ABOVE_50 ELSE STOCK_TICK_ABOVE_1000

\* Mutant: what the docstring says of zero and negative prices.
TickTopBucketBelowZero(type, price) ==
    LET rows == {n \in DOMAIN Table(type) : price < Table(type)[n][1]}
    IN  IF price <= 0 \/ rows = {} THEN TopTick(type)
        ELSE Table(type)[CHOOSE n \in rows : \A k \in rows : n <= k][2]

\* The tick of the first row whose bound is above the price.
lookup_tick_size(type, price) ==
    LET rows == {n \in DOMAIN Table(type) : price < Table(type)[n][1]}
    IN  IF rows = {} THEN TopTick(type)
        ELSE Table(type)[CHOOSE n \in rows : \A k \in rows : n <= k][2]

\* Decimal's // rounds towards zero.
DecimalFloorDiv(a, b) == IF a >= 0 THEN a \div b ELSE -((-a) \div b)

\* The largest multiple of the price's tick that is not above a positive price.
WholeTicks(type, price) ==
    LET tick == lookup_tick_size(type, price)
    IN  DecimalFloorDiv(price, tick) * tick

is_valid_tick(type, price) == WholeTicks(type, price) = price

nearest_lower(type, price) ==
    LET lower == WholeTicks(type, price)
        tick == lookup_tick_size(type, price)
    IN  IF lower >= tick THEN lower ELSE tick

\* Mutant: a legal price is moved up too.
NearestUpperAlways(type, price) ==
    WholeTicks(type, price) + lookup_tick_size(type, price)

nearest_upper(type, price) ==
    LET lower == WholeTicks(type, price)
    IN  IF lower = price THEN lower ELSE lower + lookup_tick_size(type, price)

round_down_to_tick(type, price) == nearest_lower(type, price)

fixed_amount_tick_size(type) == IF type = "etf" THEN 5 * Cent ELSE 10 * Cent

\* validate_fixed_amount_tick, as the error it raises or "ok".
validate_fixed_amount_tick(type, value) ==
    IF value % fixed_amount_tick_size(type) # 0 THEN "InvalidTickSizeError" ELSE "ok"

-----------------------------------------------------------------------------
(* A requested price is a text.  What parse() can tell of it is its form     *)
(* and, when Decimal accepts it, its value.                                 *)

TextForms == {"number", "not_a_string", "padded", "with_comma", "garbage", "not_finite"}

\* PriceService.parse: "ok" with the value, or the error.
parse(text) ==
    IF text.form # "number" \/ text.value <= 0 THEN "InvalidPriceError" ELSE "ok"

\* PriceService.validate, the checks in the order of the code.
validate(type, text, amount) ==
    IF amount <= 0 THEN "InvalidAmountError"
    ELSE IF type \notin SecurityType THEN "InvalidTypeError"
    ELSE IF parse(text) # "ok" THEN parse(text)
    ELSE IF ~ is_valid_tick(type, text.value) THEN "InvalidTickSizeError"
    ELSE "ok"

-----------------------------------------------------------------------------
(* QuoteEvaluator._calculate_dynamic_trigger_price: the stop price of a      *)
(* trailing stop.  A percentage is a whole number of percent.                *)

TrailModes == {"percentage", "fixed_amount"}

RawTrigger(mode, value, baseline) ==
    IF mode = "percentage" THEN (baseline * (100 - value)) \div 100 ELSE baseline - value

calculate_dynamic_trigger_price(type, mode, value, baseline) ==
    round_down_to_tick(type, RawTrigger(mode, value, baseline))

=============================================================================
