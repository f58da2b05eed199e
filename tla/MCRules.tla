------------------------------ MODULE MCRules -------------------------------
(***************************************************************************)
(* The rules without state of their own: session clock, tick tables, TWAP  *)
(* plans, and the shape of a creation request.  They share nothing, so     *)
(* `part` is chosen in the initial state and only that module moves.       *)
(***************************************************************************)
EXTENDS SessionClock, Price

CONSTANT None

VARIABLES
    part,                               \* "clock", "ladder", "plan" or "shape"
    type, from, price, floor,           \* PriceLadder
    pc, req, asked, remaining, slices,  \* TwapPlan
    rows, last                          \* IntentShape

ladder == <<type, from, price, floor>>
plan == <<pc, req, asked, remaining, slices>>
shape == <<rows, last>>
all == <<part, now, ladder, plan, shape>>

-----------------------------------------------------------------------------
\* Climbs that start below zero and just under each boundary of the tables.
Starts == {s * Dollar : s \in {-2, 0, 8, 45, 95, 490, 990}}
Trails ==
    {<<"percentage", v>> : v \in {1, 3, 7, 10}}
        \cup {<<"fixed_amount", v * Cent>> : v \in {10, 50, 500}}
Forms == {<<f, a>> : f \in TextForms, a \in {-1, 0, 1}}

Ladder == INSTANCE PriceLadder WITH STEP <- 50, CLIMB <- 200000

\* Requests and instants (in half seconds) on both sides of every limit of a
\* plan: Friday before, at and after the opening, around the latest end and the
\* close; and Saturday.  A start of -1 is none.
Requests ==
    [quantity : {2, 7, 10}, interval : {1, 60, 299, 3600},
     start : {-1, 540, 542, 800}, end : {540, 541, 547, 805}]
    \cup [quantity : {1, 2, 201, 1000, 1001}, interval : {0, 90, 3601},
          start : {-1, 539, 801}, end : {539, 805, 806}]
HalfSeconds(day, minute) == (day * MinutesPerDay + minute) * 120
Instants ==
    {HalfSeconds(4, m) + h : m \in {539, 541, 804}, h \in {0, 1, 119}}
    \cup {HalfSeconds(4, 540), HalfSeconds(4, 805), HalfSeconds(4, 810) - 1,
          HalfSeconds(4, 810), HalfSeconds(5, 600)}

Plan == INSTANCE TwapPlan WITH now <- asked

\* Bodies of every strategy.  600 and 600.0000 are one price; 600.5 and
\* 600.00001 are off the tick.
D(num, places) == [num |-> num, places |-> places]
Body(strategy, quantity, target, mode, trail_mode, trail_value) ==
    [strategy |-> strategy, quantity |-> quantity, price |-> target, mode |-> mode,
     trail_mode |-> trail_mode, trail_value |-> trail_value]
Targets == {D(600, 0), D(6000000, 4), D(601, 0), D(6005, 1), D(60000001, 5)}
Modes == {None, "single_notification", "partial_fill_allowed"}
Percentages == {D(5, 0), D(50, 1), D(500001, 5), D(500002, 5), D(10, 0), D(11, 0), D(0, 0)}
Amounts == {D(5, 1), D(50, 2), D(7, 2), D(5, 0)}
Bodies ==
    {Body(s, q, x, m, None, None) :
        s \in {"buy_price_alert", "limit_sell_order"}, q \in 0..2, x \in Targets \cup {None}, m \in Modes}
    \cup {Body(s, 1, D(600, 0), m, None, None) : s \in {"sell_price_alert", "limit_buy_order"}, m \in Modes}
    \cup {Body(s, 1, x, m, None, None) :
        s \in {"market_order", "market_buy_order", "market_sell_order"}, x \in {None, D(600, 0)}, m \in Modes}
    \cup {Body("trailing_stop_alert", 1, None, None, "percentage", v) : v \in Percentages}
    \cup {Body("trailing_stop_alert", 1, None, None, "fixed_amount", v) : v \in Amounts}
    \cup {Body("trailing_stop_alert", 1, None, None, None, D(5, 0)),
          Body("buy_price_alert", 1, D(600, 0), None, "percentage", D(5, 0))}

Shape == INSTANCE IntentShape WITH SECURITY <- "stock", MAX_ROWS <- 3

ASSUME Ladder!LadderAssumption /\ Plan!TwapPlanAssumption /\ Shape!IntentShapeAssumption

-----------------------------------------------------------------------------
LadderOff == type = None /\ from = 0 /\ price = 0 /\ floor = 0
PlanOff == pc = None /\ req = None /\ asked = 0 /\ remaining = 0 /\ slices = <<>>
ShapeOff == rows = {} /\ last = None

RulesInit ==
    /\ Init
    /\ \/ part = "clock" /\ LadderOff /\ PlanOff /\ ShapeOff
       \/ part = "ladder" /\ Ladder!Init /\ PlanOff /\ ShapeOff
       \/ part = "plan" /\ LadderOff /\ Plan!Init /\ ShapeOff
       \/ part = "shape" /\ LadderOff /\ PlanOff /\ Shape!Init

ClockStep == part = "clock" /\ Next /\ UNCHANGED <<part, ladder, plan, shape>>
LadderStep == part = "ladder" /\ Ladder!Next /\ UNCHANGED <<part, now, plan, shape>>
PlanStep == part = "plan" /\ Plan!Next /\ UNCHANGED <<part, now, ladder, shape>>
ShapeStep == part = "shape" /\ Shape!Next /\ UNCHANGED <<part, now, ladder, plan>>

RulesNext == ClockStep \/ LadderStep \/ PlanStep \/ ShapeStep

RulesSpec == RulesInit /\ [][RulesNext]_all

-----------------------------------------------------------------------------
\* Wherever the tick grows, the price rules agree with the reference of the climb:
\* nearest_lower and nearest_upper offer the legal neighbours, a stop is the lowest
\* legal price the trail allows, and validate accepts legal prices only.
PricesMatchReference ==
    part = "ladder" =>
        /\ Ladder!LowerIsNearest
        /\ Ladder!UpperIsNearest
        /\ Ladder!StopIsLegalAndBelow
        /\ Ladder!AcceptsLegalPricesOnly

\* A higher baseline never gives a lower stop, whatever rows of the tick table
\* baseline and stop fall in.
StopRisesWithBaseline == [][part = "ladder" => Ladder!StopRises]_all

\* A plan of build_twap_plan has the date and status the session service gives to
\* any day intent, the earliest instants of its grid that the window holds and none
\* in the past, and all lots in slices that differ by one at most.
PlanIsExact ==
    part = "plan" =>
        /\ Plan!PlanFollowsTheClock
        /\ Plan!SlicesFillTheWindow
        /\ Plan!LotsAreSpread

\* The dedup key separates and unites what the stored parameters do: no two open
\* intents are stored alike, and an IntegrityError taken for a duplicate is one.
DuplicatesAreExact == part = "shape" => Shape!NoEquivalentIntents /\ Shape!DuplicateHasATwin

\* Whichever endpoint it was posted to, a request the schema accepts passes the
\* repository's own checks of its parameters, and the response read back from the
\* row has the fields of the request or their defaults.
EchoesRequest == part = "shape" => Shape!EchoesRequest /\ Shape!ParamsAlwaysFit

=============================================================================
