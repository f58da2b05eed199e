----------------------------- MODULE PriceLadder ----------------------------
(***************************************************************************)
(* A price that rises in small steps through the boundaries of the tick     *)
(* tables, and the highest legal price it has met: the reference against    *)
(* which the rounding of module Price is checked at every step.             *)
(***************************************************************************)
EXTENDS Price

CONSTANTS
    Starts,    \* legal prices at which a climb begins, or prices not above zero
    STEP,      \* the rise of one step
    CLIMB,     \* bound of the model: how far a climb goes
    Trails,    \* pairs <<mode, value>> a trailing stop may carry
    Forms      \* forms of text and amounts a request may carry

\* What an instance has to respect.
LadderAssumption ==
    /\ STEP \in Nat \ {0} /\ CLIMB \in Nat
    /\ \A s \in Starts : s \in Int

VARIABLES type, from, price, floor

vars == <<type, from, price, floor>>

\* The legal prices are the positive whole multiples of the tick in force.
Legal(p) == p > 0 /\ is_valid_tick(type, p)

Init ==
    /\ type \in SecurityType
    /\ from \in Starts
    /\ price = from
    /\ floor = IF Legal(price) THEN price ELSE 0

Rise ==
    /\ price < from + CLIMB
    /\ price' = price + STEP
    /\ floor' = IF Legal(price') THEN price' ELSE floor
    /\ UNCHANGED <<type, from>>

Next == Rise

Spec == Init /\ [][Next]_vars

-----------------------------------------------------------------------------
\* The price nearest_lower offers to a client whose price is refused is the
\* highest legal one that does not exceed it, across the boundaries where the
\* tick grows, and one tick when there is none.
LowerIsNearest ==
    nearest_lower(type, price) =
        IF floor > 0 THEN floor ELSE lookup_tick_size(type, price)

\* The price nearest_upper offers is legal, even where rounding up carries it
\* into the next row of the table, and nothing legal is left between the two
\* offers.
UpperIsNearest ==
    price > 0 =>
        LET upper == nearest_upper(type, price)
        IN  /\ Legal(upper)
            /\ upper >= price
            /\ Legal(price) => upper = price
            /\ ~ Legal(price) /\ floor > 0 => upper = floor + lookup_tick_size(type, price)

\* A request is accepted exactly when its text is a positive legal price of a
\* known security type and its amount is positive.
AcceptsLegalPricesOnly ==
    \A f \in Forms :
        validate(type, [form |-> f[1], value |-> price], f[2]) = "ok"
            <=> f[1] = "number" /\ f[2] >= 1 /\ Legal(price)

\* The stop of a trailing intent is a legal price, below the baseline or the
\* smallest price there is, and no lower than the trail asks for.
StopIsLegalAndBelow ==
    Legal(price) =>
        \A t \in Trails :
            LET stop == calculate_dynamic_trigger_price(type, t[1], t[2], price)
                raw == RawTrigger(t[1], t[2], price)
            IN  /\ Legal(stop)
                /\ stop < price \/ stop = lookup_tick_size(type, 0)
                /\ stop + lookup_tick_size(type, raw) > raw

\* A higher baseline never gives a lower stop, whatever row of the table the
\* baseline and the stop fall in.
StopRises ==
    \A t \in Trails :
        calculate_dynamic_trigger_price(type, t[1], t[2], price)
            <= calculate_dynamic_trigger_price(type, t[1], t[2], price')
StopRisesWithBaseline == [][StopRises]_vars

\* What the docstring of lookup_tick_size says of prices that are not positive.
NonPositiveFallsToTopBucket ==
    price <= 0 => lookup_tick_size(type, price) = TopTick(type)

=============================================================================
