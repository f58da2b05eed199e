------------------------------ MODULE TwapPlan ------------------------------
(***************************************************************************)
(* The TWAP plan of domain/twap.py: the checks of build_twap_plan, the      *)
(* window it derives from the clock, and the loop of _allocate_slices.      *)
(*                                                                         *)
(* An instant is a natural number of half seconds, counted like the minutes *)
(* of TradingSession: the odd ones stand for any instant between two whole  *)
(* seconds, which is all _ceil_to_second tells apart.  A time of day in a   *)
(* request is a number of minutes (HH:MM).                                  *)
(***************************************************************************)
EXTENDS TradingSession, FiniteSets, SequencesExt

CONSTANTS
    Requests,   \* TwapPlanRequest: [quantity, interval, start, end]
    Instants    \* instants at which a plan is asked for

Second == 2
Minute == 60 * Second
MinuteOf(t) == t \div Minute
At(day, minute) == (day * MinutesPerDay + minute) * Minute

NoTime == -1

\* Limits, as constants of the module.
MIN_QUANTITY_LOTS == 2
MAX_QUANTITY_LOTS == 1000
MIN_INTERVAL_SECONDS == 1
MAX_INTERVAL_SECONDS == 3600
MIN_MATERIALIZED_SLICES == 2
MAX_MATERIALIZED_SLICES == 200
LATEST_START_TIME == 800
LATEST_END_TIME == 805

\* The errors build_twap_plan raises.
TwapErrors ==
    {"interval", "quantity", "start_outside_session", "end_outside_session",
     "start_after_end", "end_already_passed", "insufficient_slices", "too_many_slices"}

\* TwapPlanRequest admits HH:MM only; every other field is an unbounded int.
TwapPlanRequest ==
    [quantity : Int, interval : Int,
     start : {NoTime} \cup 0..(MinutesPerDay - 1), end : 0..(MinutesPerDay - 1)]

\* What an instance has to respect.
TwapPlanAssumption ==
    /\ Requests \subseteq TwapPlanRequest
    /\ Instants \subseteq Nat

-----------------------------------------------------------------------------
ceil_to_second(t) == IF t % Second = 0 THEN t ELSE t + 1

Phase(now) == get_trading_day_phase(MinuteOf(now))


plan_date(now) ==
    IF Phase(now) \in {PRE_MARKET, REGULAR_SESSION} THEN DayOf(MinuteOf(now))
    ELSE next_trading_day(DayOf(MinuteOf(now)))

\* A requested start is taken even when it has passed; without one the plan
\* starts at once, or at the opening when the session is not running.
plan_start(r, now) ==
    IF r.start # NoTime THEN At(plan_date(now), r.start)
    ELSE IF Phase(now) = REGULAR_SESSION THEN ceil_to_second(now)
    ELSE At(plan_date(now), SESSION_START)

\* Mutant: the slice at the end itself is not counted.
AvailableBeforeEnd(r, now) ==
    (At(plan_date(now), r.end) - plan_start(r, now)) \div (r.interval * Second)

available_slice_count(r, now) ==
    (At(plan_date(now), r.end) - plan_start(r, now)) \div (r.interval * Second) + 1

materialized_slice_count(r, now) ==
    IF available_slice_count(r, now) <= r.quantity
    THEN available_slice_count(r, now) ELSE r.quantity

\* The first check that fails, in the order of the code, or "none".
refusal(r, now) ==
    IF r.interval \notin MIN_INTERVAL_SECONDS..MAX_INTERVAL_SECONDS THEN "interval"
    ELSE IF r.quantity \notin MIN_QUANTITY_LOTS..MAX_QUANTITY_LOTS THEN "quantity"
    ELSE IF r.start # NoTime /\ r.start \notin SESSION_START..LATEST_START_TIME
         THEN "start_outside_session"
    ELSE IF r.end \notin SESSION_START..LATEST_END_TIME THEN "end_outside_session"
    ELSE IF r.start > r.end THEN "start_after_end"
    ELSE IF At(plan_date(now), r.end) < plan_start(r, now)
         THEN IF Phase(now) = REGULAR_SESSION THEN "end_already_passed" ELSE "insufficient_slices"
    ELSE IF materialized_slice_count(r, now) < MIN_MATERIALIZED_SLICES THEN "insufficient_slices"
    ELSE IF materialized_slice_count(r, now) > MAX_MATERIALIZED_SLICES THEN "too_many_slices"
    ELSE "none"

-----------------------------------------------------------------------------
VARIABLES
    pc,         \* "idle", "allocating", "done" or an error
    req,        \* the request
    now,        \* the instant the plan is built at
    remaining,  \* remaining_quantity of the loop
    slices      \* the slices so far: [at, lots]

vars == <<pc, req, now, remaining, slices>>

Count == materialized_slice_count(req, now)

\* build_twap_plan, up to the loop.
Build ==
    /\ pc = "idle"
    /\ \E r \in Requests, t \in Instants :
           /\ req' = r /\ now' = t
           /\ pc' = IF refusal(r, t) = "none" THEN "allocating" ELSE refusal(r, t)
           /\ remaining' = r.quantity
    /\ slices' = <<>>

\* -(-left // n)
ceil_share(left, n) == (left + n - 1) \div n

\* One iteration of the loop of _allocate_slices; index = Len(slices).
Allocate ==
    /\ pc = "allocating" /\ Len(slices) < Count
    /\ LET lots == ceil_share(remaining, Count - Len(slices))
       IN  /\ slices' = Append(slices,
                 [at |-> plan_start(req, now) + Len(slices) * req.interval * Second, lots |-> lots])
           /\ remaining' = remaining - lots
    /\ UNCHANGED <<pc, req, now>>

Finish ==
    /\ pc = "allocating" /\ Len(slices) = Count
    /\ pc' = "done"
    /\ UNCHANGED <<req, now, remaining, slices>>

NoRequest == [quantity |-> 0, interval |-> 0, start |-> NoTime, end |-> 0]

\* The plan, or the error, goes back to the caller.
Return ==
    /\ pc \in TwapErrors \cup {"done"}
    /\ pc' = "idle"
    /\ req' = NoRequest /\ now' = 0 /\ remaining' = 0 /\ slices' = <<>>

Init ==
    /\ pc = "idle"
    /\ req = NoRequest /\ now = 0 /\ remaining = 0 /\ slices = <<>>

Next == Build \/ Allocate \/ Finish \/ Return

Spec == Init /\ [][Next]_vars

-----------------------------------------------------------------------------
\* All the lots of the request are in the slices, no slice is empty, earlier
\* slices are never smaller than later ones, and no two differ by more than one
\* lot: ceiling shares of what remains never run out early.
LotsAreSpread ==
    pc = "done" =>
        /\ FoldSeq(LAMBDA s, sum : s.lots + sum, 0, slices) = req.quantity
        /\ \A i \in 1..Len(slices) :
               /\ slices[i].lots >= 1
               /\ \A j \in i..Len(slices) : slices[i].lots - slices[j].lots \in {0, 1}

\* The slices are exactly the earliest instants of the grid start, start +
\* interval, ... that the window holds, one per lot at most; all of them lie in
\* the regular session of the plan's trading date, at or before the end asked
\* for, so that the scheduler can still send each of them before the close.
SlicesFillTheWindow ==
    pc = "done" =>
        LET day == DayOf(MinuteOf(slices[1].at))
            grid == {k \in 0..req.quantity :
                        slices[1].at + k * req.interval * Second <= At(day, req.end)}
        IN  /\ Len(slices) = IF Cardinality(grid) <= req.quantity
                             THEN Cardinality(grid) ELSE req.quantity
            /\ \A i \in 1..Len(slices) :
                   /\ slices[i].at <= At(day, req.end)
                   /\ is_within_regular_session(MinuteOf(slices[i].at))

\* The date and the initial status of a plan are the ones the session service
\* gives to every other day intent created at the same instant, and a plan that
\* names no start has no slice in the past.
PlanFollowsTheClock ==
    pc = "done" =>
        /\ DayOf(MinuteOf(slices[1].at)) = get_day_intent_trading_date(MinuteOf(now))
        /\ (Phase(now) = REGULAR_SESSION) = (get_initial_day_intent_status(MinuteOf(now)) = "active")
        /\ req.start = NoTime => slices[1].at >= now

=============================================================================
