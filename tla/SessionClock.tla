---------------------------- MODULE SessionClock ----------------------------
(***************************************************************************)
(* The session rules under a running clock: what the rules together        *)
(* promise to an intent created, activated or expired at some instant.     *)
(***************************************************************************)
EXTENDS TradingSession

CONSTANT HORIZON    \* bound of the model: the last minute observed

ASSUME HorizonAssumption == HORIZON \in Nat

VARIABLE now

Init == now = 0

Tick == now < HORIZON /\ now' = now + 1

Next == Tick

Spec == Init /\ [][Next]_now

\* An intent created now is for a trading day whose session has not ended, the
\* lifecycle does not expire it at once, and it starts active exactly when that
\* session is running; a scheduled one has its whole session before it
\* (get_day_intent_trading_date, get_initial_day_intent_status and
\* get_expirable_day_intent_cutoff agree at the boundaries and over weekends).
NewIntentIsLive == LiveAt(now)

\* The expiry cutoff never moves back, so what the lifecycle expired once would
\* be expired by every later run (get_expirable_day_intent_cutoff).
ExpiryIsMonotone ==
    [][get_expirable_day_intent_cutoff(now) <= get_expirable_day_intent_cutoff(now')]_now

=============================================================================
