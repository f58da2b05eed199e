--------------------------- MODULE TradingSession ---------------------------
(***************************************************************************)
(* The Taiwan regular session rules of domain/trading_session.py.          *)
(*                                                                         *)
(* An instant is a natural number of minutes in Taipei time, counted from  *)
(* the midnight that starts a Monday; a date is a number of days from that *)
(* same Monday.  The service never looks below the minute: its two         *)
(* boundaries, 09:00 and 13:30, are whole minutes.                         *)
(***************************************************************************)
EXTENDS Integers

MinutesPerDay == 1440

\* _SESSION_START = time(9, 0) and _SESSION_END = time(13, 30); the session is
\* the half-open interval between them.
SESSION_START == 540
SESSION_END == 810

DayOf(t) == t \div MinutesPerDay
TimeOf(t) == t % MinutesPerDay

PRE_MARKET == "pre_market"
REGULAR_SESSION == "regular_session"
POST_MARKET == "post_market"

is_trading_day(d) == d % 7 < 5

is_within_regular_session(t) ==
    /\ is_trading_day(DayOf(t))
    /\ SESSION_START <= TimeOf(t)
    /\ TimeOf(t) < SESSION_END

get_trading_day_phase(t) ==
    IF ~ is_trading_day(DayOf(t)) THEN POST_MARKET
    ELSE IF TimeOf(t) < SESSION_START THEN PRE_MARKET
    ELSE IF TimeOf(t) < SESSION_END THEN REGULAR_SESSION
    ELSE POST_MARKET

\* _next_weekday: the first trading day strictly after d.  A weekend has two
\* days, so the loop looks at no more than three candidates.
next_trading_day(d) ==
    CHOOSE e \in (d + 1)..(d + 3) :
        /\ is_trading_day(e)
        /\ \A f \in (d + 1)..(e - 1) : ~ is_trading_day(f)

\* Mutant: 13:30 still counts as today.
TradingDateAtClose(t) ==
    IF is_trading_day(DayOf(t)) /\ TimeOf(t) <= SESSION_END
    THEN DayOf(t)
    ELSE next_trading_day(DayOf(t))

get_day_intent_trading_date(t) ==
    IF is_trading_day(DayOf(t)) /\ TimeOf(t) < SESSION_END
    THEN DayOf(t)
    ELSE next_trading_day(DayOf(t))

get_initial_day_intent_status(t) ==
    IF is_within_regular_session(t) THEN "active" ELSE "scheduled"

\* Mutant: today's intents expire whenever the session is not running.
CutoffOutsideSession(t) ==
    IF get_trading_day_phase(t) # REGULAR_SESSION THEN DayOf(t) ELSE DayOf(t) - 1

get_expirable_day_intent_cutoff(t) ==
    IF get_trading_day_phase(t) = POST_MARKET THEN DayOf(t) ELSE DayOf(t) - 1

\* What the rules promise to an intent created at instant t (get_day_intent_trading_date,
\* get_initial_day_intent_status, get_expirable_day_intent_cutoff).
LiveAt(t) ==
    LET date == get_day_intent_trading_date(t)
        opens == date * MinutesPerDay + SESSION_START
        closes == date * MinutesPerDay + SESSION_END
    IN  /\ is_trading_day(date)
        /\ t < closes
        /\ get_expirable_day_intent_cutoff(t) < date
        /\ get_initial_day_intent_status(t) =
               IF opens <= t THEN "active" ELSE "scheduled"

=============================================================================
