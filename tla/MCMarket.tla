------------------------------ MODULE MCMarket ------------------------------
(***************************************************************************)
(* Quotes and what they drive: one symbol's quotes on their way to an      *)
(* intent (QuoteFeed), the subscriptions of many symbols (Subscriptions),  *)
(* the legacy track (LegacyTrack) and TWAP plans (Twap).  `part` is chosen *)
(* in the initial state and only that instance moves; instances use the    *)
(* same variable for what has the same name in their modules.              *)
(***************************************************************************)
EXTENDS QuoteEvaluation, FiniteSets

CONSTANT None

VARIABLES
    part,
    now, subscribed, halt, status, tx, faults,                \* of several
    started, streams, snap, call, intent, fired, peak,        \* QuoteFeed
    phase, seed, subs, cut, sym,                              \* Subscriptions
    row, base, event, notes, late,                            \* LegacyTrack
    zero, active, plan, slice, turn                           \* Twap

feed == <<started, streams, snap, call, intent, fired, peak>>
slots == <<phase, seed, subs, cut, sym>>
legacy == <<row, base, event, notes, late>>
twap == <<zero, active, plan, slice, turn>>
all == <<part, now, subscribed, halt, status, tx, faults, feed, slots, legacy, twap>>

-----------------------------------------------------------------------------
Offer(strategy, target, mode, value) ==
    [strategy |-> strategy, type |-> "stock", target |-> target, mode |-> mode, value |-> value,
     baseline |-> NoPrice, dynamic |-> NoPrice, status |-> "absent"]

\* The last seconds of a session.
LastSeconds == {48580, 48590, 48591, 48600}
BothChannels == {"tick", "bidask"}

\* Alerts and orders at 100, over quotes around it, missing, zero and crossed.
Alerts ==
    INSTANCE QuoteFeed WITH
        Channels <- BothChannels, Clock <- LastSeconds, Serial <- TRUE, Churn <- FALSE,
        Offers <- {Offer(s, 100 * Dollar, "none", 0) : s \in {"buy_price_alert", "limit_sell_order"}}
                      \cup {Offer(s, NoPrice, "none", 0) : s \in {"market_buy_order", "market_sell_order"}},
        Lasts <- {0, 99 * Dollar, 101 * Dollar},
        Books <- {<<99 * Dollar, 100 * Dollar>>, <<101 * Dollar, 100 * Dollar>>, <<NoPrice, 99 * Dollar>>,
                  <<100 * Dollar, NoPrice>>, <<NoPrice, NoPrice>>}

\* The same, with fewer quotes, while the symbol is unsubscribed and the provider
\* shut down and started again.
Churned ==
    INSTANCE QuoteFeed WITH
        Channels <- BothChannels, Clock <- LastSeconds, Serial <- TRUE, Churn <- TRUE,
        Offers <- {Offer("buy_price_alert", 100 * Dollar, "none", 0),
                   Offer("market_sell_order", NoPrice, "none", 0)},
        Lasts <- {99 * Dollar},
        Books <- {<<99 * Dollar, 101 * Dollar>>, <<100 * Dollar, NoPrice>>}

\* A stop five dollars, or five percent, under the highest price.
Stops ==
    {Offer("trailing_stop_alert", NoPrice, "fixed_amount", 5 * Dollar),
     Offer("trailing_stop_alert", NoPrice, "percentage", 5)}
StopLasts == {100 * Dollar, 105 * Dollar, 110 * Dollar}
StopBooks == {<<100 * Dollar, 101 * Dollar>>, <<105 * Dollar, 106 * Dollar>>}

\* The dispatches of the two callback threads overlap, and do not.
Trail ==
    INSTANCE QuoteFeed WITH
        Channels <- BothChannels, Clock <- {48580, 48590}, Serial <- FALSE, Churn <- FALSE,
        Offers <- Stops, Lasts <- StopLasts, Books <- StopBooks
SerialTrail ==
    INSTANCE QuoteFeed WITH
        Channels <- BothChannels, Clock <- LastSeconds, Serial <- TRUE, Churn <- FALSE,
        Offers <- Stops, Lasts <- StopLasts, Books <- StopBooks

\* Both tables, three allowed symbols and a fourth, and a quota of two.
Slots ==
    INSTANCE Subscriptions WITH
        Procs <- {"p1", "p2"}, Plans <- {"t1"}, Intents <- {"c1", "c2"},
        Symbols <- {"A", "B", "C", "D"}, Allowed <- {"A", "B", "C"},
        MAX_SUBSCRIPTIONS <- 2, MAX_FAULTS <- 2

\* Friday 09:00 and 13:30, and the following Monday 09:00, in minutes.
Weekend == {6300, 6570, 10620}

\* Two dispatches over two intents; and the dev route beside the dispatcher.
Legacy ==
    INSTANCE LegacyTrack WITH
        Procs <- {"p1", "p2"}, Intents <- {"i1", "i2"}, Instants <- Weekend, IntentLimit <- 2,
        Strategies <- {"limit_sell_order", "market_order"}, DevRoutes <- FALSE
Dev ==
    INSTANCE LegacyTrack WITH
        Procs <- {"p1", "p2"}, Intents <- {"i1"}, Instants <- Weekend, IntentLimit <- 2,
        Strategies <- {"trailing_stop_alert", "limit_buy_order", "buy_price_alert"}, DevRoutes <- TRUE

\* Plans of two slices on a Monday (day 0), in seconds: at 13:24:50 and 13:25.
Clock(h, m, s) == h * 3600 + m * 60 + s
PlanOf(owner, side, quantity) ==
    [owner |-> owner, side |-> side, quantity |-> quantity, date |-> 0,
     at |-> <<Clock(13, 24, 50), Clock(13, 25, 0)>>]
Prices == {{}, {"bid"}, {"ask", "last"}}

\* Two confirmations at once; and the worker run by scheduler and dev requests.
Confirm ==
    INSTANCE Twap WITH
        Ids <- {"i1", "i2", "i3"}, Owners <- {"alice", "bob"}, Api <- {"p1", "p2"}, Workers <- {},
        Offers <- {PlanOf("alice", "long", 2), PlanOf("alice", "short", 3), PlanOf("bob", "long", 2)},
        Instants <- {Clock(8, 0, 0), Clock(13, 24, 50), Clock(13, 25, 0)},
        BATCH <- 2, PER_USER <- 2, Snapshots <- Prices, Events <- {}, MAX_FAULTS <- 0
Worker ==
    INSTANCE Twap WITH
        Ids <- {"i1"}, Owners <- {"alice"}, Api <- {"p1"}, Workers <- {"scheduler", "dev"},
        Offers <- {PlanOf("alice", "long", 2)},
        Instants <- {Clock(13, 24, 50), Clock(13, 25, 0), Clock(13, 25, 10), Clock(13, 30, 0)},
        BATCH <- 1, PER_USER <- 2, Snapshots <- {{}, {"ask", "last"}},
        Events <- {"cancel", "disable", "quote", "restart", "unsubscribe"}, MAX_FAULTS <- 1

ASSUME
    /\ Alerts!FeedAssumption /\ Churned!FeedAssumption /\ Trail!FeedAssumption /\ SerialTrail!FeedAssumption
    /\ Slots!SubscriptionAssumption
    /\ Legacy!LegacyAssumption /\ Dev!LegacyAssumption
    /\ Confirm!TwapAssumption /\ Worker!TwapAssumption

-----------------------------------------------------------------------------
FeedOff ==
    /\ started = FALSE /\ streams = {} /\ snap = None /\ call = None
    /\ intent = None /\ fired = None /\ peak = None
SlotsOff == phase = "down" /\ seed = {} /\ subs = {} /\ cut = {} /\ sym = None
LegacyOff == row = None /\ base = None /\ event = None /\ notes = None /\ late = {}
TwapOff == zero = FALSE /\ active = {} /\ plan = None /\ slice = None /\ turn = None

MarketInit ==
    \/ /\ \/ part = "alerts" /\ Alerts!Init
          \/ part = "churn" /\ Churned!Init
          \/ part = "trail" /\ Trail!Init
          \/ part = "serial trail" /\ SerialTrail!Init
       /\ halt = FALSE /\ status = None /\ tx = None /\ faults = 0
       /\ SlotsOff /\ LegacyOff /\ TwapOff
    \/ /\ part = "slots" /\ Slots!Init
       /\ now = 0 /\ subscribed = FALSE /\ halt = FALSE
       /\ FeedOff /\ LegacyOff /\ TwapOff
    \/ /\ \/ part = "legacy" /\ Legacy!Init
          \/ part = "dev" /\ Dev!Init
       /\ subscribed = FALSE /\ faults = 0
       /\ FeedOff /\ SlotsOff /\ TwapOff
    \/ /\ \/ part = "confirm" /\ Confirm!Init
          \/ part = "worker" /\ Worker!Init
       /\ FeedOff /\ SlotsOff /\ LegacyOff

MarketNext ==
    /\ UNCHANGED part
    /\ \/ /\ \/ part = "alerts" /\ Alerts!Next
             \/ part = "churn" /\ Churned!Next
             \/ part = "trail" /\ Trail!Next
             \/ part = "serial trail" /\ SerialTrail!Next
          /\ UNCHANGED <<halt, status, tx, faults, slots, legacy, twap>>
       \/ /\ part = "slots" /\ Slots!Next
          /\ UNCHANGED <<now, subscribed, halt, feed, legacy, twap>>
       \/ /\ \/ part = "legacy" /\ Legacy!Next
             \/ part = "dev" /\ Dev!Next
          /\ UNCHANGED <<subscribed, faults, feed, slots, twap>>
       \/ /\ \/ part = "confirm" /\ Confirm!Next
             \/ part = "worker" /\ Worker!Next
          /\ UNCHANGED <<feed, slots, legacy>>

MarketSpec == MarketInit /\ [][MarketNext]_all

-----------------------------------------------------------------------------
\* Whatever channel its quote came by, a trigger follows the documented rule of
\* its strategy: the right side of the book, the last price only in its place,
\* at most ten seconds old, inside the session, positive and not crossed.
FiredByTheRule ==
    /\ part = "alerts" => Alerts!FiredByTheRule
    /\ part = "churn" => Churned!FiredByTheRule

\* Baseline and stop of a trailing alert belong to each other, in the row and in the
\* trigger, whatever dispatches interleaved; and when dispatches do not overlap, the
\* baseline is the highest reference price evaluated for it.
StopTrailsTheHighest ==
    /\ part = "trail" => Trail!StopMatchesBaseline
    /\ part = "serial trail" => SerialTrail!StopMatchesBaseline /\ SerialTrail!BaselineIsHighest

\* Every open intent of either table is streamed while the process serves, across
\* failures and restarts, unless a cancellation unsubscribed its symbol while it was
\* needed: reconcile_on_create and the startup loop subscribe it, what is open fits
\* the quota, and what counts as subscribed is streamed on both channels although
\* ShioajiClient.subscribe may fail between them.
OpenIsStreamed ==
    /\ part = "slots" => Slots!OpenIsStreamed /\ Slots!SeedIsAdmitted
    /\ part = "churn" => Churned!SubscribedMeansStreamed

\* A legacy trigger has event and notification together, once and of the type its
\* strategy calls for, whatever part of a batch was rolled back; and it comes after its
\* trading date only if the creation was committed after it, however long a thread
\* waits between clock, lifecycle, list and write.
LegacyTriggerIsSound ==
    /\ part = "legacy" => Legacy!LegacyTriggerIsSound
    /\ part = "dev" => Dev!LegacyTriggerIsSound

\* A legacy intent opens and closes once, and its only notification comes with the
\* step that closes it, with the dev route evaluating beside the dispatcher.
Contract ==
    INSTANCE IntentContract WITH
        Intents <- {"i1"},
        life <- IF part = "dev" THEN Dev!Life ELSE [i \in {"i1"} |-> "absent"],
        told <- IF part = "dev" THEN Dev!Told ELSE [i \in {"i1"} |-> 0]
KeepsLegacyContract == Contract!ContractSpec

\* An owner has at most one open plan per side and day, whatever confirmations
\* create_twap runs at the same time.
OnePlanPerSide == part = "confirm" => Confirm!OnePlanPerSide

\* A plan is open exactly as long as it has slices to send: workers that share them
\* never leave it open with none (complete_intent_if_all_slices_done), and a plan
\* that is completed, cancelled or expired has none left.
OpenMeansWorkLeft == part = "worker" => Worker!OpenMeansWorkLeft /\ Worker!ClosedHasNoPending

\* A slice has one notification exactly when it counts as notified, at most one
\* follow-up after at most three attempts, and waits for one only while both are
\* still possible, whatever workers overlap or fail.
NotifiedOnce == part = "worker" => Worker!NotifiedOnce

\* The worker sends a slice only while its plan is open.
NoSliceAfterClose == [][part = "worker" => Worker!SentWhileOpen]_all

=============================================================================
