----------------------------- MODULE MCProgress -----------------------------
(***************************************************************************)
(* What must happen in the end: due TWAP slices are handled, a process     *)
(* that stops serves again, a claimed Telegram confirmation is resolved.   *)
(* `part` is chosen in the initial state and only that instance moves.     *)
(***************************************************************************)
EXTENDS Naturals, Sequences, FiniteSets

CONSTANT None

VARIABLES
    part, status, tx, faults,                               \* of several
    now, halt, subscribed, zero, active, plan, slice, turn, \* Twap
    phase, seed, subs, cut, sym,                            \* Subscriptions
    row, shown, presses, made                               \* TelegramDraft

twap == <<now, halt, subscribed, zero, active, plan, slice, turn>>
slots == <<phase, seed, subs, cut, sym>>
draft == <<row, shown, presses, made>>
all == <<part, status, tx, faults, twap, slots, draft>>

-----------------------------------------------------------------------------
\* A plan of two slices on a Monday, in seconds: at 13:24:50 and 13:25, observed
\* every ten seconds and at the close; a transaction may fail, prices may be zero.
Clock(h, m, s) == h * 3600 + m * 60 + s
Twap ==
    INSTANCE Twap WITH
        Ids <- {"i1"}, Owners <- {"alice"}, Api <- {"p1"}, Workers <- {"scheduler"},
        Offers <- {[owner |-> "alice", side |-> "long", quantity |-> 2, date |-> 0,
                    at |-> <<Clock(13, 24, 50), Clock(13, 25, 0)>>]},
        Instants <- {Clock(13, 24, 50) + 10 * k : k \in 0..3} \cup {Clock(13, 30, 0)},
        BATCH <- 2, PER_USER <- 2, Snapshots <- {{}, {"ask", "last"}},
        Events <- {"halt", "zero"}, MAX_FAULTS <- 1

\* A quota that holds every symbol, so that no startup is refused for it.
Slots ==
    INSTANCE Subscriptions WITH
        Procs <- {"p1"}, Plans <- {"t1"}, Intents <- {"c1", "c2"}, Symbols <- {"A", "B"},
        Allowed <- {"A", "B"}, MAX_SUBSCRIPTIONS <- 2, MAX_FAULTS <- 2

\* One interaction and two webhooks, without failures.
Draft ==
    INSTANCE TelegramDraft WITH
        Procs <- {"p1", "p2"}, Drafts <- {"d1"}, Capabilities <- {"market_buy"}, Symbols <- {"A"},
        Quantities <- {1}, Prices <- {5}, MAX_MESSAGES <- 1, MAX_FAULTS <- 0, COMMIT_FAILS <- FALSE

ASSUME Twap!TwapAssumption /\ Slots!SubscriptionAssumption /\ Draft!TelegramAssumption

-----------------------------------------------------------------------------
TwapOff ==
    /\ now = 0 /\ halt = FALSE /\ subscribed = FALSE /\ zero = FALSE /\ active = {}
    /\ plan = None /\ slice = None /\ turn = None
SlotsOff == phase = "down" /\ seed = {} /\ subs = {} /\ cut = {} /\ sym = None
DraftOff == row = None /\ shown = <<>> /\ presses = {} /\ made = None

OnlyTwap == part = "twap" /\ UNCHANGED <<part, slots, draft>>
OnlySlots == part = "slots" /\ UNCHANGED <<part, twap, draft>>
OnlyDraft == part = "draft" /\ UNCHANGED <<part, status, twap, slots>>

ProgressInit ==
    \/ part = "twap" /\ Twap!Init /\ SlotsOff /\ DraftOff
    \/ part = "slots" /\ Slots!Init /\ TwapOff /\ DraftOff
    \/ part = "draft" /\ Draft!Init /\ status = None /\ TwapOff /\ SlotsOff

ProgressNext ==
    \/ OnlyTwap /\ Twap!Next
    \/ OnlySlots /\ Slots!Next
    \/ OnlyDraft /\ Draft!Next

\* run_forever keeps taking steps and no transaction stays open for ever; the
\* container runtime restarts a stopped process and a startup runs on; a webhook
\* that runs goes on, and the database grants a row lock in the order of the
\* requests for it.  These are the fairness conditions of the modules.
ProgressSpec ==
    /\ ProgressInit /\ [][ProgressNext]_all
    /\ WF_all(OnlyTwap /\ Twap!WorkerStep("scheduler"))
    /\ WF_all(OnlyTwap /\ Twap!RequestStep("p1"))
    /\ WF_all(OnlySlots /\ Slots!Lifespan)
    /\ \A p \in {"p1", "p2"} :
           /\ SF_all(OnlyDraft /\ Draft!Confirmation(p))
           /\ WF_all(OnlyDraft /\ Draft!CommitMessage(p))
           /\ WF_all(OnlyDraft /\ Draft!NoInteraction(p))

-----------------------------------------------------------------------------
\* While the session runs and nothing is halted, a slice that is due is sent or
\* closed if the feed does not report zeros for ever, and a follow-up that is due is
\* made in any case, although a transaction fails.
DueIsHandled ==
    \A k \in 1..2 :
        /\ <>[](part = "twap" => ~ zero) =>
               (part = "twap" /\ Twap!SliceIsDue("i1", k))
                   ~> (part = "twap" => ~ Twap!SliceIsDue("i1", k) \/ Twap!Suspended)
        /\ (part = "twap" /\ Twap!FollowupIsDue("i1", k))
               ~> (part = "twap" => ~ Twap!FollowupIsDue("i1", k) \/ Twap!Suspended)

\* A process that goes down, or whose startup fails at the broker, serves again
\* (lifespan), whatever is open by then.
RestartServes == (part = "slots" /\ phase # "serving") ~> (part = "slots" => phase = "serving")

\* A claimed confirmation ends confirmed while other webhooks lock the same row.
ConfirmingIsResolved ==
    (part = "draft" /\ Draft!Is("d1", "confirming")) ~> (part = "draft" => Draft!Is("d1", "confirmed"))

=============================================================================
