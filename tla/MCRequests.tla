----------------------------- MODULE MCRequests -----------------------------
(***************************************************************************)
(* Requests that overlap: the kill switch and its cache, idempotency keys, *)
(* Telegram drafts, and the lists of intents and notifications that a      *)
(* client walks through.  `part` is chosen in the initial state and only   *)
(* that instance moves; instances use the same variable for what has the   *)
(* same name in their modules.                                             *)
(***************************************************************************)
EXTENDS Naturals, Sequences, FiniteSets, TLC

CONSTANTS
    Procs,   \* requests at the same time
    None

VARIABLES
    part,
    tx, faults, row, clock, walk,                                              \* of several
    mono, flag, cached, until, lock, at, value, admin, answer, seen, flips,    \* KillSwitch
    now, rec, open, effects, replies,                                          \* Idempotency
    shown, presses, made,                                                      \* TelegramDraft
    today, robot, caller,                                                      \* Pages
    inbox, answered                                                            \* Inbox

switch == <<mono, flag, cached, until, lock, at, value, admin, answer, seen, flips>>
idem == <<now, rec, open, effects, replies>>
draft == <<shown, presses, made>>
pages == <<today, robot, caller>>
notices == <<inbox, answered>>
all == <<part, tx, faults, row, clock, walk, switch, idem, draft, pages, notices>>

\* The requests are interchangeable.
Symmetry == Permutations(Procs)

-----------------------------------------------------------------------------
\* Two admins toggle; and one, with the flag also flipped in the database.
Toggle ==
    INSTANCE KillSwitch WITH
        Readers <- {"r1", "r2"}, Admins <- {"a1", "a2"}, TTL <- 2, MAX_TIME <- 5, MAX_FLIPS <- 3,
        DirectFlips <- FALSE
Stale ==
    INSTANCE KillSwitch WITH
        Readers <- {"r1", "r2"}, Admins <- {"a1"}, TTL <- 2, MAX_TIME <- 5, MAX_FLIPS <- 3,
        DirectFlips <- TRUE

\* Two requests within the TTL; and one after the other across it.
Race ==
    INSTANCE Idempotency WITH
        Keys <- {"k1", "k2"}, Payloads <- {"q1", "q2"}, RECORD_TTL <- 2, MAX_TIME <- 1,
        MAX_EFFECTS <- 2, MAX_FAULTS <- 1
Retry ==
    INSTANCE Idempotency WITH
        Procs <- {"p"}, Keys <- {"k1"}, Payloads <- {"q1", "q2"}, RECORD_TTL <- 2, MAX_TIME <- 4,
        MAX_EFFECTS <- 3, MAX_FAULTS <- 0

\* One interaction under failures; and two merged from clarifications.
Press ==
    INSTANCE TelegramDraft WITH
        Drafts <- {"d1"}, Capabilities <- {"market_buy"}, Symbols <- {"A"}, Quantities <- {1, 2},
        Prices <- {5}, MAX_MESSAGES <- 2, MAX_FAULTS <- 1, COMMIT_FAILS <- FALSE
Merge ==
    INSTANCE TelegramDraft WITH
        Drafts <- {"d1", "d2"}, Capabilities <- {"limit_buy", "market_buy"}, Symbols <- {"A"},
        Quantities <- {1}, Prices <- {5}, MAX_MESSAGES <- 1, MAX_FAULTS <- 0, COMMIT_FAILS <- FALSE

\* The list in the order of trading day and creation, the list of closed intents
\* in the order of their last change, and the unread notifications.
Listed ==
    INSTANCE Pages WITH
        MAX_INTENTS <- 3, Trailing <- {}, Leaving <- {}, Filter <- {"scheduled", "active", "expired"},
        Closings <- {"triggered"}, PAGE_SIZE <- 1, LAG <- 1, MAX_CLOCK <- 1
Closed ==
    INSTANCE Pages WITH
        MAX_INTENTS <- 3, Trailing <- {1}, Leaving <- {2}, Filter <- {"triggered", "expired", "cancelled"},
        Closings <- {"triggered"}, PAGE_SIZE <- 1, LAG <- 1, MAX_CLOCK <- 1
Unread ==
    INSTANCE Inbox WITH
        MAX_NOTIFICATIONS <- 3, UNREAD_ONLY <- TRUE, PAGE_SIZE <- 1, LAG <- 1, MAX_CLOCK <- 1

ASSUME
    /\ Toggle!KillSwitchAssumption /\ Stale!KillSwitchAssumption
    /\ Race!IdempotencyAssumption /\ Retry!IdempotencyAssumption
    /\ Press!TelegramAssumption /\ Merge!TelegramAssumption
    /\ Listed!PagesAssumption /\ Closed!PagesAssumption /\ Unread!InboxAssumption

-----------------------------------------------------------------------------
SwitchOff ==
    /\ mono = 0 /\ flag = FALSE /\ cached = None /\ until = 0 /\ lock = None /\ at = 0
    /\ value = None /\ admin = None /\ answer = None /\ seen = None /\ flips = 0
IdemOff == now = 0 /\ rec = None /\ open = {} /\ effects = {} /\ replies = {}
DraftOff == shown = <<>> /\ presses = {} /\ made = None
PagesOff == today = 0 /\ robot = None /\ caller = None
NoticesOff == inbox = None /\ answered = None

RequestsInit ==
    \/ /\ \/ part = "toggle" /\ Toggle!Init
          \/ part = "stale" /\ Stale!Init
       /\ tx = None /\ faults = 0 /\ row = None /\ clock = 0 /\ walk = None
       /\ IdemOff /\ DraftOff /\ PagesOff /\ NoticesOff
    \/ /\ \/ part = "race" /\ Race!Init
          \/ part = "retry" /\ Retry!Init
       /\ row = None /\ clock = 0 /\ walk = None
       /\ SwitchOff /\ DraftOff /\ PagesOff /\ NoticesOff
    \/ /\ \/ part = "press" /\ Press!Init
          \/ part = "merge" /\ Merge!Init
       /\ clock = 0 /\ walk = None
       /\ SwitchOff /\ IdemOff /\ PagesOff /\ NoticesOff
    \/ /\ \/ part = "listed" /\ Listed!Init
          \/ part = "closed" /\ Closed!Init
       /\ tx = None /\ faults = 0
       /\ SwitchOff /\ IdemOff /\ DraftOff /\ NoticesOff
    \/ /\ part = "unread" /\ Unread!Init
       /\ faults = 0 /\ row = None
       /\ SwitchOff /\ IdemOff /\ DraftOff /\ PagesOff

RequestsNext ==
    /\ UNCHANGED part
    /\ \/ /\ \/ part = "toggle" /\ Toggle!Next
             \/ part = "stale" /\ Stale!Next
          /\ UNCHANGED <<tx, faults, row, clock, walk, idem, draft, pages, notices>>
       \/ /\ \/ part = "race" /\ Race!Next
             \/ part = "retry" /\ Retry!Next
          /\ UNCHANGED <<row, clock, walk, switch, draft, pages, notices>>
       \/ /\ \/ part = "press" /\ Press!Next
             \/ part = "merge" /\ Merge!Next
          /\ UNCHANGED <<clock, walk, switch, idem, pages, notices>>
       \/ /\ \/ part = "listed" /\ Listed!Next
             \/ part = "closed" /\ Closed!Next
          /\ UNCHANGED <<tx, faults, switch, idem, draft, notices>>
       \/ /\ part = "unread" /\ Unread!Next
          /\ UNCHANGED <<faults, row, switch, idem, draft, pages>>

RequestsSpec == RequestsInit /\ [][RequestsNext]_all

-----------------------------------------------------------------------------
\* When every toggle has returned, the cache is empty or holds the flag, and so does
\* a read under way, although it may have read the flag before the flip; and a flip
\* behind the toggle is answered within the TTL.
HaltIsCurrent ==
    /\ part = "toggle" => Toggle!HaltIsCurrent
    /\ part = "stale" => Stale!HaltIsCurrent

\* A live key has one answer, which the loser of a race replays too, and a client
\* that retries its request with the key runs it once.
OneAnswerPerKey ==
    /\ part = "race" => Race!OneAnswerPerKey
    /\ part = "retry" => Retry!OneAnswerPerKey

\* A confirmation creates at most one intent, the one the pressed message showed,
\* through double presses, late deliveries, failed commands and rollbacks; and a
\* draft with a confirm button holds every value the creation needs.
ConfirmationIsExact ==
    /\ part = "press" => Press!OneIntentPerDraft /\ Press!CreatedAsShown
    /\ part = "merge" => Merge!DraftIsConfirmable

\* A walk to the last page showed every row that was listed from its first page on,
\* and no intent twice, whatever was created, closed or read meanwhile, the row the
\* cursor names included.  Only the list of closed intents has a proviso: a write to
\* an intent that is closed already moves it, and a walk whose cursor it is goes astray.
WalkIsComplete ==
    /\ part = "listed" => Listed!NothingSkipped /\ Listed!NothingRepeated
    /\ part = "closed" => Closed!NothingSkipped /\ Closed!NothingRepeated
    /\ part = "unread" => Unread!NothingSkipped

\* All requests that mark a notification as read are answered with one time, which
\* mark_read never replaces.
ReadersAgree == part = "unread" => Unread!ReadersAgree

=============================================================================
