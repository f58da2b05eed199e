----------------------------- MODULE KillSwitch ------------------------------
(***************************************************************************)
(* The global trigger halt: a flag in system_flags, flipped by the admin    *)
(* toggle (or straight in the database), and the process-wide cache through *)
(* which dispatchers, creations and the TWAP worker read it.                *)
(***************************************************************************)
EXTENDS Naturals

CONSTANTS
    Readers,    \* threads that ask is_halted
    Admins,     \* threads that toggle the flag
    TTL,        \* ttl_seconds of the cache
    MAX_TIME,   \* bound on the monotonic clock
    MAX_FLIPS,  \* bound on the flips of the flag
    DirectFlips,\* the flag is also flipped behind the toggle endpoint
    None

\* What an instance has to respect.
KillSwitchAssumption ==
    /\ TTL \in Nat \ {0} /\ MAX_TIME \in Nat /\ MAX_FLIPS \in Nat
    /\ DirectFlips \in BOOLEAN /\ Readers \cap Admins = {} /\ None \notin Readers /\ None \notin BOOLEAN

VARIABLES
    mono,    \* monotonic clock
    flag,    \* system_flags.enabled, committed
    cached, until, \* _cached_value and _cached_until
    lock,    \* reader that holds _lock
    at,      \* clock read by the reader that holds _lock
    value,   \* flag read by the reader that holds _lock
    admin,   \* "idle", or "committed" until the toggle has invalidated
    answer,  \* last answer of is_halted: value and instant
    seen,    \* last instant at which the flag had each value
    flips

vars == <<mono, flag, cached, until, lock, at, value, admin, answer, seen, flips>>

\* SystemFlagRepository.upsert, committed.
Upsert(v) ==
    /\ flips < MAX_FLIPS
    /\ flag' = v
    /\ seen' = [seen EXCEPT ![v] = mono]
    /\ flips' = flips + 1
    /\ UNCHANGED <<mono, cached, until, lock, at, value, answer>>

\* SetKillSwitchCommand.execute: the flip is durable first ...
CommitToggle(a, v) ==
    /\ admin[a] = "idle"
    /\ Upsert(v)
    /\ admin' = [admin EXCEPT ![a] = "committed"]

\* Mutant: the cache is cleared without the lock.
InvalidateWithoutLock(a) ==
    /\ admin[a] = "committed"
    /\ cached' = None /\ until' = 0
    /\ admin' = [admin EXCEPT ![a] = "idle"]
    /\ UNCHANGED <<mono, flag, lock, at, value, answer, seen, flips>>

\* ... then the cache is dropped.
invalidate(a) ==
    /\ admin[a] = "committed"
    /\ lock = None
    /\ cached' = None /\ until' = 0
    /\ admin' = [admin EXCEPT ![a] = "idle"]
    /\ UNCHANGED <<mono, flag, lock, at, value, answer, seen, flips>>

FlipInDatabase(v) == DirectFlips /\ Upsert(v) /\ UNCHANGED admin

-----------------------------------------------------------------------------
Fresh == cached # None /\ mono < until

Answer(v) == answer' = [value |-> v, at |-> mono]

\* is_halted takes the lock and answers from a fresh cache, ...
AnswerFromCache(r) ==
    /\ lock = None
    /\ Fresh
    /\ Answer(cached)
    /\ UNCHANGED <<mono, flag, cached, until, lock, at, value, admin, seen, flips>>

\* ... or keeps it while it reads the flag, ...
BeginRead(r) ==
    /\ lock = None
    /\ ~ Fresh
    /\ lock' = r /\ at' = mono
    /\ UNCHANGED <<mono, flag, cached, until, value, admin, answer, seen, flips>>

is_enabled(r) ==
    /\ lock = r /\ value = None
    /\ value' = flag
    /\ UNCHANGED <<mono, flag, cached, until, lock, at, admin, answer, seen, flips>>

\* ... and stores and answers what it read.
StoreAndAnswer(r) ==
    /\ lock = r /\ value # None
    /\ cached' = value /\ until' = at + TTL
    /\ answer' = [value |-> value, at |-> at]
    /\ lock' = None /\ value' = None /\ at' = 0
    /\ UNCHANGED <<mono, flag, admin, seen, flips>>

\* A failing read leaves the cache as it was.
ReadFails(r) ==
    /\ lock = r /\ value = None
    /\ lock' = None /\ at' = 0
    /\ UNCHANGED <<mono, flag, cached, until, value, admin, answer, seen, flips>>

Tick ==
    /\ mono < MAX_TIME
    /\ mono' = mono + 1
    /\ seen' = [seen EXCEPT ![flag] = mono + 1]
    /\ UNCHANGED <<flag, cached, until, lock, at, value, admin, answer, flips>>

Init ==
    /\ mono = 0 /\ flag = FALSE /\ cached = None /\ until = 0
    /\ lock = None /\ at = 0 /\ value = None
    /\ admin = [a \in Admins |-> "idle"]
    /\ answer = [value |-> FALSE, at |-> 0]
    /\ seen = [v \in BOOLEAN |-> 0]
    /\ flips = 0

Next ==
    \/ \E a \in Admins : invalidate(a) \/ \E v \in BOOLEAN : CommitToggle(a, v)
    \/ \E v \in BOOLEAN : FlipInDatabase(v)
    \/ \E r \in Readers : AnswerFromCache(r) \/ BeginRead(r) \/ is_enabled(r) \/ StoreAndAnswer(r) \/ ReadFails(r)
    \/ Tick

Spec == Init /\ [][Next]_vars

-----------------------------------------------------------------------------
\* A flip takes effect at once: when every toggle has returned, the cache is
\* empty or holds the flag, and so does a read under way, so the next is_halted
\* answers it, although a reader may have read the flag before the flip and
\* stored it after.
ToggleTakesEffect ==
    (\A a \in Admins : admin[a] = "idle") => {cached, value} \subseteq {None, flag}

\* Even when the flag is flipped behind the toggle, an answer is never older than
\* the TTL: the flag had that value less than TTL before is_halted read its clock.
StaleLessThanTTL == seen[answer.value] + TTL > answer.at

\* Both: a toggle takes effect at once unless the flag is also flipped behind it,
\* and then within the TTL (CachedKillSwitch).
HaltIsCurrent == (~ DirectFlips => ToggleTakesEffect) /\ StaleLessThanTTL

=============================================================================
