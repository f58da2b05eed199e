----------------------------- MODULE RateLimiter -----------------------------
(***************************************************************************)
(* The token bucket of one key, as LoginCommand uses it.  consume makes     *)
(* sure the row exists, locks it, refills it from the time passed and takes  *)
(* one cost; the lock is held until the command commits.  A failed attempt  *)
(* commits what it took, a success deletes the row.  Tokens are counted in   *)
(* units of the refill of one tick.                                         *)
(***************************************************************************)
EXTENDS Integers, FiniteSets

CONSTANTS
    Procs,        \* requests with this key at the same time
    CAPACITY, REFILL, COST, \* in units: of the bucket, per tick, per attempt
    SUCCEEDS,     \* whether an attempt may succeed
    MAX_CLOCK,    \* bound on the clock
    None

\* What an instance has to respect.
RateLimiterAssumption ==
    /\ CAPACITY \in Nat /\ REFILL \in Nat /\ COST \in Nat \ {0} /\ COST <= CAPACITY
    /\ SUCCEEDS \in BOOLEAN /\ MAX_CLOCK \in Nat
    /\ None \notin [tokens : Nat, at : Nat]

VARIABLES
    clock,    \* ticks
    bucket,   \* the committed row: tokens, updated_at; None when there is none
    tx,       \* per process: pc, its time, the row it holds
    admitted, \* attempts admitted since the bucket was last full and new
    since,    \* the time it was
    back,     \* ticks by which requests have set updated_at back since then
    missed    \* whether consume found no row to lock

vars == <<clock, bucket, tx, admitted, since, back, missed>>

Idle == [pc |-> "idle", now |-> 0, row |-> None]

Least(a, b) == IF a < b THEN a ELSE b
Most(a, b) == IF a > b THEN a ELSE b

\* Replenish, clamped to the capacity.
refill(tokens, elapsed) == Least(CAPACITY, tokens + Most(0, elapsed) * REFILL)

\* Mutant: the row is read without FOR UPDATE.
NoLock(p) == FALSE

\* Another transaction holds the row: it locked it, or inserted it.
Locked(p) == \E q \in Procs \ {p} : tx[q].pc = "holds"

\* The request reads the time and opens its transaction.
Arrive(p) ==
    /\ tx[p].pc = "idle"
    /\ tx' = [tx EXCEPT ![p] = [Idle EXCEPT !.pc = "arrived", !.now = clock]]
    /\ UNCHANGED <<clock, bucket, admitted, since, back, missed>>

\* INSERT ... ON CONFLICT DO NOTHING: waits for another insertion of the key,
\* not for a row that is there.
EnsureRow(p) ==
    /\ tx[p].pc = "arrived"
    /\ bucket = None => ~ Locked(p)
    /\ tx' = [tx EXCEPT ![p].pc = IF bucket = None THEN "holds" ELSE "ensured",
                        ![p].row = IF bucket = None THEN [tokens |-> CAPACITY, at |-> tx[p].now] ELSE None]
    /\ UNCHANGED <<clock, bucket, admitted, since, back, missed>>

\* SELECT ... FOR UPDATE, one row expected.
LockRow(p) ==
    /\ tx[p].pc = "ensured"
    /\ bucket # None => ~ Locked(p)
    /\ IF bucket = None
       THEN tx' = [tx EXCEPT ![p] = Idle] /\ missed' = TRUE
       ELSE tx' = [tx EXCEPT ![p].pc = "holds", ![p].row = bucket] /\ UNCHANGED missed
    /\ UNCHANGED <<clock, bucket, admitted, since, back>>

\* Mutant: the update leaves updated_at as it was.
TimeNotUpdated(row, now) ==
    LET tokens == refill(row.tokens, now - row.at)
        allowed == tokens >= COST
    IN  [allowed |-> allowed, row |-> [tokens |-> IF allowed THEN tokens - COST ELSE tokens, at |-> row.at]]

\* The rest of consume: refill, decide, update.
consume(row, now) ==
    LET tokens == refill(row.tokens, now - row.at)
        allowed == tokens >= COST
    IN  [allowed |-> allowed, row |-> [tokens |-> IF allowed THEN tokens - COST ELSE tokens, at |-> now]]

\* Locked out, or bad credentials: the bucket is committed as consumed.
LoginFails(p) ==
    LET c == consume(tx[p].row, tx[p].now) IN
    /\ tx[p].pc = "holds"
    /\ bucket' = c.row
    /\ admitted' = IF c.allowed THEN admitted + 1 ELSE admitted
    /\ since' = IF bucket = None THEN tx[p].now ELSE since
    /\ back' = back + Most(0, tx[p].row.at - tx[p].now)
    /\ tx' = [tx EXCEPT ![p] = Idle]
    /\ UNCHANGED <<clock, missed>>

\* The attempt was admitted and right: reset deletes the row.
LoginSucceeds(p) ==
    /\ SUCCEEDS
    /\ tx[p].pc = "holds" /\ consume(tx[p].row, tx[p].now).allowed
    /\ bucket' = None
    /\ admitted' = 0
    /\ since' = clock
    /\ back' = 0
    /\ tx' = [tx EXCEPT ![p] = Idle]
    /\ UNCHANGED <<clock, missed>>

\* An error rolls the consumption back.
Rollback(p) ==
    /\ tx[p].pc # "idle"
    /\ tx' = [tx EXCEPT ![p] = Idle]
    /\ UNCHANGED <<clock, bucket, admitted, since, back, missed>>

Tick ==
    /\ clock < MAX_CLOCK
    /\ clock' = clock + 1
    /\ UNCHANGED <<bucket, tx, admitted, since, back, missed>>

Init ==
    /\ clock = 0 /\ bucket = None /\ admitted = 0 /\ since = 0 /\ back = 0 /\ missed = FALSE
    /\ tx = [p \in Procs |-> Idle]

Next ==
    \/ \E p \in Procs : Arrive(p) \/ EnsureRow(p) \/ LockRow(p) \/ LoginFails(p) \/ LoginSucceeds(p) \/ Rollback(p)
    \/ Tick

Spec == Init /\ [][Next]_vars

-----------------------------------------------------------------------------
\* Since the bucket was new, no more attempts are admitted than its capacity and
\* the refill of the time passed allow, although requests wait for each other.
AdmissionsAreBounded == admitted * COST <= CAPACITY + (clock - since) * REFILL

\* What is left of that when requests wait for the lock while the bucket is refilled:
\* a request with an earlier time sets updated_at back, and those ticks count again,
\* but no others do.
AdmissionsAreAccounted == admitted * COST <= CAPACITY + (clock - since + back) * REFILL

\* consume makes sure the row exists before it locks it, and so finds it.
RowIsThere == ~ missed

=============================================================================
