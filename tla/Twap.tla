-------------------------------- MODULE Twap --------------------------------
(***************************************************************************)
(* TWAP plans in the legacy tables trade_intents and twap_slices: the       *)
(* confirmation, the slice worker with its price follow-ups, the scheduler  *)
(* loop that drives it, and what closes a plan (expiry, account disable,    *)
(* the legacy cancel command).  All plans are on one symbol.                *)
(*                                                                         *)
(* Instants are seconds, counted like the minutes of TradingSession.  A     *)
(* transaction holds the rows it has locked from the statement that locks   *)
(* them to its commit; its writes appear at the commit.  Telegram messages  *)
(* leave no state here.                                                     *)
(***************************************************************************)
EXTENDS TradingSession, FiniteSets, Sequences

CONSTANTS
    Ids,        \* ids of rows of trade_intents
    Offers,     \* plans a client may confirm: [owner, side, quantity, date, at]
    Owners,     \* users
    Instants,   \* instants at which the clock is observed
    Api,        \* API threads
    Workers,    \* threads that run the slice worker: the scheduler, dev requests
    BATCH,      \* `limit` of a worker run
    PER_USER,   \* IntentLimits: open rows of an owner
    Snapshots,  \* what get_quotes may find: sets of the prices a quote carries
    Events,     \* what happens beside confirmations and worker runs; of these, no
                \* route calls the legacy cancel command
    MAX_FAULTS, \* bound of the model: failed transactions and restarts
    None

Scheduler == "scheduler"

\* What an instance has to respect.
TwapAssumption ==
    /\ Instants \subseteq Nat /\ PER_USER \in Nat /\ MAX_FAULTS \in Nat
    /\ BATCH \in Nat \ {0}
    /\ Workers \cap Api = {}
    /\ Events \subseteq {"cancel", "disable", "quote", "restart", "unsubscribe", "halt", "zero"}
    /\ \A o \in Offers : o.owner \in Owners /\ o.at \in Seq(Nat) /\ Len(o.at) >= 1
    /\ None \notin Offers

VARIABLES
    now, halt, subscribed,
    zero,       \* the feed reports the prices it carries as zero, which no one drops
    active,     \* users whose account is active
    plan,       \* immutable columns of a row: an offer, or None
    status,     \* trade_intents.status, "absent" before the commit
    slice,      \* the plan's rows of twap_slices
    tx,         \* per thread, the transaction it is in
    turn,       \* the scheduler's next phase
    faults

vars == <<now, halt, subscribed, zero, active, plan, status, slice, tx, turn, faults>>
db == <<plan, status, slice>>
env == <<now, halt, subscribed, zero, active, faults>>

CANCELLABLE_STATUSES == {"scheduled", "active"}
MAX_ATTEMPTS == 3
FOLLOWUP_DELAY == 10
NoInstant == -1

Threads == Api \cup Workers
MinuteOf(t) == t \div 60
InRegularSession(t) == get_trading_day_phase(MinuteOf(t)) = REGULAR_SESSION
Open(i) == status[i] \in CANCELLABLE_STATUSES

\* A row of twap_slices: note and fnote count its notification rows.
NewSlice(t) == [at |-> t, st |-> "pending", note |-> 0, required |-> FALSE, tries |-> 0,
                next |-> NoInstant, fnote |-> 0]

Idle == [pc |-> "idle", offer |-> None, cur |-> None, at |-> 0, rows |-> {}]

\* Rows are locked by a worker run that loaded them.
Free(i) == \A w \in Workers : \A r \in tx[w].rows : r[1] # i

\* Slice k of plan i, for the plans that have rows.
Rows == UNION {{<<i, k>> : k \in 1..Len(slice[i])} : i \in Ids}
SliceOf(r) == slice[r[1]][r[2]]

-----------------------------------------------------------------------------
(* Lifecycle over the legacy repository *)

\* The slices an expiry or a cancellation closes.
CancelPending(ss) ==
    [k \in 1..Len(ss) |->
        IF ss[k].st = "pending"
        THEN [ss[k] EXCEPT !.st = "cancelled", !.required = FALSE, !.next = NoInstant]
        ELSE ss[k]]

system_expire_day_intents_through(st, ss, cutoff) ==
    LET due == {i \in Ids : st[i] \in CANCELLABLE_STATUSES /\ plan[i].date <= cutoff}
    IN  [st |-> [i \in Ids |-> IF i \in due THEN "expired" ELSE st[i]],
         ss |-> [i \in Ids |-> IF i \in due THEN CancelPending(ss[i]) ELSE ss[i]]]

system_activate_scheduled_day_intents(st, day) ==
    [i \in Ids |-> IF st[i] = "scheduled" /\ plan[i].date = day THEN "active" ELSE st[i]]

\* IntentLifecycleCommand.run.
LifecycleRun ==
    LET m == MinuteOf(now)
        expired == system_expire_day_intents_through(status, slice, get_expirable_day_intent_cutoff(m))
    IN  IF InRegularSession(now)
        THEN [expired EXCEPT !.st = system_activate_scheduled_day_intents(@, DayOf(m))]
        ELSE expired

LifecycleReady == \A i \in Ids : LifecycleRun.st[i] # status[i] => Free(i)

\* The legacy quote dispatcher runs the lifecycle on every quote; it evaluates no
\* TWAP plan.
DispatchQuote ==
    /\ "quote" \in Events
    /\ subscribed /\ ~ halt
    /\ LifecycleReady
    /\ status' = LifecycleRun.st /\ slice' = LifecycleRun.ss
    /\ UNCHANGED <<env, plan, tx, turn>>

-----------------------------------------------------------------------------
(* TwapConfirmCommand *)

count_active_or_scheduled_for_user(o) ==
    Cardinality({i \in Ids : Open(i) /\ plan[i].owner = o})

SameSide(a, b) == a.owner = b.owner /\ a.side = b.side /\ a.date = b.date

\* Caps, then the SELECT for a plan of the same side and day.
Confirm(p, o) ==
    /\ tx[p].pc = "idle"
    /\ o.owner \in active
    /\ o.date = get_day_intent_trading_date(MinuteOf(now))
    /\ count_active_or_scheduled_for_user(o.owner) < PER_USER
    /\ tx' = [tx EXCEPT ![p] = [Idle EXCEPT !.offer = o, !.at = now,
               !.pc = IF \E i \in Ids : Open(i) /\ SameSide(plan[i], o)
                      THEN "c_duplicate" ELSE "c_checked"]]
    /\ UNCHANGED <<env, db, turn>>

\* Mutant: no unique index on open plans.
NoUniqueIndex(a, b) == FALSE

\* The unique indexes on open rows: one for every strategy, whose nulls are not
\* distinct, and one for TWAP.
Collide(a, b) ==
    \/ a.owner = b.owner /\ a.quantity = b.quantity /\ a.date = b.date
    \/ SameSide(a, b)

Inserted(p) == tx[p].pc = "c_inserted"

\* The flush waits for a transaction that holds the same key, fails on a
\* committed one, and is followed by the subscription, which may be refused.
create_twap(p) ==
    /\ tx[p].pc = "c_checked"
    /\ \A q \in Api \ {p} : Inserted(q) => ~ Collide(tx[q].offer, tx[p].offer)
    /\ IF \E i \in Ids : Open(i) /\ Collide(plan[i], tx[p].offer)
       THEN /\ tx' = [tx EXCEPT ![p].pc = "c_duplicate"]
            /\ UNCHANGED subscribed
       ELSE \/ /\ \E i \in {j \in Ids : plan[j] = None} \ {tx[q].cur : q \in Api} :
                      tx' = [tx EXCEPT ![p].pc = "c_inserted", ![p].cur = i]
               /\ subscribed' = TRUE
            \/ /\ ~ subscribed
               /\ tx' = [tx EXCEPT ![p] = Idle]
               /\ UNCHANGED subscribed
    /\ UNCHANGED <<now, halt, zero, active, faults, db, turn>>

\* The status follows from the phase at which the plan was built.
CommitConfirm(p) ==
    /\ Inserted(p)
    /\ LET i == tx[p].cur
           o == tx[p].offer
       IN  /\ plan' = [plan EXCEPT ![i] = o]
           /\ status' = [status EXCEPT ![i] =
                            IF InRegularSession(tx[p].at) THEN "active" ELSE "scheduled"]
           /\ slice' = [slice EXCEPT ![i] = [k \in 1..Len(o.at) |-> NewSlice(o.at[k])]]
    /\ tx' = [tx EXCEPT ![p] = Idle]
    /\ UNCHANGED <<env, turn>>

\* TWAP_DUPLICATE_ACTIVE_PLAN goes back to the client.
ReplyDuplicate(p) ==
    /\ tx[p].pc = "c_duplicate"
    /\ tx' = [tx EXCEPT ![p] = Idle]
    /\ UNCHANGED <<env, db, turn>>

-----------------------------------------------------------------------------
(* The legacy cancel command *)

\* Follow-ups that wait are dropped too.
CancelSlices(ss) ==
    [k \in 1..Len(ss) |->
        [CancelPending(ss)[k] EXCEPT !.required = FALSE, !.next = NoInstant]]

\* IntentRepository.cancel reads the row ...
ReadForCancel(p, i) ==
    /\ "cancel" \in Events
    /\ tx[p].pc = "idle"
    /\ Open(i)
    /\ tx' = [tx EXCEPT ![p] = [Idle EXCEPT !.pc = "x_read", !.cur = i]]
    /\ UNCHANGED <<env, db, turn>>

\* ... and updates it by id alone.  After the commit the symbol is unsubscribed
\* when no open row is left; that may fail.
cancel(p) ==
    /\ tx[p].pc = "x_read" /\ Free(tx[p].cur)
    /\ status' = [status EXCEPT ![tx[p].cur] = "cancelled"]
    /\ slice' = [slice EXCEPT ![tx[p].cur] = CancelSlices(@)]
    /\ tx' = [tx EXCEPT ![p] = Idle]
    /\ subscribed' \in {subscribed, subscribed /\ \E i \in Ids : status'[i] \in CANCELLABLE_STATUSES}
    /\ UNCHANGED <<now, halt, zero, active, faults, plan, turn>>

\* The account is disabled: cancel_active_for_owner closes the rows of the owner
\* and leaves their slices.
cancel_active_for_owner(o) ==
    /\ "disable" \in Events
    /\ o \in active
    /\ \A i \in Ids : Open(i) /\ plan[i].owner = o => Free(i)
    /\ active' = active \ {o}
    /\ status' = [i \in Ids |-> IF Open(i) /\ plan[i].owner = o
                                THEN "cancelled_by_account_disabled" ELSE status[i]]
    /\ UNCHANGED <<now, halt, zero, subscribed, faults, plan, slice, tx, turn>>

-----------------------------------------------------------------------------
(* TwapSliceWorkerCommand *)

Due == "due_slices"
Followups == "price_followups"
Other(ph) == IF ph = Due THEN Followups ELSE Due
Loaded(ph) == IF ph = Due THEN "loaded_due_slices" ELSE "loaded_price_followups"

\* A phase: `now`, the lifecycle, the session and the kill switch.  The scheduler
\* takes its phases in turn, a dev request names one.
BeginPhase(w, ph) ==
    /\ tx[w].pc = "idle"
    /\ w = Scheduler => ph = turn
    /\ LifecycleReady
    /\ status' = LifecycleRun.st /\ slice' = LifecycleRun.ss
    /\ tx' = IF InRegularSession(now) /\ ~ halt
             THEN [tx EXCEPT ![w] = [Idle EXCEPT !.pc = ph, !.at = now]] ELSE tx
    /\ turn' = IF w = Scheduler THEN Other(turn) ELSE turn
    /\ UNCHANGED <<env, plan>>

\* Mutant: the status of the plan is not looked at.
DueRowsOfAnyPlan(t) == {r \in Rows : SliceOf(r).st = "pending" /\ SliceOf(r).at <= t}

\* The WHERE clause of _load_due_slices.
DueRows(t) ==
    {r \in Rows : SliceOf(r).st = "pending" /\ SliceOf(r).at <= t /\ Open(r[1])}

\* The WHERE clause of _load_followup_slices: every status but "cancelled".
FollowupRows(t) ==
    {r \in Rows : /\ SliceOf(r).required /\ SliceOf(r).fnote = 0
                  /\ SliceOf(r).tries < MAX_ATTEMPTS /\ SliceOf(r).next <= t
                  /\ status[r[1]] # "cancelled"}

Before(ph, r, s) ==
    LET key(x) == IF ph = Due THEN SliceOf(x).at ELSE SliceOf(x).next
    IN  key(r) < key(s) \/ (key(r) = key(s) /\ r[2] <= s[2])

\* ORDER BY ... LIMIT.
FirstRows(ph, cand) ==
    {R \in SUBSET cand :
        /\ Cardinality(R) = IF Cardinality(cand) <= BATCH THEN Cardinality(cand) ELSE BATCH
        /\ \A r \in R, s \in cand \ R : Before(ph, r, s)}

\* Mutant: a plain SELECT.
SelectWithoutLock(cand) == cand

\* FOR UPDATE SKIP LOCKED takes the rows of both tables.
SkipLocked(cand) == {r \in cand : Free(r[1])}

Load(w) ==
    /\ tx[w].pc \in {Due, Followups}
    /\ LET cand == IF tx[w].pc = Due THEN DueRows(tx[w].at) ELSE FollowupRows(tx[w].at)
       IN  \E R \in FirstRows(tx[w].pc, SkipLocked(cand)) :
              tx' = [tx EXCEPT ![w] = IF R = {} THEN Idle
                                      ELSE [tx[w] EXCEPT !.rows = R, !.pc = Loaded(tx[w].pc)]]
    /\ UNCHANGED <<env, db, turn>>

\* _select_reference_price: the side's own price, else the last price.
select_reference_price(side, quote) ==
    IF side = "long" /\ "ask" \in quote THEN "ask"
    ELSE IF side = "short" /\ "bid" \in quote THEN "bid"
    ELSE IF "last" \in quote THEN "last_fallback"
    ELSE "none"

\* _get_reference_price: no quote while the symbol is not subscribed.
get_reference_price(i, quote) ==
    IF subscribed THEN select_reference_price(plan[i].side, quote) ELSE "none"

\* _process_due_slice: the slice's new row.
process_due_slice(s, t, price) ==
    [s EXCEPT !.st = "notified", !.note = @ + 1, !.required = (price = "none"),
              !.next = IF price = "none" THEN t + FOLLOWUP_DELAY ELSE NoInstant]

\* _process_followup: the slice's new row.
process_followup(s, t, price) ==
    IF price # "none"
    THEN [s EXCEPT !.tries = @ + 1, !.required = FALSE, !.next = NoInstant, !.fnote = @ + 1]
    ELSE IF s.tries + 1 >= MAX_ATTEMPTS
    THEN [s EXCEPT !.tries = @ + 1, !.required = FALSE, !.next = NoInstant]
    ELSE [s EXCEPT !.tries = @ + 1, !.next = t + FOLLOWUP_DELAY]

\* Mutant: the last slice is not waited for.
CompleteEarly(st, ss) ==
    IF st \in CANCELLABLE_STATUSES /\ Cardinality({k \in 1..Len(ss) : ss[k].st = "pending"}) <= 1
    THEN "triggered" ELSE st

\* _complete_intent_if_all_slices_done, after scheduled has become active.
complete_intent_if_all_slices_done(st, ss) ==
    IF st \notin CANCELLABLE_STATUSES THEN st
    ELSE IF \A k \in 1..Len(ss) : ss[k].st # "pending" THEN "triggered"
    ELSE "active"

\* CHECK primary_reference_price: the price noted on a slice is positive.
Storable(price) == price = "none" \/ ~ zero

\* Every slice asks for a quote of its own.  The pending slices are counted in what
\* this transaction sees: its own writes over the committed rows.
CommitDue(w) ==
    /\ tx[w].pc = Loaded(Due)
    /\ \E quote \in [tx[w].rows -> Snapshots] :
           LET R == tx[w].rows
               price(r) == get_reference_price(r[1], quote[r])
               ss == [i \in Ids |-> [k \in 1..Len(slice[i]) |->
                        IF <<i, k>> \in R
                        THEN process_due_slice(slice[i][k], tx[w].at, price(<<i, k>>)) ELSE slice[i][k]]]
           IN  /\ \A r \in R : Storable(price(r))
               /\ slice' = ss
               /\ status' = [i \in Ids |->
                     IF \E r \in R : r[1] = i
                     THEN complete_intent_if_all_slices_done(status[i], ss[i]) ELSE status[i]]
    /\ tx' = [tx EXCEPT ![w] = Idle]
    /\ UNCHANGED <<env, plan, turn>>

\* A price of zero fails the flush of its slice, and with it the whole phase.
FlushFails(w) ==
    /\ tx[w].pc = Loaded(Due)
    /\ \E r \in tx[w].rows, quote \in Snapshots : ~ Storable(get_reference_price(r[1], quote))
    /\ tx' = [tx EXCEPT ![w] = Idle]
    /\ UNCHANGED <<env, db, turn>>

\* A follow-up notes no price.
CommitFollowups(w) ==
    /\ tx[w].pc = Loaded(Followups)
    /\ \E quote \in [tx[w].rows -> Snapshots] :
           slice' = [i \in Ids |-> [k \in 1..Len(slice[i]) |->
                       IF <<i, k>> \in tx[w].rows
                       THEN process_followup(slice[i][k], tx[w].at, get_reference_price(i, quote[<<i, k>>]))
                       ELSE slice[i][k]]]
    /\ tx' = [tx EXCEPT ![w] = Idle]
    /\ UNCHANGED <<env, plan, status, turn>>

\* Mutant: an exception ends the scheduler.
PhaseEndsLoop(w) ==
    /\ faults < MAX_FAULTS /\ tx[w].pc # "idle"
    /\ tx' = [tx EXCEPT ![w] = IF w = Scheduler THEN [Idle EXCEPT !.pc = "ended"] ELSE Idle]
    /\ faults' = faults + 1
    /\ UNCHANGED <<now, halt, zero, subscribed, active, db, turn>>

\* A database error rolls the transaction back; _run_worker_phase swallows it,
\* an API thread reports it.
Fail(w) ==
    /\ faults < MAX_FAULTS /\ tx[w].pc # "idle"
    /\ tx' = [tx EXCEPT ![w] = Idle]
    /\ faults' = faults + 1
    /\ UNCHANGED <<now, halt, zero, subscribed, active, db, turn>>

-----------------------------------------------------------------------------
\* The process ends and starts again: transactions are lost, the lifespan runs
\* the lifecycle and subscribes the symbol of every open row, of both tracks.
Restart ==
    /\ "restart" \in Events
    /\ faults < MAX_FAULTS
    /\ tx' = [p \in Threads |-> Idle]
    /\ turn' = Due
    /\ status' = LifecycleRun.st /\ slice' = LifecycleRun.ss
    /\ \/ subscribed' = TRUE
       \/ /\ \A i \in Ids : status'[i] \notin CANCELLABLE_STATUSES
          /\ subscribed' = FALSE
    /\ faults' = faults + 1
    /\ UNCHANGED <<now, halt, zero, active, plan>>

\* The core track unsubscribes the symbol after its last intent on it.
CoreUnsubscribe ==
    /\ "unsubscribe" \in Events
    /\ subscribed /\ subscribed' = FALSE
    /\ UNCHANGED <<now, halt, zero, active, faults, db, tx, turn>>

SetHalt ==
    /\ "halt" \in Events
    /\ halt' = ~ halt
    /\ UNCHANGED <<now, subscribed, zero, active, faults, db, tx, turn>>

\* The feed begins or stops to report zeros, as for a side of the book without orders.
ReportZero ==
    /\ "zero" \in Events
    /\ zero' = ~ zero
    /\ UNCHANGED <<now, halt, subscribed, active, faults, db, tx, turn>>

Advance ==
    /\ \E t \in Instants : /\ t > now
                           /\ \A u \in Instants : u > now => t <= u
                           /\ now' = t
    /\ UNCHANGED <<halt, subscribed, zero, active, faults, db, tx, turn>>

Init ==
    /\ now \in Instants /\ \A t \in Instants : now <= t
    /\ halt = FALSE /\ subscribed = FALSE /\ zero = FALSE /\ active = Owners /\ faults = 0
    /\ plan = [i \in Ids |-> None]
    /\ status = [i \in Ids |-> "absent"]
    /\ slice = [i \in Ids |-> <<>>]
    /\ tx = [p \in Threads |-> Idle]
    /\ turn = Due

WorkerStep(w) ==
    \/ \E ph \in {Due, Followups} : BeginPhase(w, ph)
    \/ Load(w) \/ CommitDue(w) \/ FlushFails(w) \/ CommitFollowups(w)

\* A request under way goes on.
RequestStep(p) == create_twap(p) \/ CommitConfirm(p) \/ ReplyDuplicate(p) \/ cancel(p)

Next ==
    \/ \E p \in Api :
           \/ \E o \in Offers : Confirm(p, o)
           \/ \E i \in Ids : ReadForCancel(p, i)
           \/ RequestStep(p)
    \/ \E w \in Workers : WorkerStep(w)
    \/ \E p \in Threads : Fail(p)
    \/ \E o \in Owners : cancel_active_for_owner(o)
    \/ DispatchQuote \/ Restart \/ CoreUnsubscribe \/ SetHalt \/ ReportZero \/ Advance

Spec == Init /\ [][Next]_vars

\* run_forever never stops taking steps, and neither its transactions nor those
\* of the requests stay open for ever.
FairSpec ==
    /\ Spec
    /\ \A w \in Workers : WF_vars(WorkerStep(w))
    /\ \A p \in Api : WF_vars(RequestStep(p))

-----------------------------------------------------------------------------
\* An owner has at most one open plan per side and day, whatever confirmations
\* run at the same time.
OnePlanPerSide ==
    \A i, j \in Ids : i # j /\ Open(i) /\ Open(j) => ~ SameSide(plan[i], plan[j])

\* What the documentation says of duplicates: a confirmation is refused as a
\* duplicate only when a plan of the same owner, side and day is open.
DuplicateOnlyPerSide ==
    [][\A p \in Api : tx[p].pc # "c_duplicate" /\ tx'[p].pc = "c_duplicate" =>
          \E i \in Ids : Open(i) /\ SameSide(plan[i], tx'[p].offer)]_vars

\* An open plan has a slice still to be sent, and a completed one has none:
\* workers that share the slices of a plan never leave it open with nothing to
\* do, nor close it with a slice unsent.
OpenMeansWorkLeft ==
    \A i \in Ids :
        /\ Open(i) => \E k \in 1..Len(slice[i]) : slice[i][k].st = "pending"
        /\ status[i] = "triggered" => \A k \in 1..Len(slice[i]) : slice[i][k].st = "notified"

\* A slice has one notification row exactly when it counts as notified, at most
\* one follow-up, after at most three attempts, and asks for a follow-up only
\* while both are still possible.
NotifiedOnce ==
    \A r \in Rows : LET s == SliceOf(r) IN
        /\ s.note = IF s.st = "notified" THEN 1 ELSE 0
        /\ s.fnote <= 1 /\ s.tries <= MAX_ATTEMPTS
        /\ s.required => s.st = "notified" /\ s.fnote = 0 /\ s.tries < MAX_ATTEMPTS

\* A slice is notified only while its plan is open and inside the session, and a
\* cancelled or expired plan has nothing pending.
SentWhileOpen ==
    \A r \in Rows : SliceOf(r).st = "pending" /\ slice'[r[1]][r[2]].st = "notified" => Open(r[1])
NoSliceAfterClose == [][SentWhileOpen]_vars

ClosedHasNoPending ==
    \A i \in Ids : status[i] \in {"cancelled", "expired"} =>
        \A k \in 1..Len(slice[i]) : slice[i][k].st # "pending"

\* The account cascade says that a disabled account gets no more notifications.
DisabledGetsNoNotification ==
    [][\A r \in Rows : status[r[1]] = "cancelled_by_account_disabled" =>
          slice'[r[1]][r[2]].note + slice'[r[1]][r[2]].fnote = SliceOf(r).note + SliceOf(r).fnote]_vars

\* While the session runs and nothing is halted, a slice that is due is sent or
\* closed if zeros are not reported for ever, and a follow-up that is due is made in
\* any case, whatever fails on the way.
SliceIsDue(i, k) ==
    /\ k <= Len(slice[i])
    /\ slice[i][k].st = "pending" /\ slice[i][k].at <= now /\ Open(i)
FollowupIsDue(i, k) ==
    /\ k <= Len(slice[i])
    /\ slice[i][k].required /\ slice[i][k].next <= now /\ status[i] # "cancelled"
Suspended == ~ InRegularSession(now) \/ halt
SliceIsHandled(i, k) == SliceIsDue(i, k) ~> (~ SliceIsDue(i, k) \/ Suspended)
DueIsHandled ==
    \A i \in Ids : \A k \in UNION {1..Len(o.at) : o \in Offers} :
        /\ <>[](~ zero) => SliceIsHandled(i, k)
        /\ FollowupIsDue(i, k) ~> (~ FollowupIsDue(i, k) \/ Suspended)

\* What the documentation says, without the proviso: every due slice is notified.
\* While zeros are reported the phase fails every second, with the same slices first.
DueIsHandledAtAnyPrice ==
    \A i \in Ids : \A k \in UNION {1..Len(o.at) : o \in Offers} : SliceIsHandled(i, k)

=============================================================================
