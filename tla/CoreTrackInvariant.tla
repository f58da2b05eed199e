------------------------- MODULE CoreTrackInvariant -------------------------
(***************************************************************************)
(* The inductive invariant of CoreTrack, and the proofs that every step    *)
(* keeps the part of it that concerns rows, handlers in progress,          *)
(* triggers, duplicates, messages and subscriptions, for any threads,      *)
(* intents, owners, symbols and clock.                                     *)
(***************************************************************************)
EXTENDS CoreTrack, TLAPS

-----------------------------------------------------------------------------
(* The session rules at every instant *)

\* The date of an instant is a natural number of days.
LEMMA DayOfNat == ASSUME NEW t \in Nat PROVE DayOf(t) \in Nat
BY DEF DayOf, MinutesPerDay

\* The date never runs backwards as the clock advances.
LEMMA DayOfMonotone ==
    ASSUME NEW s \in Nat, NEW t \in Nat, s <= t PROVE DayOf(s) <= DayOf(t)
BY DEF DayOf, MinutesPerDay

\* _next_weekday terminates within three days of any date, on a weekday.
LEMMA NextTradingDay ==
    ASSUME NEW d \in Nat
    PROVE  /\ next_trading_day(d) \in (d + 1)..(d + 3)
           /\ is_trading_day(next_trading_day(d))
           /\ \A f \in (d + 1)..(next_trading_day(d) - 1) : ~ is_trading_day(f)
<1> DEFINE First(e) == /\ is_trading_day(e)
                       /\ \A f \in (d + 1)..(e - 1) : ~ is_trading_day(f)
<1>1. \E e \in (d + 1)..(d + 3) : First(e)
  <2>1. CASE is_trading_day(d + 1)
    <3>1. First(d + 1)
      BY <2>1
    <3> QED
      BY <3>1
  <2>2. CASE ~ is_trading_day(d + 1) /\ is_trading_day(d + 2)
    <3>1. First(d + 2)
      BY <2>2
    <3> QED
      BY <3>1
  <2>3. CASE ~ is_trading_day(d + 1) /\ ~ is_trading_day(d + 2)
    <3>1. is_trading_day(d + 3)
      BY <2>3 DEF is_trading_day
    <3>2. \A f \in (d + 1)..(d + 2) : ~ is_trading_day(f)
      <4>1. \A f \in (d + 1)..(d + 2) : f = d + 1 \/ f = d + 2
        OBVIOUS
      <4> QED
        BY <2>3, <4>1
    <3>3. First(d + 3)
      BY <3>1, <3>2
    <3> QED
      BY <3>3
  <2> QED
    BY <2>1, <2>2, <2>3
<1> QED
  BY <1>1 DEF next_trading_day

\* A new day intent is for today or later, and for a trading day.
LEMMA TradingDateNotPast ==
    ASSUME NEW t \in Nat
    PROVE  /\ get_day_intent_trading_date(t) \in Nat
           /\ DayOf(t) <= get_day_intent_trading_date(t)
           /\ is_trading_day(get_day_intent_trading_date(t))
<1>1. PICK d \in Nat : d = DayOf(t)
  BY DayOfNat
<1>2. /\ next_trading_day(d) \in (d + 1)..(d + 3)
      /\ is_trading_day(next_trading_day(d))
  BY NextTradingDay
<1>3. next_trading_day(d) \in Nat /\ d <= next_trading_day(d)
  BY <1>2
<1> QED
  BY <1>1, <1>2, <1>3 DEF get_day_intent_trading_date

\* The expiry cutoff is yesterday or today.
LEMMA CutoffRange ==
    ASSUME NEW t \in Nat
    PROVE  get_expirable_day_intent_cutoff(t) \in {DayOf(t) - 1, DayOf(t)}
BY DEF get_expirable_day_intent_cutoff

-----------------------------------------------------------------------------
(* The invariant *)

\* Handlers that are cancelling, dispatching, or have read the clock.
Cancelling(p) == tx[p].pc \in {"x_swept", "x_read", "x_cancelled", "x_unneeded"}
Dispatching(p) == tx[p].pc \in {"d_checked", "d_swept", "d_loop"}
Timed(p) == Inserting(p) \/ Dispatching(p)

\* Committed rows have columns and uncommitted ones have no status yet.
RowsOK ==
    /\ \A i \in Intents : status[i] # "absent" => row[i] # None
    /\ \A p \in Procs : Inserting(p) =>
           tx[p].cur # None /\ row[tx[p].cur] # None /\ status[tx[p].cur] = "absent"
    /\ \A p, q \in Procs : Inserting(p) /\ Inserting(q) /\ tx[p].cur = tx[q].cur => p = q
    /\ \A p \in Procs : tx[p].pc = "c_auth" => tx[p].own # None
    /\ \A p \in Procs : Cancelling(p) => tx[p].cur # None /\ status[tx[p].cur] # "absent"

\* A dispatch with clock t may list the intent: it is not overdue by that clock, or
\* it was committed after that dispatch had begun.
InTime(i, t) == DayOf(t) <= row[i].date \/ t <= opened[i]

\* What one handler in progress relies on.
ThreadOK(p) ==
    \* Only a dispatch lists intents or locks existing rows.
    /\ tx[p].pc # "d_loop" => tx[p].held = {} /\ tx[p].todo = {}
    \* What it has fired and not committed: the row it inserted itself, or an
    \* active row it holds, on an evaluation in session.
    /\ tx[p].pc \notin {"d_loop", "c_ready"} => tx[p].fired = {}
    /\ tx[p].pc = "c_ready" => tx[p].fired \subseteq {tx[p].cur}
    /\ tx[p].pc = "d_loop" =>
           \A i \in tx[p].fired : i \in tx[p].held /\ i \notin tx[p].todo /\ status[i] = "active"
    /\ \A i \in tx[p].fired : is_within_regular_session(tx[p].at)
    /\ tx[p].pc = "c_armed" => is_within_regular_session(tx[p].at)
    \* Its clock is not ahead, what it creates is for the day of that clock or a
    \* later one, and so is what it lists, unless it was committed meanwhile.
    /\ Timed(p) => tx[p].at <= now
    /\ Inserting(p) => DayOf(tx[p].at) <= row[tx[p].cur].date
    /\ tx[p].pc = "d_swept" =>
           \A i \in Intents : status[i] = "active" => InTime(i, tx[p].at)
    /\ tx[p].pc = "d_loop" =>
           \A i \in tx[p].todo \cup tx[p].held : status[i] # "absent" /\ InTime(i, tx[p].at)
    \* It may send while the switch is on only if it had passed its check before.
    /\ halt /\ Armed(p) => tx[p].past

\* Row locks are exclusive, and a process that is down runs no handler.
LocksOK ==
    /\ \A p, q \in Procs : \A i \in tx[p].held \cap tx[q].held : p = q
    /\ ~ up => \A p \in Procs : tx[p] = Idle

HandlersOK == LocksOK /\ \A p \in Procs : ThreadOK(p)

Live(i) == Open(i) \/ \E p \in Procs : Inserting(p) /\ tx[p].cur = i

UniqueOK == \A i, j \in Intents : Live(i) /\ Live(j) /\ row[i] = row[j] => i = j

Safety == FiredIsClosed /\ TriggerIsRecordedOnce /\ FiredByItsTradingDate

\* What an open intent or a creation under way relies on is subscribed or cut.
SubsOK ==
    up => /\ \A i \in Intents : Open(i) => row[i].symbol \in subs \cup cut
          /\ \A p \in Procs : Subscribing(p) => row[tx[p].cur].symbol \in subs \cup cut

IInv ==
    /\ TypeOK /\ RowsOK /\ HandlersOK /\ UniqueOK /\ Safety
    /\ MessageStandsForOneTrigger /\ SubsOK

-----------------------------------------------------------------------------
(* Steps of one handler *)

\* The other handlers do not move.
Others(p) == \A q \in Procs \ {p} : tx'[q] = tx[q]

\* A handler that changes its place only keeps its data.
LEMMA Advances ==
    ASSUME TypeOK, NEW p \in Procs, NEW pc, tx' = [tx EXCEPT ![p].pc = pc]
    PROVE  /\ Others(p) /\ tx'[p].pc = pc
           /\ tx'[p].own = tx[p].own /\ tx'[p].cur = tx[p].cur /\ tx'[p].at = tx[p].at
           /\ tx'[p].todo = tx[p].todo /\ tx'[p].held = tx[p].held
           /\ tx'[p].fired = tx[p].fired /\ tx'[p].past = tx[p].past
<1>1. tx[p] \in Tx /\ tx'[p] = [tx[p] EXCEPT !.pc = pc] /\ Others(p)
  BY DEF TypeOK, Others
<1> QED
  BY ONLY <1>1 DEF Tx

\* A handler that ends has nothing left.
LEMMA Ends ==
    ASSUME TypeOK, NEW p \in Procs, tx' = [tx EXCEPT ![p] = Idle]
    PROVE  /\ Others(p) /\ tx'[p].pc = "idle"
           /\ tx'[p].todo = {} /\ tx'[p].held = {} /\ tx'[p].fired = {}
BY DEF TypeOK, Others, Idle

\* A handler at rest.
LEMMA IdleFields ==
    Idle.pc = "idle" /\ Idle.todo = {} /\ Idle.held = {} /\ Idle.fired = {}
BY DEF Idle

\* A cancellation begins.
LEMMA CancelBegins ==
    ASSUME TypeOK, NEW p \in Procs, NEW i \in Intents, CancelBegin(p, i)
    PROVE  /\ Others(p) /\ tx'[p].pc = "x_swept" /\ tx'[p].cur = i
           /\ tx'[p].todo = {} /\ tx'[p].held = {} /\ tx'[p].fired = {}
BY DEF TypeOK, Others, Idle, CancelBegin

\* A creation begins.
LEMMA CreateBegins ==
    ASSUME TypeOK, NEW p \in Procs, NEW o \in Owners, BeginCreate(p, o)
    PROVE  /\ Others(p) /\ tx'[p].pc = "c_auth" /\ tx'[p].own = o
           /\ tx'[p].todo = {} /\ tx'[p].held = {} /\ tx'[p].fired = {}
BY DEF TypeOK, Others, Idle, BeginCreate

\* A creation inserts its row.
LEMMA CreateInserts ==
    ASSUME TypeOK, NEW p \in Procs, NEW i \in Intents, NEW s \in Symbols, NEW k \in Keys,
           CreateInsert(p, i, s, k)
    PROVE  /\ Others(p) /\ tx'[p].pc = "c_inserted" /\ tx'[p].cur = i /\ tx'[p].at = now
           /\ tx'[p].todo = tx[p].todo /\ tx'[p].held = tx[p].held
           /\ tx'[p].fired = tx[p].fired
<1>1. /\ tx[p] \in Tx /\ Others(p)
      /\ tx'[p] = [tx[p] EXCEPT !.pc = "c_inserted", !.cur = i, !.at = now]
  BY DEF TypeOK, Others, CreateInsert
<1> QED
  BY ONLY <1>1 DEF Tx

\* A creation ends its check of the quote, with or without a trigger.
LEMMA CreateFires ==
    ASSUME TypeOK, NEW p \in Procs, CreateFire(p)
    PROVE  /\ Others(p) /\ tx'[p].pc = "c_ready"
           /\ tx'[p].cur = tx[p].cur /\ tx'[p].at = tx[p].at
           /\ tx'[p].todo = tx[p].todo /\ tx'[p].held = tx[p].held
           /\ \/ tx'[p].fired = tx[p].fired /\ UNCHANGED sent
              \/ tx'[p].fired = {tx[p].cur} /\ Announce(tx[p].cur)
<1>1. /\ tx[p] \in Tx /\ Others(p)
      /\ \/ tx'[p] = [tx[p] EXCEPT !.pc = "c_ready"] /\ UNCHANGED sent
         \/ /\ tx'[p] = [tx[p] EXCEPT !.pc = "c_ready", !.fired = {tx[p].cur}]
            /\ Announce(tx[p].cur)
  BY DEF TypeOK, Others, CreateFire
<1> QED
  <2>1. CASE tx'[p] = [tx[p] EXCEPT !.pc = "c_ready"] /\ UNCHANGED sent
    BY ONLY <1>1, <2>1 DEF Tx
  <2>2. CASE /\ tx'[p] = [tx[p] EXCEPT !.pc = "c_ready", !.fired = {tx[p].cur}]
             /\ Announce(tx[p].cur)
    BY ONLY <1>1, <2>2 DEF Tx
  <2> QED
    BY ONLY <1>1, <2>1, <2>2

\* A dispatch begins.
LEMMA DispatchBegins ==
    ASSUME TypeOK, NEW p \in Procs, NEW s \in Symbols, DispatchCheck(p, s)
    PROVE  /\ Others(p) /\ tx'[p].pc = "d_checked" /\ tx'[p].at = now
           /\ tx'[p].todo = {} /\ tx'[p].held = {} /\ tx'[p].fired = {}
BY DEF TypeOK, Others, Idle, DispatchCheck

\* A dispatch lists the active intents of its symbol.
LEMMA DispatchLists ==
    ASSUME TypeOK, NEW p \in Procs, DispatchList(p)
    PROVE  /\ Others(p) /\ tx'[p].pc = "d_loop" /\ tx'[p].at = tx[p].at
           /\ \A i \in tx'[p].todo : i \in Intents /\ status[i] = "active"
           /\ tx'[p].held = tx[p].held /\ tx'[p].fired = tx[p].fired
           /\ tx'[p].past = tx[p].past
<1> DEFINE listed == {i \in Intents : status[i] = "active" /\ row[i].symbol = tx[p].sym}
<1>1. /\ tx[p] \in Tx /\ Others(p)
      /\ tx'[p] = [tx[p] EXCEPT !.pc = "d_loop", !.todo = listed]
  BY DEF TypeOK, Others, DispatchList
<1>2. \A i \in listed : i \in Intents /\ status[i] = "active"
  OBVIOUS
<1> HIDE DEF listed
<1> QED
  BY ONLY <1>1, <1>2 DEF Tx

\* A dispatch evaluates one listed intent: it skips it, locks its row, or fires it.
LEMMA DispatchLoops ==
    ASSUME TypeOK, NEW p \in Procs, NEW i \in Intents,
           DispatchSkip(p, i) \/ DispatchBaseline(p, i) \/ DispatchFire(p, i)
    PROVE  /\ Others(p) /\ tx[p].pc = "d_loop" /\ tx'[p].pc = "d_loop"
           /\ tx'[p].at = tx[p].at /\ tx'[p].past = tx[p].past
           /\ i \in tx[p].todo /\ tx'[p].todo \subseteq tx[p].todo
           /\ \/ tx'[p].held = tx[p].held
              \/ tx'[p].held = tx[p].held \cup {i} /\ Free(p, i)
           /\ \/ tx'[p].fired = tx[p].fired
              \/ /\ tx'[p].fired = tx[p].fired \cup {i} /\ i \in tx'[p].held
                 /\ i \notin tx'[p].todo /\ Free(p, i)
                 /\ CanFire(i) /\ is_within_regular_session(tx[p].at)
           /\ UNCHANGED <<now, up, users, halt, subs, db, opened, cut>>
<1>0. tx[p] \in Tx /\ tx \in [Procs -> Tx]
  BY DEF TypeOK
<1>1. CASE DispatchSkip(p, i)
  <2>1. tx'[p] = [tx[p] EXCEPT !.todo = tx[p].todo \ {i}] /\ Others(p)
    BY <1>0, <1>1 DEF DispatchSkip, Others
  <2>2. /\ tx[p].pc = "d_loop" /\ i \in tx[p].todo
        /\ UNCHANGED <<now, up, users, halt, subs, db, opened, cut>>
    BY <1>1, Zenon DEF DispatchSkip, Ready, seen
  <2> QED
    BY ONLY <1>0, <2>1, <2>2 DEF Tx
<1>2. CASE DispatchBaseline(p, i)
  <2>1. tx'[p] = [tx[p] EXCEPT !.held = tx[p].held \cup {i}] /\ Others(p)
    BY <1>0, <1>2 DEF DispatchBaseline, Others
  <2>2. /\ tx[p].pc = "d_loop" /\ i \in tx[p].todo /\ Free(p, i)
        /\ UNCHANGED <<now, up, users, halt, subs, db, opened, cut>>
    BY <1>2, Zenon DEF DispatchBaseline, Ready, seen
  <2> QED
    BY ONLY <1>0, <2>1, <2>2 DEF Tx
<1>3. CASE DispatchFire(p, i)
  <2>1. /\ Others(p)
        /\ \/ /\ CanFire(i)
              /\ tx'[p] = [tx[p] EXCEPT !.todo = tx[p].todo \ {i}, !.held = tx[p].held \cup {i},
                                        !.fired = tx[p].fired \cup {i}]
           \/ tx'[p] = [tx[p] EXCEPT !.todo = tx[p].todo \ {i}]
    BY <1>0, <1>3 DEF DispatchFire, Others
  <2>2. /\ tx[p].pc = "d_loop" /\ i \in tx[p].todo /\ Free(p, i)
        /\ is_within_regular_session(tx[p].at)
        /\ UNCHANGED <<now, up, users, halt, subs, db, opened, cut>>
    BY <1>3, Zenon DEF DispatchFire, Ready
  <2>3. /\ tx'[p].pc = tx[p].pc /\ tx'[p].at = tx[p].at /\ tx'[p].past = tx[p].past
        /\ tx'[p].todo = tx[p].todo \ {i}
    BY ONLY <1>0, <2>1 DEF Tx
  <2>4. \/ tx'[p].held = tx[p].held /\ tx'[p].fired = tx[p].fired
        \/ /\ tx'[p].held = tx[p].held \cup {i} /\ tx'[p].fired = tx[p].fired \cup {i}
           /\ CanFire(i)
    BY ONLY <1>0, <2>1 DEF Tx
  <2> QED
    BY ONLY <2>1, <2>2, <2>3, <2>4, Zenon
<1> QED
  BY <1>1, <1>2, <1>3

\* The switch is turned: handlers keep their place and data, and those armed when
\* it is turned on are marked.
LEMMA Switches ==
    ASSUME TypeOK, NEW p \in Procs, SetKillSwitch(p), NEW q \in Procs
    PROVE  /\ tx'[q].pc = tx[q].pc /\ tx'[q].own = tx[q].own /\ tx'[q].cur = tx[q].cur
           /\ tx'[q].at = tx[q].at /\ tx'[q].todo = tx[q].todo /\ tx'[q].held = tx[q].held
           /\ tx'[q].fired = tx[q].fired
           /\ ~ halt /\ Armed(q) => tx'[q].past
<1>1. tx[q] \in Tx /\ tx'[q] = [tx[q] EXCEPT !.past = ~ halt /\ Armed(q)]
  BY DEF TypeOK, SetKillSwitch
<1>2. PICK b : b = (~ halt /\ Armed(q))
  OBVIOUS
<1>3. tx'[q] = [tx[q] EXCEPT !.past = b]
  BY <1>1, <1>2, Zenon
<1> QED
  BY ONLY <1>1, <1>2, <1>3 DEF Tx

-----------------------------------------------------------------------------
(* The lifecycle *)

\* LifecycleRun changes open intents only, never opens one, and leaves open only
\* intents of today or later.
LEMMA LifecycleFacts ==
    ASSUME TypeOK, RowsOK
    PROVE  /\ LifecycleRun \in [Intents -> VALID_STATUSES \cup {"absent"}]
           /\ \A i \in Intents :
                /\ LifecycleRun[i] # status[i] =>
                       /\ Open(i)
                       /\ LifecycleRun[i] \in {"active", "expired"}
                /\ LifecycleRun[i] \in CANCELLABLE_STATUSES =>
                       Open(i) /\ DayOf(now) <= row[i].date
<1> DEFINE cutoff == get_expirable_day_intent_cutoff(now)
           expired == ExpireThrough(status, cutoff)
<1>1. now \in Nat
  BY CoreAssumption DEF TypeOK
<1>2. PICK d \in Nat : d = DayOf(now)
  BY <1>1, DayOfNat
<1>3. cutoff \in Int /\ cutoff >= d - 1
  BY <1>1, <1>2, CutoffRange
<1>4. \A i \in Intents : Open(i) => row[i].date \in Nat
  BY DEF TypeOK, RowsOK, Open, CANCELLABLE_STATUSES, Rows
<1> HIDE DEF cutoff
<1>5. \A i \in Intents :
        /\ expired[i] \in VALID_STATUSES \cup {"absent"}
        /\ expired[i] # status[i] => Open(i) /\ expired[i] = "expired"
        /\ expired[i] \in CANCELLABLE_STATUSES => Open(i) /\ d <= row[i].date
  BY <1>3, <1>4 DEF TypeOK, Open, ExpireThrough, CANCELLABLE_STATUSES,
                    TERMINAL_STATUSES, VALID_STATUSES
<1>6. expired \in [Intents -> VALID_STATUSES \cup {"absent"}]
  BY <1>5 DEF ExpireThrough
<1> HIDE DEF expired
<1>7. LifecycleRun = IF get_trading_day_phase(now) = REGULAR_SESSION
                     THEN ActivateScheduled(expired, d) ELSE expired
  BY <1>2 DEF LifecycleRun, expired, cutoff
<1> DEFINE activated == ActivateScheduled(expired, d)
<1>8. \A i \in Intents :
        /\ activated[i] \in VALID_STATUSES \cup {"absent"}
        /\ activated[i] # expired[i] => expired[i] = "scheduled" /\ activated[i] = "active"
  BY <1>5 DEF ActivateScheduled, VALID_STATUSES, CANCELLABLE_STATUSES
<1>9. activated \in [Intents -> VALID_STATUSES \cup {"absent"}]
  BY <1>8 DEF ActivateScheduled
<1> HIDE DEF activated
<1>10. LifecycleRun = activated \/ LifecycleRun = expired
  BY <1>7 DEF activated
<1> QED
  BY <1>2, <1>5, <1>6, <1>8, <1>9, <1>10 DEF CANCELLABLE_STATUSES, Open

-----------------------------------------------------------------------------
(* Rows *)

\* A step of p keeps the rows apart if it leaves those of the others alone and p
\* ends up with a row of its own, a committed one, or none.
LEMMA RowsKept ==
    ASSUME RowsOK, NEW p \in Procs, Others(p),
           \A i \in Intents : status'[i] # "absent" => row'[i] # None,
           \A q \in Procs \ {p} : Inserting(q) =>
               row'[tx[q].cur] # None /\ status'[tx[q].cur] = "absent",
           \A q \in Procs \ {p} : Cancelling(q) => status'[tx[q].cur] # "absent",
           Inserting(p)' =>
               /\ tx'[p].cur # None /\ row'[tx'[p].cur] # None /\ status'[tx'[p].cur] = "absent"
               /\ \A q \in Procs \ {p} : Inserting(q) => tx[q].cur # tx'[p].cur,
           Cancelling(p)' => tx'[p].cur # None /\ status'[tx'[p].cur] # "absent",
           tx'[p].pc = "c_auth" => tx'[p].own # None
    PROVE  RowsOK'
<1>1. \A q \in Procs \ {p} :
        /\ tx'[q] = tx[q]
        /\ Inserting(q)' <=> Inserting(q)
        /\ Cancelling(q)' <=> Cancelling(q)
  BY Zenon DEF Others, Inserting, Subscribing, Cancelling
<1>2. ASSUME NEW q \in Procs, Inserting(q)'
      PROVE  tx'[q].cur # None /\ row'[tx'[q].cur] # None /\ status'[tx'[q].cur] = "absent"
  <2>1. CASE q = p
    BY <1>2, <2>1, Zenon
  <2>2. CASE q # p
    <3>1. Inserting(q) /\ tx'[q] = tx[q]
      BY <1>1, <1>2, <2>2, Zenon
    <3>2. tx[q].cur # None
      BY <3>1, Zenon DEF RowsOK
    <3> QED
      BY <2>2, <3>1, <3>2, Zenon
  <2> QED
    BY <2>1, <2>2
<1>3. ASSUME NEW q \in Procs, Cancelling(q)'
      PROVE  tx'[q].cur # None /\ status'[tx'[q].cur] # "absent"
  <2>1. CASE q = p
    BY <1>3, <2>1, Zenon
  <2>2. CASE q # p
    <3>1. Cancelling(q) /\ tx'[q] = tx[q]
      BY <1>1, <1>3, <2>2, Zenon
    <3>2. tx[q].cur # None
      BY <3>1, Zenon DEF RowsOK
    <3> QED
      BY <2>2, <3>1, <3>2, Zenon
  <2> QED
    BY <2>1, <2>2
<1>4. ASSUME NEW q \in Procs, NEW u \in Procs, Inserting(q)', Inserting(u)', tx'[q].cur = tx'[u].cur
      PROVE  q = u
  <2>1. CASE q # p /\ u # p
    <3>1. Inserting(q) /\ Inserting(u) /\ tx'[q] = tx[q] /\ tx'[u] = tx[u]
      BY <1>1, <1>4, <2>1, Zenon
    <3> QED
      BY <1>4, <3>1, Zenon DEF RowsOK
  <2>2. CASE q = p /\ u # p
    BY <1>1, <1>4, <2>2, Zenon
  <2>3. CASE q # p /\ u = p
    BY <1>1, <1>4, <2>3, Zenon
  <2> QED
    BY <2>1, <2>2, <2>3, Zenon
<1>5. \A q \in Procs : tx'[q].pc = "c_auth" => tx'[q].own # None
  <2>1. ASSUME NEW q \in Procs, tx'[q].pc = "c_auth", q = p PROVE tx'[q].own # None
    BY <1>1, <2>1, Zenon
  <2>2. ASSUME NEW q \in Procs, tx'[q].pc = "c_auth", q # p PROVE tx'[q].own # None
    <3>1. tx'[q] = tx[q]
      BY <1>1, <2>2, Zenon
    <3> QED
      BY <2>2, <3>1, Zenon DEF RowsOK
  <2> QED
    BY <2>1, <2>2, Zenon
<1> QED
  BY <1>2, <1>3, <1>4, <1>5, Zenon DEF RowsOK

\* A step of p that leaves the rows themselves alone: p goes on with its own.
LEMMA RowsStay ==
    ASSUME TypeOK, RowsOK, NEW p \in Procs, Others(p), row' = row,
           \A i \in Intents : status'[i] = "absent" <=> status[i] = "absent",
           Inserting(p)' => Inserting(p) /\ tx'[p].cur = tx[p].cur,
           Cancelling(p)' => /\ tx'[p].cur \in Intents /\ status'[tx'[p].cur] # "absent",
           tx'[p].pc = "c_auth" => tx'[p].own \in Owners
    PROVE  RowsOK'
<1>1. \A q \in Procs : Inserting(q) \/ Cancelling(q) => tx[q].cur \in Intents
  <2>1. \A q \in Procs : tx[q].cur \in Intents \cup {None}
    BY DEF TypeOK, Tx
  <2>2. \A q \in Procs : Inserting(q) \/ Cancelling(q) => tx[q].cur # None
    BY Zenon DEF RowsOK
  <2> QED
    BY ONLY <2>1, <2>2
<1>2. \A i \in Intents : status'[i] # "absent" => row'[i] # None
  BY Zenon DEF RowsOK
<1>3. \A q \in Procs : Inserting(q) =>
        tx[q].cur # None /\ row'[tx[q].cur] # None /\ status'[tx[q].cur] = "absent"
  BY <1>1, Zenon DEF RowsOK
<1>4. \A q \in Procs : Cancelling(q) => status'[tx[q].cur] # "absent"
  BY <1>1, Zenon DEF RowsOK
<1>5. Inserting(p)' =>
        /\ tx'[p].cur # None /\ row'[tx'[p].cur] # None /\ status'[tx'[p].cur] = "absent"
        /\ \A q \in Procs \ {p} : Inserting(q) => tx[q].cur # tx'[p].cur
  BY <1>3, Zenon DEF RowsOK
<1>6. tx'[p].cur \in Intents => tx'[p].cur # None
  BY CoreAssumption
<1>7. tx'[p].own \in Owners => tx'[p].own # None
  BY CoreAssumption
<1> QED
  BY <1>2, <1>3, <1>4, <1>5, <1>6, <1>7, RowsKept

\* A handler that ends and leaves the rows alone.
LEMMA RowsEnd ==
    ASSUME TypeOK, RowsOK, NEW p \in Procs, tx' = [tx EXCEPT ![p] = Idle], row' = row,
           \A i \in Intents : status'[i] = "absent" <=> status[i] = "absent"
    PROVE  RowsOK'
<1>1. Others(p) /\ tx'[p].pc = "idle"
  BY Ends
<1>2. ~ Inserting(p)' /\ ~ Cancelling(p)' /\ tx'[p].pc # "c_auth"
  BY ONLY <1>1 DEF Inserting, Subscribing, Cancelling
<1> QED
  BY <1>1, <1>2, RowsStay

\* A handler that only changes its place, within a creation, a cancellation or a
\* dispatch, and leaves the rows alone.
LEMMA RowsAdvance ==
    ASSUME TypeOK, RowsOK, NEW p \in Procs, NEW pc, tx' = [tx EXCEPT ![p].pc = pc], row' = row,
           \A i \in Intents : status'[i] = "absent" <=> status[i] = "absent",
           \/ Inserting(p) /\ pc \in {"c_subscribed", "c_armed", "c_ready"}
           \/ Cancelling(p) /\ pc \in {"x_read", "x_cancelled", "x_unneeded"}
           \/ pc = "d_swept"
    PROVE  RowsOK'
<1>1. Others(p) /\ tx'[p].pc = pc /\ tx'[p].cur = tx[p].cur
  BY Advances
<1>2. /\ Inserting(p)' => Inserting(p)
      /\ Cancelling(p)' => Cancelling(p)
      /\ tx'[p].pc # "c_auth"
  BY <1>1 DEF Inserting, Subscribing, Cancelling
<1>3. Cancelling(p) => tx[p].cur \in Intents /\ status[tx[p].cur] # "absent"
  BY DEF TypeOK, Tx, RowsOK
<1> QED
  BY <1>1, <1>2, <1>3, RowsStay, Zenon

\* Every step keeps committed and uncommitted rows apart.
LEMMA RowsNext ==
    ASSUME TypeOK, RowsOK, HandlersOK, [Next]_vars
    PROVE  RowsOK'
<1>lc. \A i \in Intents : LifecycleRun[i] = "absent" <=> status[i] = "absent"
  BY LifecycleFacts DEF Open, CANCELLABLE_STATUSES
<1>cur. \A p \in Procs : Inserting(p) \/ Cancelling(p) => tx[p].cur \in Intents
  BY DEF TypeOK, Tx, RowsOK
<1>same. ASSUME UNCHANGED <<row, tx>>,
                \A i \in Intents : status'[i] = "absent" <=> status[i] = "absent"
         PROVE  RowsOK'
  BY <1>same, <1>cur, Zenon DEF RowsOK, Inserting, Subscribing, Cancelling
<1>1. ASSUME NEW p \in Procs, ReadIntents(p) PROVE RowsOK'
  BY <1>1, <1>lc, <1>same, Zenon DEF ReadIntents
<1>2. ASSUME NEW p \in Procs, NEW o \in Owners, BeginCreate(p, o) PROVE RowsOK'
  <2>1. Others(p) /\ tx'[p].pc = "c_auth" /\ tx'[p].own = o
    BY <1>2, CreateBegins
  <2>2. ~ Inserting(p)' /\ ~ Cancelling(p)'
    BY ONLY <2>1 DEF Inserting, Subscribing, Cancelling
  <2>3. UNCHANGED <<row, status>>
    BY <1>2, Zenon DEF BeginCreate, db
  <2> QED
    BY <2>1, <2>2, <2>3, RowsStay
<1>3. ASSUME NEW p \in Procs, NEW i \in Intents, NEW s \in Symbols, NEW k \in Keys,
             CreateInsert(p, i, s, k) PROVE RowsOK'
  <2>1. Others(p) /\ tx'[p].pc = "c_inserted" /\ tx'[p].cur = i
    BY <1>3, CreateInserts
  <2>2. row[i] = None /\ status[i] = "absent"
    BY <1>3 DEF CreateInsert, RowsOK
  <2>3. NewRow(tx[p].own, s, k) # None
    <3>1. tx[p].own \in Owners
      BY <1>3 DEF CreateInsert, Ready, TypeOK, Tx, RowsOK
    <3>2. now \in Nat
      BY CoreAssumption DEF TypeOK
    <3>3. NewRow(tx[p].own, s, k) \in Rows
      BY <3>1, <3>2, TradingDateNotPast DEF NewRow, Rows
    <3> QED
      BY <3>3, CoreAssumption
  <2>4. /\ status' = status
        /\ row'[i] # None /\ \A j \in Intents \ {i} : row'[j] = row[j]
    BY <1>3, <2>3 DEF CreateInsert, TypeOK
  <2>5. \A q \in Procs : Inserting(q) => tx[q].cur # i
    BY <2>2, Zenon DEF RowsOK
  <2>6. \A q \in Procs : Inserting(q) => row'[tx[q].cur] # None /\ status'[tx[q].cur] = "absent"
    BY <2>4, <2>5, <1>cur, Zenon DEF RowsOK
  <2>7. \A q \in Procs : Cancelling(q) => status'[tx[q].cur] # "absent"
    BY <2>4, Zenon DEF RowsOK
  <2>8. \A j \in Intents : status'[j] # "absent" => row'[j] # None
    BY <2>2, <2>4, Zenon DEF RowsOK
  <2>9. i # None /\ ~ Cancelling(p)' /\ tx'[p].pc # "c_auth"
    BY <2>1, CoreAssumption DEF Cancelling
  <2> QED
    BY <2>1, <2>2, <2>4, <2>5, <2>6, <2>7, <2>8, <2>9, RowsKept
<1>4. ASSUME NEW p \in Procs, CreateReject(p) PROVE RowsOK'
  BY <1>4, RowsEnd DEF CreateReject, db
<1>5. ASSUME NEW p \in Procs, CreateSubscribe(p) \/ CreateCheck(p) PROVE RowsOK'
  <2>1. Inserting(p) /\ UNCHANGED <<row, status>>
    BY <1>5 DEF CreateSubscribe, CreateCheck, Ready, Inserting, Subscribing, db
  <2>2. PICK pc \in {"c_subscribed", "c_armed", "c_ready"} : tx' = [tx EXCEPT ![p].pc = pc]
    BY <1>5 DEF CreateSubscribe, CreateCheck
  <2> QED
    BY <2>1, <2>2, RowsAdvance
<1>6. ASSUME NEW p \in Procs, CreateFire(p) PROVE RowsOK'
  <2>1. Others(p) /\ tx'[p].pc = "c_ready" /\ tx'[p].cur = tx[p].cur
    BY <1>6, CreateFires
  <2>2. Inserting(p) /\ UNCHANGED <<row, status>>
    BY <1>6 DEF CreateFire, Ready, Inserting, Subscribing, db
  <2>3. ~ Cancelling(p)' /\ tx'[p].pc # "c_auth"
    BY ONLY <2>1 DEF Cancelling
  <2> QED
    BY <2>1, <2>2, <2>3, RowsStay
<1>7. ASSUME NEW p \in Procs, CreateCommit(p) PROVE RowsOK'
  <2>1. Inserting(p) /\ tx' = [tx EXCEPT ![p] = Idle] /\ UNCHANGED row
    BY <1>7, Zenon DEF CreateCommit, Ready, Inserting, Subscribing
  <2>2. \A i \in Intents : i # tx[p].cur => status'[i] = status[i]
    BY <1>7 DEF CreateCommit, TypeOK
  <2>3. row[tx[p].cur] # None /\ status[tx[p].cur] = "absent"
    BY <2>1, Zenon DEF RowsOK
  <2>4. \A i \in Intents : status'[i] # "absent" => row'[i] # None
    BY <2>1, <2>2, <2>3, Zenon DEF RowsOK
  <2>5. \A q \in Procs \ {p} : Inserting(q) => tx[q].cur # tx[p].cur
    BY <2>1, Zenon DEF RowsOK
  <2>6. \A q \in Procs \ {p} : Inserting(q) => row'[tx[q].cur] # None /\ status'[tx[q].cur] = "absent"
    BY <2>1, <2>2, <2>5, <1>cur, Zenon DEF RowsOK
  <2>7. \A q \in Procs \ {p} : Cancelling(q) => status'[tx[q].cur] # "absent"
    BY <2>2, <2>3, <1>cur, Zenon DEF RowsOK
  <2>8. Others(p) /\ tx'[p].pc = "idle"
    BY <2>1, Ends
  <2>9. ~ Inserting(p)' /\ ~ Cancelling(p)' /\ tx'[p].pc # "c_auth"
    BY ONLY <2>8 DEF Inserting, Subscribing, Cancelling
  <2> QED
    BY <2>4, <2>6, <2>7, <2>8, <2>9, RowsKept
<1>8. ASSUME NEW p \in Procs, NEW i \in Intents, CancelBegin(p, i) PROVE RowsOK'
  <2>1. Others(p) /\ tx'[p].pc = "x_swept" /\ tx'[p].cur = i
    BY <1>8, CancelBegins
  <2>2. status[i] # "absent" /\ status' = LifecycleRun /\ UNCHANGED row
    BY <1>8, Zenon DEF CancelBegin
  <2>3. ~ Inserting(p)' /\ tx'[p].pc # "c_auth"
    BY ONLY <2>1 DEF Inserting, Subscribing
  <2> QED
    BY <2>1, <2>2, <2>3, <1>lc, RowsStay
<1>9. ASSUME NEW p \in Procs, CancelRead(p) PROVE RowsOK'
  <2>1. Cancelling(p) /\ UNCHANGED <<row, status>>
    BY <1>9 DEF CancelRead, Ready, Cancelling, db
  <2>2. CASE tx' = [tx EXCEPT ![p] = Idle]
    BY <2>1, <2>2, RowsEnd
  <2>3. ASSUME NEW pc \in {"x_read", "x_cancelled"}, tx' = [tx EXCEPT ![p].pc = pc] PROVE RowsOK'
    BY <2>1, <2>3, RowsAdvance
  <2> QED
    BY <1>9, <2>2, <2>3 DEF CancelRead
<1>10. ASSUME NEW p \in Procs, CancelWrite(p) PROVE RowsOK'
  <2>1. Cancelling(p) /\ UNCHANGED row /\ tx' = [tx EXCEPT ![p].pc = "x_cancelled"]
    BY <1>10 DEF CancelWrite, Ready, Cancelling
  <2>2. tx[p].cur \in Intents /\ status[tx[p].cur] # "absent"
    BY <2>1, <1>cur, Zenon DEF RowsOK
  <2>3. \A i \in Intents : status'[i] = "absent" <=> status[i] = "absent"
    BY <1>10, <2>2 DEF CancelWrite, TypeOK
  <2> QED
    BY <2>1, <2>3, RowsAdvance
<1>11. ASSUME NEW p \in Procs, CancelCount(p) PROVE RowsOK'
  <2>1. Cancelling(p) /\ UNCHANGED <<row, status>>
    BY <1>11 DEF CancelCount, Ready, Cancelling, db
  <2>2. CASE tx' = [tx EXCEPT ![p] = Idle]
    BY <2>1, <2>2, RowsEnd
  <2>3. CASE tx' = [tx EXCEPT ![p].pc = "x_unneeded"]
    BY <2>1, <2>3, RowsAdvance
  <2> QED
    BY <1>11, <2>2, <2>3, Zenon DEF CancelCount
<1>12. ASSUME NEW p \in Procs, CancelUnsubscribe(p) PROVE RowsOK'
  BY <1>12, RowsEnd DEF CancelUnsubscribe, db
<1>13. ASSUME NEW p \in Procs, NEW s \in Symbols, DispatchCheck(p, s) PROVE RowsOK'
  <2>1. Others(p) /\ tx'[p].pc = "d_checked"
    BY <1>13, DispatchBegins
  <2>2. ~ Inserting(p)' /\ ~ Cancelling(p)' /\ tx'[p].pc # "c_auth"
    BY ONLY <2>1 DEF Inserting, Subscribing, Cancelling
  <2>3. UNCHANGED <<row, status>>
    BY <1>13, Zenon DEF DispatchCheck, db
  <2> QED
    BY <2>1, <2>2, <2>3, RowsStay
<1>14. ASSUME NEW p \in Procs, DispatchLifecycle(p) PROVE RowsOK'
  <2>1. tx' = [tx EXCEPT ![p].pc = "d_swept"] /\ status' = LifecycleRun /\ UNCHANGED row
    BY <1>14, Zenon DEF DispatchLifecycle
  <2> QED
    BY <2>1, <1>lc, RowsAdvance
<1>15. ASSUME NEW p \in Procs, Others(p), tx'[p].pc = "d_loop", UNCHANGED <<row, status>>
       PROVE  RowsOK'
  <2>1. ~ Inserting(p)' /\ ~ Cancelling(p)' /\ tx'[p].pc # "c_auth"
    BY ONLY <1>15 DEF Inserting, Subscribing, Cancelling
  <2> QED
    BY <1>15, <2>1, RowsStay
<1>16. ASSUME NEW p \in Procs, DispatchList(p) PROVE RowsOK'
  BY <1>15, <1>16, DispatchLists DEF DispatchList, db
<1>17. ASSUME NEW p \in Procs, NEW i \in Intents,
              DispatchSkip(p, i) \/ DispatchBaseline(p, i) \/ DispatchFire(p, i)
       PROVE  RowsOK'
  BY <1>15, <1>17, DispatchLoops DEF db
<1>18. ASSUME NEW p \in Procs, DispatchCommit(p) PROVE RowsOK'
  <2>1. \A i \in tx[p].fired : status[i] = "active"
    BY <1>18, Zenon DEF DispatchCommit, Ready, HandlersOK, ThreadOK
  <2>2. \A i \in Intents : status'[i] = "absent" <=> status[i] = "absent"
    BY <1>18, <2>1 DEF DispatchCommit
  <2>3. tx' = [tx EXCEPT ![p] = Idle] /\ UNCHANGED row
    BY <1>18, Zenon DEF DispatchCommit
  <2> QED
    BY <2>2, <2>3, RowsEnd
<1>19. ASSUME NEW p \in Procs, Abort(p) PROVE RowsOK'
  <2>1. /\ tx' = [tx EXCEPT ![p] = Idle] /\ UNCHANGED status
        /\ \A i \in Intents : row'[i] = IF Inserting(p) /\ i = tx[p].cur THEN None ELSE row[i]
    BY <1>19 DEF Abort
  <2>2. \A i \in Intents : status'[i] # "absent" => row'[i] # None
    BY <2>1, Zenon DEF RowsOK
  <2>3. \A q \in Procs \ {p} : Inserting(q) => row'[tx[q].cur] # None /\ status'[tx[q].cur] = "absent"
    BY <2>1, <1>cur, Zenon DEF RowsOK
  <2>4. \A q \in Procs : Cancelling(q) => status'[tx[q].cur] # "absent"
    BY <2>1, Zenon DEF RowsOK
  <2>5. Others(p) /\ tx'[p].pc = "idle"
    BY <2>1, Ends
  <2>6. ~ Inserting(p)' /\ ~ Cancelling(p)' /\ tx'[p].pc # "c_auth"
    BY ONLY <2>5 DEF Inserting, Subscribing, Cancelling
  <2> QED
    BY <2>2, <2>3, <2>4, <2>5, <2>6, RowsKept
<1>20. CASE Crash
  <2>1. \A q \in Procs : tx'[q].pc = "idle"
    BY <1>20 DEF Crash, Idle
  <2>2. \A i \in Inserted : status[i] = "absent"
    BY Zenon DEF RowsOK, Inserted
  <2>3. UNCHANGED status /\ row' = [i \in Intents |-> IF i \in Inserted THEN None ELSE row[i]]
    BY <1>20, Zenon DEF Crash
  <2>4. \A i \in Intents : status'[i] # "absent" => row'[i] # None
    BY ONLY <2>2, <2>3, RowsOK DEF RowsOK
  <2>5. \A q \in Procs : ~ Inserting(q)' /\ ~ Cancelling(q)' /\ tx'[q].pc # "c_auth"
    BY ONLY <2>1 DEF Inserting, Subscribing, Cancelling
  <2> QED
    BY <2>4, <2>5, Zenon DEF RowsOK
<1>21. CASE Boot
  BY <1>21, <1>lc, <1>same, Zenon DEF Boot
<1>22. ASSUME NEW p \in Procs, NEW o \in Owners, DisableUser(p, o) PROVE RowsOK'
  <2>1. \A i \in Intents : status'[i] = "absent" <=> status[i] = "absent"
    BY <1>22 DEF DisableUser, OpenOf, Open, CANCELLABLE_STATUSES
  <2> QED
    BY <1>22, <1>same, <2>1, Zenon DEF DisableUser
<1>23. ASSUME NEW p \in Procs, NEW o \in Owners, ReactivateUser(p, o) PROVE RowsOK'
  BY <1>23, <1>same, Zenon DEF ReactivateUser, db
<1>24. ASSUME NEW p \in Procs, SetKillSwitch(p) PROVE RowsOK'
  <2>1. \A q \in Procs : tx'[q].pc = tx[q].pc /\ tx'[q].own = tx[q].own /\ tx'[q].cur = tx[q].cur
    BY <1>24, Switches
  <2>2. UNCHANGED <<row, status>>
    BY <1>24, Zenon DEF SetKillSwitch, db
  <2>3. \A q \in Procs : (Inserting(q)' <=> Inserting(q)) /\ (Cancelling(q)' <=> Cancelling(q))
    BY ONLY <2>1 DEF Inserting, Subscribing, Cancelling
  <2> QED
    <3>1. \A i \in Intents : status'[i] # "absent" => row'[i] # None
      BY <2>2, Zenon DEF RowsOK
    <3>2. \A q \in Procs : Inserting(q)' =>
            tx'[q].cur # None /\ row'[tx'[q].cur] # None /\ status'[tx'[q].cur] = "absent"
      BY <2>1, <2>2, <2>3, Zenon DEF RowsOK
    <3>3. \A q, u \in Procs : Inserting(q)' /\ Inserting(u)' /\ tx'[q].cur = tx'[u].cur => q = u
      BY <2>1, <2>3, Zenon DEF RowsOK
    <3>4. \A q \in Procs : tx'[q].pc = "c_auth" => tx'[q].own # None
      BY <2>1, Zenon DEF RowsOK
    <3>5. \A q \in Procs : Cancelling(q)' => tx'[q].cur # None /\ status'[tx'[q].cur] # "absent"
      BY <2>1, <2>2, <2>3, Zenon DEF RowsOK
    <3> QED
      BY <3>1, <3>2, <3>3, <3>4, <3>5, Zenon DEF RowsOK
<1>25. CASE Tick
  BY <1>25, <1>same, Zenon DEF Tick, db
<1>26. CASE UNCHANGED vars
  BY <1>26, <1>same, Zenon DEF vars
<1> QED
  BY <1>1, <1>2, <1>3, <1>4, <1>5, <1>6, <1>7, <1>8, <1>9, <1>10, <1>11, <1>12,
     <1>13, <1>14, <1>16, <1>17, <1>18, <1>19, <1>20, <1>21, <1>22, <1>23, <1>24,
     <1>25, <1>26 DEF Next, Create, Cancel, Dispatch, Admin

-----------------------------------------------------------------------------
(* Handlers in progress *)

\* Clocks are natural numbers.
LEMMA HandlerClocks ==
    ASSUME TypeOK
    PROVE  now \in Nat /\ \A p \in Procs : tx[p].at \in Nat
<1>1. Instants \cup {0} \subseteq Nat
  BY CoreAssumption
<1>2. \A p \in Procs : tx[p].at \in Instants \cup {0}
  BY DEF TypeOK, Tx
<1> QED
  BY <1>1, <1>2 DEF TypeOK

\* Instants are not the mark of an absent trigger row.
LEMMA ClocksAreTimes ==
    ASSUME TypeOK
    PROVE  \A p \in Procs : tx[p].at # NoTrigger
BY HandlerClocks DEF NoTrigger

\* The clock does not run back.
LEMMA ClockStays ==
    ASSUME TypeOK, now' = now
    PROVE  now' \in Nat /\ now <= now'
BY HandlerClocks

LEMMA ClockRuns ==
    ASSUME TypeOK, Tick
    PROVE  now \in Nat /\ now' \in Nat /\ now <= now'
<1>1. now \in Nat
  BY HandlerClocks
<1>2. PICK t \in Instants : t > now /\ now' = t
  BY Zenon DEF Tick
<1>3. t \in Nat
  BY CoreAssumption
<1> QED
  BY ONLY <1>1, <1>2, <1>3

\* What a step leaves alone for the sake of all handlers: committed rows stay, an
\* intent that becomes active is not overdue or is committed now, and neither the
\* clock nor the switch surprises them.
Gentle ==
    /\ \A j \in Intents : status[j] # "absent" =>
           status'[j] # "absent" /\ row'[j] = row[j] /\ opened'[j] = opened[j]
    /\ \A j \in Intents : status'[j] = "active" =>
           \/ status[j] = "active"
           \/ row'[j].date \in Nat /\ DayOf(now) <= row'[j].date
           \/ opened'[j] = now
    /\ now' \in Nat /\ now <= now'
    /\ halt' => halt

\* What it leaves alone for the sake of the handler of thread q.
Spares(q) ==
    /\ \A j \in tx[q].held : status'[j] = status[j]
    /\ Inserting(q) => row'[tx[q].cur] = row[tx[q].cur]

\* A step that writes neither rows nor statuses.
LEMMA CalmStep ==
    ASSUME TypeOK, UNCHANGED <<now, halt, row, status, opened>>
    PROVE  Gentle /\ \A q \in Procs : Spares(q)
<1>1. now' \in Nat /\ now <= now'
  BY HandlerClocks
<1> QED
  BY <1>1, Zenon DEF Gentle, Spares

\* A lifecycle run of p changes no row that a dispatch holds, and what it activates
\* is not overdue.
LEMMA LifecycleStep ==
    ASSUME TypeOK, RowsOK, HandlersOK, NEW p \in Procs, tx[p].pc # "d_loop", LifecycleReady(p),
           status' = LifecycleRun, UNCHANGED <<now, halt, row, opened>>
    PROVE  Gentle /\ \A q \in Procs : Spares(q)
<1>1. ASSUME NEW q \in Procs, NEW i \in tx[q].held PROVE LifecycleRun[i] = status[i]
  <2>1. tx[p].held = {}
    BY Zenon DEF HandlersOK, ThreadOK
  <2>2. q # p /\ i \in Intents
    BY <2>1 DEF TypeOK, Tx
  <2> QED
    BY <2>2, Zenon DEF LifecycleReady, Free
<1>2. \A q \in Procs : Spares(q)
  BY <1>1, Zenon DEF Spares
<1>3. \A i \in Intents : LifecycleRun[i] = "absent" <=> status[i] = "absent"
  BY LifecycleFacts DEF Open, CANCELLABLE_STATUSES
<1>4. \A i \in Intents : status'[i] = "active" => Open(i) /\ DayOf(now) <= row[i].date
  BY LifecycleFacts DEF CANCELLABLE_STATUSES
<1>5. \A i \in Intents : Open(i) => row[i].date \in Nat
  BY DEF TypeOK, RowsOK, Open, CANCELLABLE_STATUSES, Rows
<1>6. now' \in Nat /\ now <= now'
  BY ClockStays, Zenon
<1> QED
  BY <1>2, <1>3, <1>4, <1>5, <1>6, Zenon DEF Gentle

\* A handler that is spared and takes no step keeps what it relies on.
LEMMA SparedThread ==
    ASSUME TypeOK, NEW q \in Procs, ThreadOK(q), tx'[q] = tx[q], Gentle, Spares(q)
    PROVE  ThreadOK(q)'
<1>0. PICK r : tx[q] = r /\ tx'[q] = r
  OBVIOUS
<1>1. /\ r.todo \subseteq Intents /\ r.held \subseteq Intents
      /\ now \in Nat /\ r.at \in Nat
  BY <1>0, HandlerClocks DEF TypeOK, Tx
<1>2. now' \in Nat /\ now <= now' /\ (halt' => halt)
  BY DEF Gentle
<1>3. /\ Timed(q)' <=> Timed(q)
      /\ Inserting(q)' <=> Inserting(q)
      /\ Armed(q)' <=> Armed(q)
  BY <1>0, Zenon DEF Timed, Inserting, Subscribing, Dispatching, Armed
<1>4. Timed(q)' => r.at <= now'
  <2>1. Timed(q) => r.at <= now
    BY <1>0, Zenon DEF ThreadOK
  <2> QED
    BY ONLY <1>1, <1>2, <1>3, <2>1
<1>5. \A i \in Intents : status[i] # "absent" /\ InTime(i, r.at) =>
        DayOf(r.at) <= row'[i].date \/ r.at <= opened'[i]
  BY Zenon DEF Gentle, InTime
<1>6. r.pc = "d_loop" =>
        /\ \A i \in r.fired : i \in r.held /\ i \notin r.todo /\ status'[i] = "active"
        /\ \A i \in r.todo \cup r.held :
               status'[i] # "absent" /\ (DayOf(r.at) <= row'[i].date \/ r.at <= opened'[i])
  <2>1. r.pc = "d_loop" =>
          /\ \A i \in r.fired : i \in r.held /\ i \notin r.todo /\ status[i] = "active"
          /\ \A i \in r.todo \cup r.held : status[i] # "absent" /\ InTime(i, r.at)
    BY <1>0, Zenon DEF ThreadOK
  <2>2. \A i \in r.held : status'[i] = status[i]
    BY <1>0, Zenon DEF Spares
  <2>3. \A i \in Intents : status[i] # "absent" => status'[i] # "absent"
    BY Zenon DEF Gentle
  <2>4. \A i \in r.todo \cup r.held : i \in Intents
    BY <1>1
  <2> QED
    BY ONLY <1>5, <2>1, <2>2, <2>3, <2>4, Zenon
<1>7. Inserting(q)' => DayOf(r.at) <= row'[r.cur].date
  BY <1>0, <1>3, Zenon DEF ThreadOK, Spares
<1>8. r.pc = "d_swept" => \A i \in Intents : status'[i] = "active" =>
        DayOf(r.at) <= row'[i].date \/ r.at <= opened'[i]
  <2> SUFFICES ASSUME r.pc = "d_swept", NEW i \in Intents, status'[i] = "active"
               PROVE  DayOf(r.at) <= row'[i].date \/ r.at <= opened'[i]
    OBVIOUS
  <2>1. r.at <= now
    BY <1>0 DEF ThreadOK, Timed, Dispatching
  <2>2. CASE status[i] = "active"
    <3>1. InTime(i, r.at)
      BY <1>0, <2>2 DEF ThreadOK
    <3> QED
      BY <1>5, <2>2, <3>1
  <2>3. CASE row'[i].date \in Nat /\ DayOf(now) <= row'[i].date
    <3>1. DayOf(r.at) \in Nat /\ DayOf(now) \in Nat /\ DayOf(r.at) <= DayOf(now)
      BY <1>1, <2>1, DayOfNat, DayOfMonotone
    <3> QED
      BY ONLY <2>3, <3>1
  <2>4. CASE opened'[i] = now
    BY ONLY <2>1, <2>4
  <2> QED
    BY <2>2, <2>3, <2>4, Zenon DEF Gentle
<1>9. halt' /\ Armed(q)' => r.past
  BY <1>0, <1>2, <1>3, Zenon DEF ThreadOK
<1>10. /\ r.pc # "d_loop" => r.held = {} /\ r.todo = {}
       /\ r.pc \notin {"d_loop", "c_ready"} => r.fired = {}
       /\ r.pc = "c_ready" => r.fired \subseteq {r.cur}
       /\ \A i \in r.fired : is_within_regular_session(r.at)
       /\ r.pc = "c_armed" => is_within_regular_session(r.at)
  BY <1>0, Zenon DEF ThreadOK
<1> QED
  BY ONLY <1>0, <1>4, <1>6, <1>7, <1>8, <1>9, <1>10, Zenon DEF ThreadOK, InTime

\* A step of thread p: the others are spared, p takes only free locks.
LEMMA ThreadStep ==
    ASSUME TypeOK, HandlersOK, NEW p \in Procs, Others(p), Gentle,
           \A q \in Procs \ {p} : Spares(q),
           \A q \in Procs \ {p} : \A i \in tx'[p].held : i \notin tx[q].held,
           ThreadOK(p)', up'
    PROVE  HandlersOK'
<1>1. \A q \in Procs : ThreadOK(q)'
  BY SparedThread, Zenon DEF HandlersOK, Others
<1>2. LocksOK'
  BY DEF LocksOK, HandlersOK, Others
<1> QED
  BY <1>1, <1>2, Zenon DEF HandlersOK

\* A handler without rows of its own relies on nothing.
LEMMA RestingThread ==
    ASSUME NEW p \in Procs,
           tx'[p].pc \in {"idle", "c_auth", "x_swept", "x_read", "x_cancelled", "x_unneeded"},
           tx'[p].todo = {}, tx'[p].held = {}, tx'[p].fired = {}
    PROVE  ThreadOK(p)'
<1>1. /\ ~ Inserting(p)' /\ ~ Dispatching(p)' /\ ~ Armed(p)'
      /\ tx'[p].pc \notin {"d_loop", "d_swept", "c_ready", "c_armed"}
  BY DEF Inserting, Subscribing, Dispatching, Armed
<1>2. ~ Timed(p)'
  BY <1>1, Zenon DEF Timed
<1> QED
  BY <1>1, <1>2 DEF ThreadOK

\* A step after which p rests.
LEMMA RestingStep ==
    ASSUME TypeOK, HandlersOK, NEW p \in Procs, Others(p), Gentle,
           \A q \in Procs \ {p} : Spares(q), up',
           tx'[p].pc \in {"idle", "c_auth", "x_swept", "x_read", "x_cancelled", "x_unneeded"},
           tx'[p].todo = {}, tx'[p].held = {}, tx'[p].fired = {}
    PROVE  HandlersOK'
<1>1. ThreadOK(p)'
  BY RestingThread
<1>2. \A q \in Procs \ {p} : \A i \in tx'[p].held : i \notin tx[q].held
  OBVIOUS
<1> QED
  BY <1>1, <1>2, ThreadStep

\* What a creation relies on.
LEMMA CreatingThread ==
    ASSUME NEW p \in Procs,
           tx'[p].pc \in {"c_inserted", "c_subscribed", "c_armed", "c_ready"},
           tx'[p].todo = {}, tx'[p].held = {}, tx'[p].fired \subseteq {tx'[p].cur},
           tx'[p].pc # "c_ready" => tx'[p].fired = {},
           \A i \in tx'[p].fired : is_within_regular_session(tx'[p].at),
           tx'[p].pc = "c_armed" => is_within_regular_session(tx'[p].at) /\ ~ halt',
           tx'[p].at <= now', DayOf(tx'[p].at) <= row'[tx'[p].cur].date
    PROVE  ThreadOK(p)'
<1>1. /\ tx'[p].pc \notin {"d_loop", "d_swept"}
      /\ Armed(p)' => tx'[p].pc = "c_armed"
  BY DEF Armed
<1> QED
  BY <1>1 DEF ThreadOK

\* What a dispatch relies on.
LEMMA DispatchingThread ==
    ASSUME NEW p \in Procs, tx'[p].pc \in {"d_checked", "d_swept", "d_loop"},
           tx'[p].pc # "d_loop" => tx'[p].todo = {} /\ tx'[p].held = {} /\ tx'[p].fired = {},
           \A i \in tx'[p].fired :
               /\ i \in tx'[p].held /\ i \notin tx'[p].todo /\ status'[i] = "active"
               /\ is_within_regular_session(tx'[p].at),
           tx'[p].at <= now',
           tx'[p].pc = "d_swept" =>
               \A i \in Intents : status'[i] = "active" => InTime(i, tx[p].at)',
           \A i \in tx'[p].todo \cup tx'[p].held : status'[i] # "absent" /\ InTime(i, tx[p].at)',
           halt' => tx'[p].past
    PROVE  ThreadOK(p)'
<1>1. tx'[p].pc \notin {"c_armed", "c_ready"} /\ ~ Inserting(p)'
  BY DEF Inserting, Subscribing
<1> QED
  BY <1>1 DEF ThreadOK

\* Every step keeps what the handlers in progress rely on.
LEMMA HandlersNext ==
    ASSUME TypeOK, RowsOK, HandlersOK, [Next]_vars
    PROVE  HandlersOK'
<1>cur. \A q \in Procs : Inserting(q) => tx[q].cur \in Intents /\ status[tx[q].cur] = "absent"
  BY DEF TypeOK, Tx, RowsOK
<1>empty. \A q \in Procs : tx[q].pc \notin {"d_loop", "c_ready"} =>
            tx[q].todo = {} /\ tx[q].held = {} /\ tx[q].fired = {}
  BY Zenon DEF HandlersOK, ThreadOK
<1>same. ASSUME UNCHANGED <<tx, up>>, Gentle, \A q \in Procs : Spares(q) PROVE HandlersOK'
  <2>1. \A q \in Procs : ThreadOK(q)'
    BY <1>same, SparedThread, Zenon DEF HandlersOK
  <2>2. LocksOK'
    BY <1>same, Zenon DEF HandlersOK, LocksOK
  <2> QED
    BY <2>1, <2>2, Zenon DEF HandlersOK
<1>ends. ASSUME NEW p \in Procs, tx' = [tx EXCEPT ![p] = Idle], up', Gentle,
                \A q \in Procs \ {p} : Spares(q)
         PROVE  HandlersOK'
  BY <1>ends, Ends, RestingStep
<1>1. ASSUME NEW p \in Procs, ReadIntents(p) PROVE HandlersOK'
  <2>1. /\ tx[p].pc # "d_loop" /\ LifecycleReady(p) /\ status' = LifecycleRun
        /\ UNCHANGED <<now, up, halt, row, opened, tx>>
    BY <1>1 DEF ReadIntents, Ready, seen
  <2> QED
    BY <2>1, <1>same, LifecycleStep
<1>2. ASSUME NEW p \in Procs, NEW o \in Owners, BeginCreate(p, o) PROVE HandlersOK'
  <2>1. up' /\ UNCHANGED <<now, halt, row, status, opened>>
    BY <1>2, Zenon DEF BeginCreate, Ready, db, seen
  <2> QED
    BY <1>2, <2>1, CalmStep, CreateBegins, RestingStep
<1>3. ASSUME NEW p \in Procs, NEW i \in Intents, NEW s \in Symbols, NEW k \in Keys,
             CreateInsert(p, i, s, k) PROVE HandlersOK'
  <2>1. /\ tx[p].pc = "c_auth" /\ up' /\ row[i] = None
        /\ row' = [row EXCEPT ![i] = NewRow(tx[p].own, s, k)]
        /\ UNCHANGED <<now, halt, status, opened>>
    BY <1>3, Zenon DEF CreateInsert, Ready, seen
  <2>2. status[i] = "absent"
    BY <2>1, Zenon DEF RowsOK
  <2>3. row'[i] = NewRow(tx[p].own, s, k) /\ \A j \in Intents \ {i} : row'[j] = row[j]
    BY <2>1 DEF TypeOK
  <2>4. now' \in Nat /\ now <= now' /\ now \in Nat
    BY <2>1, HandlerClocks, ClockStays, Zenon
  <2>5. Gentle
    BY <2>1, <2>2, <2>3, <2>4, Zenon DEF Gentle
  <2>6. \A q \in Procs : Spares(q)
    <3>1. \A q \in Procs : Inserting(q) => tx[q].cur # i
      BY <2>1, Zenon DEF RowsOK
    <3> QED
      BY <2>1, <2>3, <3>1, <1>cur, Zenon DEF Spares
  <2>7. /\ Others(p) /\ tx'[p].pc = "c_inserted" /\ tx'[p].cur = i /\ tx'[p].at = now
        /\ tx'[p].todo = {} /\ tx'[p].held = {} /\ tx'[p].fired = {}
    BY <1>3, <2>1, <1>empty, CreateInserts
  <2>8. DayOf(now) <= row'[i].date
    <3>1. NewRow(tx[p].own, s, k).date = get_day_intent_trading_date(now)
      BY ONLY DEF NewRow
    <3>2. DayOf(now) <= get_day_intent_trading_date(now)
      BY <2>4, TradingDateNotPast, Zenon
    <3> QED
      BY <2>3, <3>1, <3>2, Zenon
  <2>9. ThreadOK(p)'
    BY <2>4, <2>7, <2>8, CreatingThread
  <2> QED
    BY <2>1, <2>5, <2>6, <2>7, <2>9, ThreadStep
<1>4. ASSUME NEW p \in Procs, CreateReject(p) PROVE HandlersOK'
  <2>1. tx' = [tx EXCEPT ![p] = Idle] /\ up' /\ UNCHANGED <<now, halt, row, status, opened>>
    BY <1>4, Zenon DEF CreateReject, Ready, db, seen
  <2> QED
    BY <2>1, CalmStep, <1>ends
<1>5. ASSUME NEW p \in Procs, CreateSubscribe(p) \/ CreateCheck(p) PROVE HandlersOK'
  <2>1. /\ Inserting(p) /\ tx[p].pc \in {"c_inserted", "c_subscribed"}
        /\ up' /\ UNCHANGED <<now, halt, row, status, opened>>
    BY <1>5 DEF CreateSubscribe, CreateCheck, Ready, Inserting, Subscribing, db, seen
  <2>2. PICK pc \in {"c_subscribed", "c_armed", "c_ready"} :
          /\ tx' = [tx EXCEPT ![p].pc = pc]
          /\ pc = "c_armed" => get_initial_day_intent_status(tx[p].at) = "active" /\ ~ halt
    BY <1>5 DEF CreateSubscribe, CreateCheck
  <2>3. /\ Others(p) /\ tx'[p].pc = pc /\ tx'[p].cur = tx[p].cur /\ tx'[p].at = tx[p].at
        /\ tx'[p].todo = {} /\ tx'[p].held = {} /\ tx'[p].fired = {}
    <3>1. tx[p].todo = {} /\ tx[p].held = {} /\ tx[p].fired = {}
      BY <2>1, <1>empty
    <3>2. /\ Others(p) /\ tx'[p].pc = pc /\ tx'[p].cur = tx[p].cur /\ tx'[p].at = tx[p].at
          /\ tx'[p].todo = tx[p].todo /\ tx'[p].held = tx[p].held /\ tx'[p].fired = tx[p].fired
      BY <2>2, Advances, Zenon
    <3> QED
      BY <3>1, <3>2, Zenon
  <2>4. pc = "c_armed" => is_within_regular_session(tx[p].at) /\ ~ halt
    BY ONLY <2>2 DEF get_initial_day_intent_status
  <2>5. tx[p].at <= now /\ DayOf(tx[p].at) <= row[tx[p].cur].date
    BY <2>1, Zenon DEF HandlersOK, ThreadOK, Timed
  <2>6. ThreadOK(p)'
    BY <2>1, <2>3, <2>4, <2>5, CreatingThread
  <2> QED
    BY <2>1, <2>3, <2>6, CalmStep, ThreadStep
<1>6. ASSUME NEW p \in Procs, CreateFire(p) PROVE HandlersOK'
  <2>1. /\ Inserting(p) /\ tx[p].pc = "c_armed"
        /\ up' /\ UNCHANGED <<now, halt, row, status, opened>>
    BY <1>6 DEF CreateFire, Ready, Inserting, Subscribing, db
  <2>2. /\ Others(p) /\ tx'[p].pc = "c_ready" /\ tx'[p].cur = tx[p].cur /\ tx'[p].at = tx[p].at
        /\ tx'[p].todo = {} /\ tx'[p].held = {} /\ tx'[p].fired \subseteq {tx[p].cur}
    BY <1>6, <2>1, <1>empty, CreateFires
  <2>3. /\ is_within_regular_session(tx[p].at)
        /\ tx[p].at <= now /\ DayOf(tx[p].at) <= row[tx[p].cur].date
    BY <2>1, Zenon DEF HandlersOK, ThreadOK, Timed
  <2>4. ThreadOK(p)'
    BY <2>1, <2>2, <2>3, CreatingThread
  <2> QED
    BY <2>1, <2>2, <2>4, CalmStep, ThreadStep
<1>7. ASSUME NEW p \in Procs, CreateCommit(p) PROVE HandlersOK'
  <2>1. /\ Inserting(p) /\ tx' = [tx EXCEPT ![p] = Idle] /\ up'
        /\ opened' = [opened EXCEPT ![tx[p].cur] = now] /\ UNCHANGED <<now, halt, row>>
    BY <1>7, Zenon DEF CreateCommit, Ready, Inserting, Subscribing
  <2>2. PICK c \in Intents : c = tx[p].cur /\ status[c] = "absent"
    BY <2>1, <1>cur
  <2>3. \A j \in Intents \ {c} : status'[j] = status[j] /\ opened'[j] = opened[j]
    BY <1>7, <2>2 DEF CreateCommit, TypeOK
  <2>4. opened'[c] = now
    BY <2>1, <2>2 DEF TypeOK
  <2>5. Gentle
    <3>1. now' \in Nat /\ now <= now'
      BY <2>1, ClockStays, Zenon
    <3> QED
      BY <2>1, <2>2, <2>3, <2>4, <3>1, Zenon DEF Gentle
  <2>6. \A q \in Procs : Spares(q)
    <3>1. \A q \in Procs : \A j \in tx[q].held : j \in Intents /\ j # c
      <4>1. \A q \in Procs : \A j \in tx[q].held : status[j] # "absent"
        BY Zenon DEF HandlersOK, ThreadOK
      <4>2. \A q \in Procs : \A j \in tx[q].held : j \in Intents
        BY DEF TypeOK, Tx
      <4> QED
        BY <2>2, <4>1, <4>2, Zenon
    <3> QED
      BY <2>1, <2>3, <3>1, Zenon DEF Spares
  <2> QED
    BY <2>1, <2>5, <2>6, <1>ends
<1>8. ASSUME NEW p \in Procs, NEW i \in Intents, CancelBegin(p, i) PROVE HandlersOK'
  <2>1. /\ tx[p].pc # "d_loop" /\ LifecycleReady(p) /\ status' = LifecycleRun
        /\ up' /\ UNCHANGED <<now, halt, row, opened>>
    BY <1>8 DEF CancelBegin, Ready, seen
  <2> QED
    BY <1>8, <2>1, CancelBegins, LifecycleStep, RestingStep
<1>x. ASSUME NEW p \in Procs, NEW pc \in {"x_read", "x_cancelled", "x_unneeded"},
             Cancelling(p), tx' = [tx EXCEPT ![p].pc = pc], up', Gentle,
             \A q \in Procs \ {p} : Spares(q)
      PROVE  HandlersOK'
  <2>1. tx[p].pc \notin {"d_loop", "c_ready"}
    BY <1>x DEF Cancelling
  <2>2. /\ Others(p) /\ tx'[p].pc = pc
        /\ tx'[p].todo = {} /\ tx'[p].held = {} /\ tx'[p].fired = {}
    <3>1. Others(p) /\ tx'[p].pc = pc /\ tx'[p].todo = tx[p].todo
          /\ tx'[p].held = tx[p].held /\ tx'[p].fired = tx[p].fired
      BY <1>x, Advances, Zenon
    <3>2. tx[p].todo = {} /\ tx[p].held = {} /\ tx[p].fired = {}
      BY <2>1, <1>empty
    <3> QED
      BY <3>1, <3>2, Zenon
  <2> QED
    BY <1>x, <2>2, RestingStep
<1>9. ASSUME NEW p \in Procs, CancelRead(p) PROVE HandlersOK'
  <2>1. Cancelling(p) /\ up' /\ UNCHANGED <<now, halt, row, status, opened>>
    BY <1>9 DEF CancelRead, Ready, Cancelling, db, seen
  <2>2. Gentle /\ \A q \in Procs : Spares(q)
    BY <2>1, CalmStep
  <2>3. CASE tx' = [tx EXCEPT ![p] = Idle]
    BY <2>1, <2>2, <2>3, <1>ends
  <2>4. ASSUME NEW pc \in {"x_read", "x_cancelled"}, tx' = [tx EXCEPT ![p].pc = pc]
        PROVE  HandlersOK'
    BY <2>1, <2>2, <2>4, <1>x
  <2> QED
    BY <1>9, <2>3, <2>4 DEF CancelRead
<1>10. ASSUME NEW p \in Procs, CancelWrite(p) PROVE HandlersOK'
  <2>1. /\ Cancelling(p) /\ up' /\ Free(p, tx[p].cur)
        /\ tx' = [tx EXCEPT ![p].pc = "x_cancelled"]
        /\ status' = [status EXCEPT ![tx[p].cur] = "cancelled"]
        /\ UNCHANGED <<now, halt, row, opened>>
    BY <1>10 DEF CancelWrite, Ready, Cancelling, seen
  <2>2. \A j \in Intents : /\ j # tx[p].cur => status'[j] = status[j]
                           /\ status'[j] = "active" => status[j] = "active"
                           /\ status[j] # "absent" => status'[j] # "absent"
    BY <2>1 DEF TypeOK
  <2>3. Gentle
    <3>1. now' \in Nat /\ now <= now'
      BY <2>1, ClockStays, Zenon
    <3> QED
      BY <2>1, <2>2, <3>1, Zenon DEF Gentle
  <2>4. \A q \in Procs \ {p} : Spares(q)
    <3>1. \A q \in Procs : \A j \in tx[q].held : j \in Intents
      BY DEF TypeOK, Tx
    <3> QED
      BY <2>1, <2>2, <3>1, Zenon DEF Spares, Free
  <2> QED
    BY <2>1, <2>3, <2>4, <1>x
<1>11. ASSUME NEW p \in Procs, CancelCount(p) PROVE HandlersOK'
  <2>1. Cancelling(p) /\ up' /\ UNCHANGED <<now, halt, row, status, opened>>
    BY <1>11 DEF CancelCount, Ready, Cancelling, db, seen
  <2>2. Gentle /\ \A q \in Procs : Spares(q)
    BY <2>1, CalmStep
  <2>3. CASE tx' = [tx EXCEPT ![p] = Idle]
    BY <2>1, <2>2, <2>3, <1>ends
  <2>4. CASE tx' = [tx EXCEPT ![p].pc = "x_unneeded"]
    BY <2>1, <2>2, <2>4, <1>x
  <2> QED
    BY <1>11, <2>3, <2>4, Zenon DEF CancelCount
<1>12. ASSUME NEW p \in Procs, CancelUnsubscribe(p) PROVE HandlersOK'
  <2>1. tx' = [tx EXCEPT ![p] = Idle] /\ up' /\ UNCHANGED <<now, halt, row, status, opened>>
    BY <1>12, Zenon DEF CancelUnsubscribe, Ready, db
  <2> QED
    BY <2>1, CalmStep, <1>ends
<1>13. ASSUME NEW p \in Procs, NEW s \in Symbols, DispatchCheck(p, s) PROVE HandlersOK'
  <2>1. up' /\ ~ halt' /\ UNCHANGED <<now, halt, row, status, opened>>
    BY <1>13, Zenon DEF DispatchCheck, Ready, db, seen
  <2>2. /\ Others(p) /\ tx'[p].pc = "d_checked" /\ tx'[p].at = now
        /\ tx'[p].todo = {} /\ tx'[p].held = {} /\ tx'[p].fired = {}
    BY <1>13, DispatchBegins
  <2>3. tx'[p].at <= now'
    BY <2>1, <2>2, ClockStays, Zenon
  <2>4. ThreadOK(p)'
    BY <2>1, <2>2, <2>3, DispatchingThread
  <2> QED
    BY <2>1, <2>2, <2>4, CalmStep, ThreadStep
<1>14. ASSUME NEW p \in Procs, DispatchLifecycle(p) PROVE HandlersOK'
  <2>1. /\ tx[p].pc = "d_checked" /\ up' /\ LifecycleReady(p) /\ status' = LifecycleRun
        /\ tx' = [tx EXCEPT ![p].pc = "d_swept"] /\ UNCHANGED <<now, halt, row, opened>>
    BY <1>14, Zenon DEF DispatchLifecycle, Ready, seen
  <2>2. Gentle /\ \A q \in Procs : Spares(q)
    BY <2>1, LifecycleStep
  <2>3. /\ Others(p) /\ tx'[p].pc = "d_swept" /\ tx'[p].at = tx[p].at /\ tx'[p].past = tx[p].past
        /\ tx'[p].todo = {} /\ tx'[p].held = {} /\ tx'[p].fired = {}
    BY <2>1, <1>empty, Advances
  <2>4. tx[p].at <= now /\ (halt => tx[p].past)
    BY <2>1 DEF HandlersOK, ThreadOK, Timed, Dispatching, Armed
  <2>5. ASSUME NEW i \in Intents, status'[i] = "active" PROVE DayOf(tx[p].at) <= row'[i].date
    <3>1. Open(i) /\ DayOf(now) <= row[i].date
      BY <2>1, <2>5, LifecycleFacts DEF CANCELLABLE_STATUSES
    <3>2. row[i].date \in Nat
      BY <3>1 DEF TypeOK, RowsOK, Open, CANCELLABLE_STATUSES, Rows
    <3>3. DayOf(tx[p].at) \in Nat /\ DayOf(now) \in Nat /\ DayOf(tx[p].at) <= DayOf(now)
      BY <2>4, HandlerClocks, DayOfNat, DayOfMonotone
    <3> QED
      BY <2>1, <3>1, <3>2, <3>3
  <2>6. \A i \in Intents : status'[i] = "active" => InTime(i, tx[p].at)'
    BY <2>3, <2>5, Zenon DEF InTime
  <2>7. ThreadOK(p)'
    BY <2>1, <2>3, <2>4, <2>6, DispatchingThread
  <2> QED
    BY <2>1, <2>2, <2>3, <2>7, ThreadStep
<1>15. ASSUME NEW p \in Procs, Dispatching(p), UNCHANGED <<now, halt, row, status, opened>>,
              Others(p), up', tx'[p].pc = "d_loop", tx'[p].at = tx[p].at, tx'[p].past = tx[p].past,
              \A i \in tx'[p].fired :
                  /\ i \in tx'[p].held /\ i \notin tx'[p].todo /\ status[i] = "active"
                  /\ is_within_regular_session(tx[p].at),
              \A i \in tx'[p].todo \cup tx'[p].held : status[i] # "absent" /\ InTime(i, tx[p].at),
              \A q \in Procs \ {p} : \A i \in tx'[p].held : i \notin tx[q].held
       PROVE  HandlersOK'
  <2>1. Armed(p)
    BY <1>15 DEF Dispatching, Armed
  <2>2. tx'[p].at <= now' /\ (halt' => tx'[p].past)
    BY <1>15, <2>1, Zenon DEF HandlersOK, ThreadOK, Timed
  <2>3. \A i \in tx'[p].todo \cup tx'[p].held : status'[i] # "absent" /\ InTime(i, tx[p].at)'
    BY <1>15, Zenon DEF InTime
  <2>4. ThreadOK(p)'
    BY <1>15, <2>2, <2>3, DispatchingThread
  <2> QED
    BY <1>15, <2>4, CalmStep, ThreadStep
<1>16. ASSUME NEW p \in Procs, DispatchList(p) PROVE HandlersOK'
  <2>1. /\ tx[p].pc = "d_swept" /\ Dispatching(p) /\ up'
        /\ UNCHANGED <<now, halt, row, status, opened>>
    BY <1>16 DEF DispatchList, Ready, Dispatching, db, seen
  <2>2. /\ Others(p) /\ tx'[p].pc = "d_loop" /\ tx'[p].at = tx[p].at /\ tx'[p].past = tx[p].past
        /\ \A i \in tx'[p].todo : i \in Intents /\ status[i] = "active"
        /\ tx'[p].held = {} /\ tx'[p].fired = {}
    BY <1>16, <2>1, <1>empty, DispatchLists
  <2>3. \A i \in tx'[p].todo : status[i] # "absent" /\ InTime(i, tx[p].at)
    BY <2>1, <2>2 DEF HandlersOK, ThreadOK
  <2> QED
    BY <2>1, <2>2, <2>3, <1>15
<1>17. ASSUME NEW p \in Procs, NEW i \in Intents,
              DispatchSkip(p, i) \/ DispatchBaseline(p, i) \/ DispatchFire(p, i)
       PROVE  HandlersOK'
  <2>1. /\ Others(p) /\ tx[p].pc = "d_loop" /\ tx'[p].pc = "d_loop"
        /\ tx'[p].at = tx[p].at /\ tx'[p].past = tx[p].past
        /\ i \in tx[p].todo /\ tx'[p].todo \subseteq tx[p].todo
        /\ UNCHANGED <<now, up, halt, row, status, opened>>
    BY <1>17, DispatchLoops DEF db
  <2>2. /\ \/ tx'[p].held = tx[p].held
           \/ tx'[p].held = tx[p].held \cup {i} /\ Free(p, i)
        /\ \/ tx'[p].fired = tx[p].fired
           \/ /\ tx'[p].fired = tx[p].fired \cup {i} /\ i \in tx'[p].held
              /\ i \notin tx'[p].todo
              /\ CanFire(i) /\ is_within_regular_session(tx[p].at)
    BY <1>17, DispatchLoops
  <2>3. up'
    BY <1>17, <2>1, Zenon DEF DispatchSkip, DispatchBaseline, DispatchFire, Ready
  <2>4. /\ \A j \in tx[p].fired : /\ j \in tx[p].held /\ j \notin tx[p].todo /\ status[j] = "active"
                                  /\ is_within_regular_session(tx[p].at)
        /\ \A j \in tx[p].todo \cup tx[p].held : status[j] # "absent" /\ InTime(j, tx[p].at)
    BY <2>1, Zenon DEF HandlersOK, ThreadOK
  <2>5. \A j \in tx'[p].todo \cup tx'[p].held : j \in tx[p].todo \cup tx[p].held
    BY ONLY <2>1, <2>2
  <2>6. \A j \in tx'[p].fired : /\ j \in tx'[p].held /\ j \notin tx'[p].todo /\ status[j] = "active"
                                /\ is_within_regular_session(tx[p].at)
    BY ONLY <2>1, <2>2, <2>4 DEF CanFire
  <2>7. \A q \in Procs \ {p} : \A j \in tx'[p].held : j \notin tx[q].held
    BY <2>2 DEF Free, HandlersOK, LocksOK
  <2>8. Dispatching(p)
    BY ONLY <2>1 DEF Dispatching
  <2> QED
    BY <2>1, <2>3, <2>4, <2>5, <2>6, <2>7, <2>8, <1>15
<1>18. ASSUME NEW p \in Procs, DispatchCommit(p) PROVE HandlersOK'
  <2>1. /\ tx[p].pc = "d_loop" /\ tx' = [tx EXCEPT ![p] = Idle] /\ up'
        /\ \A j \in Intents : status'[j] = IF j \in tx[p].fired THEN "triggered" ELSE status[j]
        /\ UNCHANGED <<now, halt, row, opened>>
    BY <1>18 DEF DispatchCommit, Ready, seen
  <2>2. Gentle
    <3>1. now' \in Nat /\ now <= now'
      BY <2>1, ClockStays, Zenon
    <3>2. \A j \in Intents : /\ status[j] # "absent" => status'[j] # "absent"
                             /\ status'[j] = "active" => status[j] = "active"
      BY <2>1
    <3> QED
      BY <2>1, <3>1, <3>2, Zenon DEF Gentle
  <2>3. \A q \in Procs \ {p} : Spares(q)
    <3>1. \A q \in Procs : \A j \in tx[q].held : j \in Intents
      BY DEF TypeOK, Tx
    <3>2. \A j \in tx[p].fired : j \in tx[p].held
      BY <2>1, Zenon DEF HandlersOK, ThreadOK
    <3>3. \A q \in Procs \ {p} : \A j \in tx[q].held : j \notin tx[p].fired
      BY <3>2 DEF HandlersOK, LocksOK
    <3> QED
      BY <2>1, <3>1, <3>3, Zenon DEF Spares
  <2> QED
    BY <2>1, <2>2, <2>3, <1>ends
<1>19. ASSUME NEW p \in Procs, Abort(p) PROVE HandlersOK'
  <2>1. /\ tx' = [tx EXCEPT ![p] = Idle] /\ up' /\ UNCHANGED <<now, halt, status, opened>>
        /\ \A j \in Intents : row'[j] = IF Inserting(p) /\ j = tx[p].cur THEN None ELSE row[j]
    BY <1>19 DEF Abort
  <2>2. Gentle
    <3>1. now' \in Nat /\ now <= now'
      BY <2>1, ClockStays, Zenon
    <3>2. \A j \in Intents : status[j] # "absent" => row'[j] = row[j]
      BY <2>1, <1>cur, Zenon
    <3> QED
      BY <2>1, <3>1, <3>2, Zenon DEF Gentle
  <2>3. \A q \in Procs \ {p} : Spares(q)
    <3>1. \A q \in Procs \ {p} : Inserting(q) => row'[tx[q].cur] = row[tx[q].cur]
      BY <2>1, <1>cur, Zenon DEF RowsOK
    <3> QED
      BY <2>1, <3>1, Zenon DEF Spares
  <2> QED
    BY <2>1, <2>2, <2>3, <1>ends
<1>20. CASE Crash
  <2>1. \A q \in Procs : tx'[q] = Idle
    BY <1>20 DEF Crash
  <2>2. \A q \in Procs : /\ tx'[q].pc = "idle" /\ tx'[q].todo = {} /\ tx'[q].held = {}
                         /\ tx'[q].fired = {}
    BY <2>1, IdleFields, Zenon
  <2>3. \A q \in Procs : ThreadOK(q)'
    BY <2>2, RestingThread
  <2>4. LocksOK'
    BY <2>1, <2>2 DEF LocksOK
  <2> QED
    BY <2>3, <2>4, Zenon DEF HandlersOK
<1>21. CASE Boot
  <2>1. ~ up /\ status' = LifecycleRun /\ UNCHANGED <<now, halt, row, opened, tx>>
    BY <1>21, Zenon DEF Boot, seen
  <2>2. \A q \in Procs : tx[q] = Idle
    BY <2>1, Zenon DEF HandlersOK, LocksOK
  <2>3. \A q \in Procs : /\ tx'[q].pc = "idle" /\ tx'[q].todo = {} /\ tx'[q].held = {}
                         /\ tx'[q].fired = {}
    BY <2>1, <2>2, IdleFields, Zenon
  <2>4. \A q \in Procs : ThreadOK(q)'
    BY <2>3, RestingThread
  <2>5. LocksOK'
    BY <2>1, <2>2, <2>3 DEF LocksOK
  <2> QED
    BY <2>4, <2>5, Zenon DEF HandlersOK
<1>22. ASSUME NEW p \in Procs, NEW o \in Owners, DisableUser(p, o) PROVE HandlersOK'
  <2>1. /\ tx[p].pc = "idle" /\ \A j \in OpenOf(o) : Free(p, j)
        /\ \A j \in Intents : status'[j] = IF j \in OpenOf(o)
                                           THEN "cancelled_by_account_disabled" ELSE status[j]
        /\ UNCHANGED <<now, up, halt, row, opened, tx>>
    BY <1>22 DEF DisableUser, Ready, seen
  <2>2. Gentle
    <3>1. now' \in Nat /\ now <= now'
      BY <2>1, ClockStays, Zenon
    <3>2. \A j \in Intents : /\ status[j] # "absent" => status'[j] # "absent"
                             /\ status'[j] = "active" => status[j] = "active"
      BY <2>1
    <3> QED
      BY <2>1, <3>1, <3>2, Zenon DEF Gentle
  <2>3. \A q \in Procs : Spares(q)
    <3>1. tx[p].held = {} /\ \A q \in Procs : \A j \in tx[q].held : j \in Intents
      BY <2>1, <1>empty DEF TypeOK, Tx
    <3>2. \A q \in Procs : \A j \in tx[q].held : j \notin OpenOf(o)
      BY <2>1, <3>1 DEF Free
    <3> QED
      BY <2>1, <3>1, <3>2, Zenon DEF Spares
  <2> QED
    BY <2>1, <2>2, <2>3, <1>same
<1>23. ASSUME NEW p \in Procs, NEW o \in Owners, ReactivateUser(p, o) PROVE HandlersOK'
  BY <1>23, <1>same, CalmStep, Zenon DEF ReactivateUser, db, seen
<1>24. ASSUME NEW p \in Procs, SetKillSwitch(p) PROVE HandlersOK'
  <2>1. up /\ up' /\ halt' = ~ halt /\ UNCHANGED <<now, row, status, opened>>
    BY <1>24, Zenon DEF SetKillSwitch, Ready, db, seen
  <2>2. ASSUME NEW q \in Procs
        PROVE  /\ tx'[q].pc = tx[q].pc /\ tx'[q].cur = tx[q].cur /\ tx'[q].at = tx[q].at
               /\ tx'[q].todo = tx[q].todo /\ tx'[q].held = tx[q].held
               /\ tx'[q].fired = tx[q].fired
               /\ halt' /\ Armed(q) => tx'[q].past
    BY <1>24, <2>1, Switches
  <2>3. ASSUME NEW q \in Procs PROVE ThreadOK(q)'
    <3>1. /\ Timed(q)' <=> Timed(q)
          /\ Inserting(q)' <=> Inserting(q)
          /\ Armed(q)' <=> Armed(q)
      BY <2>2 DEF Timed, Inserting, Subscribing, Dispatching, Armed
    <3>2. ThreadOK(q)
      BY Zenon DEF HandlersOK
    <3> QED
      BY ONLY <2>1, <2>2, <3>1, <3>2, q \in Procs DEF ThreadOK, InTime
  <2>4. LocksOK'
    BY <2>1, <2>2 DEF HandlersOK, LocksOK
  <2> QED
    BY <2>3, <2>4, Zenon DEF HandlersOK
<1>25. CASE Tick
  <2>1. now \in Nat /\ now' \in Nat /\ now <= now' /\ UNCHANGED <<up, halt, row, status, opened, tx>>
    <3>1. UNCHANGED <<up, halt, row, status, opened, tx>>
      BY <1>25, Zenon DEF Tick, db, seen
    <3> QED
      BY <1>25, <3>1, ClockRuns, Zenon
  <2>2. Gentle /\ \A q \in Procs : Spares(q)
    BY <2>1, Zenon DEF Gentle, Spares
  <2> QED
    BY <2>1, <2>2, <1>same, Zenon
<1>26. CASE UNCHANGED vars
  BY <1>26, <1>same, CalmStep, Zenon DEF vars
<1> QED
  BY <1>1, <1>2, <1>3, <1>4, <1>5, <1>6, <1>7, <1>8, <1>9, <1>10, <1>11, <1>12, <1>13, <1>14,
     <1>16, <1>17, <1>18, <1>19, <1>20, <1>21, <1>22, <1>23, <1>24, <1>25, <1>26, Zenon
  DEF Next, Create, Cancel, Dispatch, Admin

-----------------------------------------------------------------------------
(* What a step does to committed state *)

\* A step in which a cancellation writes the intent it had read.
Cancels(i) ==
    \E p \in Procs : tx[p].pc = "x_read" /\ tx[p].cur = i /\ tx'[p].pc = "x_cancelled"

\* A step that fires nothing: it may close open intents, activate them, or
\* overwrite a terminal status by "cancelled" (CancelWrite).
Quiet ==
    /\ UNCHANGED <<trigger, notes>>
    /\ \A i \in Intents :
         \/ status'[i] = status[i]
         \/ Open(i) /\ status'[i] \in VALID_STATUSES \ {"triggered"}
         \/ status[i] \in TERMINAL_STATUSES /\ status'[i] = "cancelled" /\ Cancels(i)
    /\ \A i \in Intents : status[i] # "absent" => row'[i] = row[i] /\ opened'[i] = opened[i]

\* A quiet step that leaves creations under way, messages and subscriptions alone.
Calm ==
    /\ Quiet
    /\ UNCHANGED <<sent, up, subs, cut>>
    /\ \A q \in Procs :
         /\ tx'[q].fired = tx[q].fired
         /\ Subscribing(q)' => Subscribing(q)
         /\ Inserting(q)' => Inserting(q) /\ tx'[q].cur = tx[q].cur
                             /\ row'[tx[q].cur] = row[tx[q].cur]

\* The steps that are not calm.
Special ==
    \/ \E p \in Procs :
         \/ \E i \in Intents, s \in Symbols, k \in Keys : CreateInsert(p, i, s, k)
         \/ CreateSubscribe(p) \/ CreateFire(p) \/ CreateCommit(p)
         \/ CancelUnsubscribe(p)
         \/ \E i \in Intents : DispatchFire(p, i)
         \/ DispatchCommit(p) \/ Abort(p)
    \/ Crash \/ Boot

\* A lifecycle run fires nothing.
LEMMA LifecycleQuiet ==
    ASSUME TypeOK, RowsOK, status' = LifecycleRun, UNCHANGED <<row, trigger, notes, opened>>
    PROVE  Quiet
<1>1. {"active", "expired"} \subseteq VALID_STATUSES \ {"triggered"}
  BY DEF VALID_STATUSES, CANCELLABLE_STATUSES, TERMINAL_STATUSES
<1>2. \A i \in Intents :
          \/ LifecycleRun[i] = status[i]
          \/ Open(i) /\ LifecycleRun[i] \in VALID_STATUSES \ {"triggered"}
  BY <1>1, LifecycleFacts
<1> QED
  BY <1>2, Zenon DEF Quiet

\* A quiet step of a handler that is not creating.
LEMMA CalmMove ==
    ASSUME NEW p \in Procs, Others(p), Quiet, UNCHANGED <<row, sent, up, subs, cut>>,
           tx'[p].fired = tx[p].fired, tx'[p].pc \notin {"c_inserted", "c_subscribed", "c_armed", "c_ready"}
    PROVE  Calm
<1>1. ~ Inserting(p)' /\ ~ Subscribing(p)'
  BY DEF Inserting, Subscribing
<1>2. \A q \in Procs \ {p} :
        /\ tx'[q] = tx[q]
        /\ Subscribing(q)' <=> Subscribing(q)
        /\ Inserting(q)' <=> Inserting(q)
  BY Zenon DEF Others, Inserting, Subscribing
<1> QED
  BY <1>1, <1>2, Zenon DEF Calm

\* Every step is calm or one of the special ones.
LEMMA CalmOrSpecial ==
    ASSUME TypeOK, RowsOK, HandlersOK, [Next]_vars
    PROVE  Calm \/ Special
<1>empty. \A q \in Procs : tx[q].pc \notin {"d_loop", "c_ready"} => tx[q].fired = {}
  BY Zenon DEF HandlersOK, ThreadOK
<1>still. UNCHANGED <<row, status, trigger, notes, opened>> => Quiet
  BY Zenon DEF Quiet
<1>same. ASSUME UNCHANGED <<row, tx, sent, up, subs, cut>>, Quiet PROVE Calm
  BY <1>same, Zenon DEF Calm, Inserting, Subscribing
<1>ends. ASSUME NEW p \in Procs, tx' = [tx EXCEPT ![p] = Idle], tx[p].pc \notin {"d_loop", "c_ready"},
                UNCHANGED <<db, sent, up, subs, cut, opened>>
         PROVE  Calm
  <2>1. Others(p) /\ tx'[p].pc = "idle" /\ tx'[p].fired = tx[p].fired
    BY <1>ends, <1>empty, Ends
  <2> QED
    BY <1>ends, <1>still, <2>1, CalmMove DEF db
<1>1. ASSUME NEW p \in Procs, ReadIntents(p) PROVE Calm
  BY <1>1, <1>same, LifecycleQuiet, Zenon DEF ReadIntents, seen
<1>2. ASSUME NEW p \in Procs, NEW o \in Owners, BeginCreate(p, o) PROVE Calm
  <2>1. tx[p].pc = "idle" /\ UNCHANGED <<row, status, trigger, notes, opened, sent, up, subs, cut>>
    BY <1>2, Zenon DEF BeginCreate, Ready, db, seen
  <2>2. Others(p) /\ tx'[p].pc = "c_auth" /\ tx'[p].fired = tx[p].fired
    BY <1>2, <2>1, <1>empty, CreateBegins
  <2> QED
    BY <2>1, <2>2, <1>still, CalmMove
<1>4. ASSUME NEW p \in Procs, CreateReject(p) PROVE Calm
  BY <1>4, <1>ends DEF CreateReject, Ready, seen
<1>5. ASSUME NEW p \in Procs, CreateCheck(p) PROVE Calm
  <2>1. /\ tx[p].pc = "c_subscribed"
        /\ UNCHANGED <<row, status, trigger, notes, opened, sent, up, subs, cut>>
    BY <1>5, Zenon DEF CreateCheck, Ready, db, seen
  <2>2. PICK pc : tx' = [tx EXCEPT ![p].pc = pc]
    BY <1>5, Zenon DEF CreateCheck
  <2>3. Others(p) /\ tx'[p].fired = tx[p].fired /\ tx'[p].cur = tx[p].cur
    BY <2>2, Advances
  <2>4. Inserting(p) /\ Subscribing(p)
    BY <2>1 DEF Inserting, Subscribing
  <2>5. \A q \in Procs \ {p} :
          /\ tx'[q] = tx[q]
          /\ Subscribing(q)' <=> Subscribing(q)
          /\ Inserting(q)' <=> Inserting(q)
    BY <2>3, Zenon DEF Others, Inserting, Subscribing
  <2> QED
    BY <2>1, <2>3, <2>4, <2>5, <1>still, Zenon DEF Calm
<1>8. ASSUME NEW p \in Procs, NEW i \in Intents, CancelBegin(p, i) PROVE Calm
  <2>1. /\ tx[p].pc = "idle" /\ status' = LifecycleRun
        /\ UNCHANGED <<row, trigger, notes, opened, sent, up, subs, cut>>
    BY <1>8, Zenon DEF CancelBegin, Ready, seen
  <2>2. Others(p) /\ tx'[p].pc = "x_swept" /\ tx'[p].fired = tx[p].fired
    BY <1>8, <2>1, <1>empty, CancelBegins
  <2> QED
    BY <2>1, <2>2, LifecycleQuiet, CalmMove
<1>x. ASSUME NEW p \in Procs, NEW pc \in {"x_read", "x_cancelled", "x_unneeded", "d_swept"},
             tx' = [tx EXCEPT ![p].pc = pc], UNCHANGED <<row, sent, up, subs, cut>>, Quiet
      PROVE  Calm
  <2>1. Others(p) /\ tx'[p].pc = pc /\ tx'[p].fired = tx[p].fired
    BY <1>x, Advances, Zenon
  <2>2. pc \notin {"c_inserted", "c_subscribed", "c_armed", "c_ready"}
    OBVIOUS
  <2> QED
    BY <1>x, <2>1, <2>2, CalmMove, Zenon
<1>9. ASSUME NEW p \in Procs, CancelRead(p) PROVE Calm
  <2>1. tx[p].pc = "x_swept" /\ UNCHANGED <<db, opened, sent, up, subs, cut>>
    BY <1>9, Zenon DEF CancelRead, Ready, seen
  <2>2. CASE tx' = [tx EXCEPT ![p] = Idle]
    BY <2>1, <2>2, <1>ends
  <2>3. ASSUME NEW pc \in {"x_read", "x_cancelled"}, tx' = [tx EXCEPT ![p].pc = pc] PROVE Calm
    BY <2>1, <2>3, <1>still, <1>x DEF db
  <2> QED
    BY <1>9, <2>2, <2>3 DEF CancelRead
<1>10. ASSUME NEW p \in Procs, CancelWrite(p) PROVE Calm
  <2>1. /\ tx[p].pc = "x_read" /\ tx' = [tx EXCEPT ![p].pc = "x_cancelled"]
        /\ UNCHANGED <<row, trigger, notes, opened, sent, up, subs, cut>>
    BY <1>10, Zenon DEF CancelWrite, Ready, seen
  <2>2. tx[p].cur \in Intents /\ status[tx[p].cur] # "absent"
    BY <2>1 DEF RowsOK, Cancelling, TypeOK, Tx
  <2>3. tx'[p].pc = "x_cancelled"
    BY <2>1, Advances
  <2>4. Cancels(tx[p].cur)
    BY <2>1, <2>3, Zenon DEF Cancels
  <2>5. \A i \in Intents : status'[i] = IF i = tx[p].cur THEN "cancelled" ELSE status[i]
    BY <1>10, <2>2 DEF CancelWrite, TypeOK
  <2>6. status[tx[p].cur] \in TERMINAL_STATUSES \/ Open(tx[p].cur)
    BY <2>2 DEF TypeOK, Open, VALID_STATUSES
  <2>7. "cancelled" \in VALID_STATUSES \ {"triggered"}
    BY DEF VALID_STATUSES, TERMINAL_STATUSES
  <2>8. Quiet
    BY <2>1, <2>4, <2>5, <2>6, <2>7, Zenon DEF Quiet
  <2> QED
    BY <2>1, <2>8, <1>x
<1>11. ASSUME NEW p \in Procs, CancelCount(p) PROVE Calm
  <2>1. tx[p].pc = "x_cancelled" /\ UNCHANGED <<db, opened, sent, up, subs, cut>>
    BY <1>11, Zenon DEF CancelCount, Ready, seen
  <2>2. CASE tx' = [tx EXCEPT ![p] = Idle]
    BY <2>1, <2>2, <1>ends
  <2>3. CASE tx' = [tx EXCEPT ![p].pc = "x_unneeded"]
    BY <2>1, <2>3, <1>still, <1>x DEF db
  <2> QED
    BY <1>11, <2>2, <2>3, Zenon DEF CancelCount
<1>13. ASSUME NEW p \in Procs, NEW s \in Symbols, DispatchCheck(p, s) PROVE Calm
  <2>1. tx[p].pc = "idle" /\ UNCHANGED <<row, status, trigger, notes, opened, sent, up, subs, cut>>
    BY <1>13, Zenon DEF DispatchCheck, Ready, db, seen
  <2>2. Others(p) /\ tx'[p].pc = "d_checked" /\ tx'[p].fired = tx[p].fired
    BY <1>13, <2>1, <1>empty, DispatchBegins
  <2> QED
    BY <2>1, <2>2, <1>still, CalmMove
<1>14. ASSUME NEW p \in Procs, DispatchLifecycle(p) PROVE Calm
  <2>1. /\ tx' = [tx EXCEPT ![p].pc = "d_swept"] /\ status' = LifecycleRun
        /\ UNCHANGED <<row, trigger, notes, opened, sent, up, subs, cut>>
    BY <1>14, Zenon DEF DispatchLifecycle, seen
  <2> QED
    BY <2>1, LifecycleQuiet, <1>x
<1>16. ASSUME NEW p \in Procs, DispatchList(p) PROVE Calm
  <2>1. UNCHANGED <<row, status, trigger, notes, opened, sent, up, subs, cut>>
    BY <1>16, Zenon DEF DispatchList, db, seen
  <2> QED
    BY <1>16, <2>1, <1>still, DispatchLists, CalmMove
<1>17. ASSUME NEW p \in Procs, NEW i \in Intents, DispatchSkip(p, i) \/ DispatchBaseline(p, i)
       PROVE  Calm
  <2>1. UNCHANGED <<row, status, trigger, notes, opened, sent, up, subs, cut>>
    BY <1>17, Zenon DEF DispatchSkip, DispatchBaseline, db, seen
  <2>2. Others(p) /\ tx'[p].pc = "d_loop"
    BY <1>17, DispatchLoops
  <2>3. tx'[p].fired = tx[p].fired
    BY <1>17 DEF DispatchSkip, DispatchBaseline, TypeOK, Tx
  <2> QED
    BY <2>1, <2>2, <2>3, <1>still, CalmMove
<1>22. ASSUME NEW p \in Procs, NEW o \in Owners, DisableUser(p, o) PROVE Calm
  <2>1. UNCHANGED <<row, trigger, notes, opened, tx, sent, up, subs, cut>>
    BY <1>22, Zenon DEF DisableUser, seen
  <2>2. \A i \in Intents : \/ status'[i] = status[i]
                           \/ Open(i) /\ status'[i] = "cancelled_by_account_disabled"
    BY <1>22 DEF DisableUser, OpenOf
  <2>3. "cancelled_by_account_disabled" \in VALID_STATUSES \ {"triggered"}
    BY DEF VALID_STATUSES, TERMINAL_STATUSES
  <2> QED
    BY <2>1, <2>2, <2>3, <1>same, Zenon DEF Quiet
<1>23. ASSUME NEW p \in Procs, NEW o \in Owners, ReactivateUser(p, o) PROVE Calm
  BY <1>23, <1>still, <1>same, Zenon DEF ReactivateUser, db, seen
<1>24. ASSUME NEW p \in Procs, SetKillSwitch(p) PROVE Calm
  <2>1. \A q \in Procs : tx'[q].pc = tx[q].pc /\ tx'[q].cur = tx[q].cur /\ tx'[q].fired = tx[q].fired
    BY <1>24, Switches
  <2>2. UNCHANGED <<row, status, trigger, notes, opened, sent, up, subs, cut>>
    BY <1>24, Zenon DEF SetKillSwitch, db, seen
  <2>3. \A q \in Procs : (Inserting(q)' <=> Inserting(q)) /\ (Subscribing(q)' <=> Subscribing(q))
    BY ONLY <2>1 DEF Inserting, Subscribing
  <2> QED
    BY <2>1, <2>2, <2>3, <1>still, Zenon DEF Calm
<1>25. CASE Tick
  BY <1>25, <1>still, <1>same, Zenon DEF Tick, db, seen
<1>26. CASE UNCHANGED vars
  BY <1>26, <1>still, <1>same, Zenon DEF vars
<1> QED
  BY <1>1, <1>2, <1>4, <1>5, <1>8, <1>9, <1>10, <1>11, <1>13, <1>14, <1>16, <1>17,
     <1>22, <1>23, <1>24, <1>25, <1>26, Zenon
  DEF Next, Create, Cancel, Dispatch, Admin, Special

\* A commit: what the thread has fired is published, and one new row may open.
Commits(p) ==
    /\ UNCHANGED <<row, sent>>
    /\ Publish(p)
    /\ \A i \in tx[p].fired :
         /\ i \in Intents /\ status[i] \in {"absent", "active"}
         /\ status'[i] = "triggered"
         /\ is_within_regular_session(tx[p].at)
         /\ tx[p].at # NoTrigger
         /\ DayOf(tx[p].at) <= row[i].date \/ tx[p].at <= opened'[i]
    /\ \A i \in Intents \ tx[p].fired :
         \/ status'[i] = status[i]
         \/ status[i] = "absent" /\ status'[i] \in CANCELLABLE_STATUSES
    /\ \A i \in Intents : status[i] # "absent" => opened'[i] = opened[i]

\* Every step is quiet or a commit.
LEMMA StepShape ==
    ASSUME TypeOK, RowsOK, HandlersOK, [Next]_vars
    PROVE  Quiet \/ \E p \in Procs : Commits(p)
<1>still. UNCHANGED <<row, status, trigger, notes, opened>> => Quiet
  BY Zenon DEF Quiet
<1>at. \A p \in Procs : tx[p].at # NoTrigger
  BY ClocksAreTimes, Zenon
<1>1. CASE Calm
  BY <1>1, Zenon DEF Calm
<1>2. ASSUME NEW p \in Procs, NEW i \in Intents, NEW s \in Symbols, NEW k \in Keys,
             CreateInsert(p, i, s, k) PROVE Quiet
  <2>1. /\ UNCHANGED <<status, trigger, notes, opened>>
        /\ row[i] = None /\ \A j \in Intents \ {i} : row'[j] = row[j]
    BY <1>2 DEF CreateInsert, TypeOK, seen
  <2> QED
    BY <2>1, Zenon DEF Quiet, RowsOK
<1>3. ASSUME NEW p \in Procs, CreateSubscribe(p) \/ CreateFire(p) \/ CancelUnsubscribe(p) PROVE Quiet
  BY <1>3, <1>still, Zenon DEF CreateSubscribe, CreateFire, CancelUnsubscribe, db
<1>4. ASSUME NEW p \in Procs, CreateCommit(p) PROVE Commits(p)
  <2>1. /\ Inserting(p) /\ tx[p].pc = "c_ready"
        /\ UNCHANGED <<row, sent>> /\ Publish(p)
    BY <1>4 DEF CreateCommit, Ready, Inserting, Subscribing
  <2>2. PICK c \in Intents : c = tx[p].cur /\ status[c] = "absent"
    <3>1. tx[p].cur \in Intents \cup {None}
      BY DEF TypeOK, Tx
    <3> QED
      BY <2>1, <3>1, Zenon DEF RowsOK
  <2>3. /\ \A i \in Intents \ {c} : status'[i] = status[i] /\ opened'[i] = opened[i]
        /\ status'[c] = IF c \in tx[p].fired THEN "triggered"
                        ELSE get_initial_day_intent_status(tx[p].at)
    BY <1>4, <2>2 DEF CreateCommit, TypeOK
  <2>4. tx[p].fired \subseteq {c} /\ \A i \in tx[p].fired : is_within_regular_session(tx[p].at)
    BY <2>1, <2>2, Zenon DEF HandlersOK, ThreadOK
  <2>5. DayOf(tx[p].at) <= row[c].date
    BY <2>1, <2>2, Zenon DEF HandlersOK, ThreadOK
  <2>6. get_initial_day_intent_status(tx[p].at) \in CANCELLABLE_STATUSES
    BY DEF get_initial_day_intent_status, CANCELLABLE_STATUSES
  <2>7. \A i \in tx[p].fired : i = c
    BY <2>4
  <2> QED
    BY <2>1, <2>2, <2>3, <2>4, <2>5, <2>6, <2>7, <1>at DEF Commits
<1>5. ASSUME NEW p \in Procs, NEW i \in Intents, DispatchFire(p, i) PROVE Quiet
  BY <1>5, <1>still, Zenon DEF DispatchFire, db
<1>6. ASSUME NEW p \in Procs, DispatchCommit(p) PROVE Commits(p)
  <2>1. /\ tx[p].pc = "d_loop" /\ UNCHANGED <<row, sent, opened>> /\ Publish(p)
        /\ \A i \in Intents : status'[i] = IF i \in tx[p].fired THEN "triggered" ELSE status[i]
    BY <1>6 DEF DispatchCommit, Ready, seen
  <2>2. \A i \in tx[p].fired : i \in Intents
    BY DEF TypeOK, Tx
  <2>3. \A i \in tx[p].fired : i \in tx[p].todo \cup tx[p].held /\ status[i] = "active"
    BY <2>1 DEF HandlersOK, ThreadOK
  <2>4. \A i \in tx[p].fired : /\ is_within_regular_session(tx[p].at)
                               /\ DayOf(tx[p].at) <= row[i].date \/ tx[p].at <= opened[i]
    BY <2>1, <2>3, Zenon DEF HandlersOK, ThreadOK, InTime
  <2> QED
    BY <2>1, <2>2, <2>3, <2>4, <1>at DEF Commits
<1>7. ASSUME NEW p \in Procs, Abort(p) PROVE Quiet
  <2>1. /\ UNCHANGED <<status, trigger, notes, opened>>
        /\ \A i \in Intents : row'[i] = IF Inserting(p) /\ i = tx[p].cur THEN None ELSE row[i]
    BY <1>7 DEF Abort
  <2> QED
    BY <2>1, Zenon DEF Quiet, RowsOK
<1>8. CASE Crash
  <2>1. \A i \in Intents : status[i] # "absent" => i \notin Inserted
    BY Zenon DEF RowsOK, Inserted
  <2>2. /\ UNCHANGED <<status, trigger, notes, opened>>
        /\ \A i \in Intents : row'[i] = IF i \in Inserted THEN None ELSE row[i]
    BY <1>8 DEF Crash
  <2> QED
    BY <2>1, <2>2, Zenon DEF Quiet
<1>9. CASE Boot
  BY <1>9, LifecycleQuiet DEF Boot, seen
<1> QED
  BY <1>1, <1>2, <1>3, <1>4, <1>5, <1>6, <1>7, <1>8, <1>9, CalmOrSpecial DEF Special

\* Every step keeps the safety invariants.
LEMMA SafetyNext ==
    ASSUME TypeOK, RowsOK, HandlersOK, Safety, [Next]_vars
    PROVE  Safety'
<1>fired. \A i \in Intents : Fired(i) => status[i] \in TERMINAL_STATUSES /\ status[i] # "absent"
  BY DEF Safety, FiredIsClosed, TERMINAL_STATUSES
<1>1. CASE Quiet
  <2>1. \A i \in Intents : Fired(i) => status'[i] \in TERMINAL_STATUSES
    BY <1>1, <1>fired DEF Quiet, Open, CANCELLABLE_STATUSES, TERMINAL_STATUSES
  <2>2. \A i \in Intents : status'[i] = "triggered" => status[i] = "triggered"
    BY <1>1 DEF Quiet
  <2>3. \A i \in Intents : Fired(i) => row'[i] = row[i] /\ opened'[i] = opened[i]
    BY <1>1, <1>fired, Zenon DEF Quiet
  <2>4. UNCHANGED <<trigger, notes>> /\ \A i \in Intents : Fired(i)' <=> Fired(i)
    BY <1>1, Zenon DEF Quiet, Fired
  <2>5. FiredIsClosed'
    BY <2>1, <2>4, Zenon DEF FiredIsClosed
  <2>6. TriggerIsRecordedOnce'
    BY <2>2, <2>4 DEF Safety, TriggerIsRecordedOnce
  <2>7. FiredByItsTradingDate'
    BY <2>3, <2>4, Zenon DEF Safety, FiredByItsTradingDate
  <2> QED
    BY <2>5, <2>6, <2>7, Zenon DEF Safety
<1>2. ASSUME NEW p \in Procs, Commits(p) PROVE Safety'
  <2>1. \A i \in tx[p].fired : ~ Fired(i) /\ notes[i] = 0
    <3>1. \A i \in tx[p].fired : i \in Intents /\ status[i] \in {"absent", "active"}
      BY <1>2, Zenon DEF Commits
    <3>2. \A i \in tx[p].fired : i \in Intents /\ ~ Fired(i)
      BY <1>fired, <3>1 DEF TERMINAL_STATUSES
    <3> QED
      BY <3>2, Zenon DEF Safety, TriggerIsRecordedOnce
  <2>2. \A i \in Intents : i \in tx[p].fired =>
           /\ trigger'[i] = tx[p].at /\ notes'[i] = 1 /\ status'[i] = "triggered"
           /\ row'[i] = row[i]
    <3>1. UNCHANGED row /\ \A i \in tx[p].fired : status'[i] = "triggered"
      BY <1>2, Zenon DEF Commits
    <3>2. \A i \in Intents : i \in tx[p].fired => trigger'[i] = tx[p].at /\ notes'[i] = notes[i] + 1
      BY <1>2 DEF Commits, Publish
    <3>3. ASSUME NEW i \in Intents, i \in tx[p].fired PROVE notes'[i] = 1
      <4>1. notes[i] = 0 /\ notes'[i] = notes[i] + 1
        BY <2>1, <3>2, <3>3, Zenon
      <4> QED
        BY ONLY <4>1
    <3> QED
      BY <3>1, <3>2, <3>3, Zenon
  <2>3. \A i \in Intents : i \notin tx[p].fired =>
           /\ trigger'[i] = trigger[i] /\ notes'[i] = notes[i] /\ row'[i] = row[i]
           /\ Fired(i) => status'[i] = status[i] /\ opened'[i] = opened[i]
           /\ status'[i] = "triggered" => status[i] = "triggered"
    <3>1. UNCHANGED row /\ \A i \in Intents : status[i] # "absent" => opened'[i] = opened[i]
      BY <1>2, Zenon DEF Commits
    <3>2. \A i \in Intents : i \notin tx[p].fired => trigger'[i] = trigger[i] /\ notes'[i] = notes[i]
      BY <1>2 DEF Commits, Publish
    <3>3. \A i \in Intents : i \notin tx[p].fired =>
             status'[i] = status[i] \/ (status[i] = "absent" /\ status'[i] # "triggered")
      BY <1>2 DEF Commits, CANCELLABLE_STATUSES
    <3> QED
      BY <1>fired, <3>1, <3>2, <3>3, Zenon
  <2>4. \A i \in tx[p].fired : /\ is_within_regular_session(tx[p].at) /\ tx[p].at # NoTrigger
                               /\ DayOf(tx[p].at) <= row[i].date \/ tx[p].at <= opened'[i]
    BY <1>2, Zenon DEF Commits
  <2>5. FiredIsClosed'
    BY <1>fired, <2>2, <2>3 DEF FiredIsClosed, Fired, TERMINAL_STATUSES
  <2>6. TriggerIsRecordedOnce'
    <3>1. TriggerIsRecordedOnce
      BY Zenon DEF Safety
    <3> QED
      <4>1. ASSUME NEW i \in Intents, i \in tx[p].fired PROVE Fired(i)' /\ notes'[i] = 1
        BY <2>2, <2>4, <4>1, Zenon DEF Fired
      <4>2. ASSUME NEW i \in Intents, i \notin tx[p].fired
            PROVE  /\ Fired(i)' <=> Fired(i)
                   /\ notes'[i] = notes[i]
                   /\ status'[i] = "triggered" => status[i] = "triggered"
        BY <2>3, <4>2, Zenon DEF Fired
      <4>3. \A i \in Intents : /\ status[i] = "triggered" => Fired(i)
                              /\ notes[i] = IF Fired(i) THEN 1 ELSE 0
        BY <3>1, Zenon DEF TriggerIsRecordedOnce
      <4> QED
        BY ONLY <4>1, <4>2, <4>3 DEF TriggerIsRecordedOnce
  <2>7. FiredByItsTradingDate'
    <3>1. FiredByItsTradingDate
      BY Zenon DEF Safety
    <3> QED
      BY ONLY <2>2, <2>3, <2>4, <3>1, Zenon DEF FiredByItsTradingDate, Fired
  <2> QED
    BY <2>5, <2>6, <2>7, Zenon DEF Safety
<1> QED
  BY <1>1, <1>2, StepShape

-----------------------------------------------------------------------------
(* Duplicates *)

\* What the unique index covers stays as it was: no row becomes live.
NothingNewLive == \A i \in Intents : Live(i)' => Live(i) /\ row'[i] = row[i]

\* A step after which the thread p is not creating, no other one has moved, and no
\* intent has become open.
LEMMA LiveEnd ==
    ASSUME NEW p \in Procs, Others(p), tx'[p].pc \in {"idle", "d_loop"},
           \A i \in Intents : Open(i)' => Live(i) /\ row'[i] = row[i],
           \A q \in Procs \ {p} : Inserting(q) => row'[tx[q].cur] = row[tx[q].cur]
    PROVE  NothingNewLive
<1>1. ~ Inserting(p)'
  BY DEF Inserting, Subscribing
<1>2. \A q \in Procs \ {p} : tx'[q] = tx[q] /\ (Inserting(q)' => Inserting(q))
  BY Zenon DEF Others, Inserting, Subscribing
<1>3. ASSUME NEW i \in Intents, NEW q \in Procs, Inserting(q)', tx'[q].cur = i
      PROVE  Live(i) /\ row'[i] = row[i]
  <2>1. q \in Procs \ {p}
    BY <1>1, <1>3
  <2>2. Inserting(q) /\ tx[q].cur = i
    BY <1>2, <1>3, <2>1, Zenon
  <2> QED
    BY <2>1, <2>2, Zenon DEF Live
<1> QED
  BY <1>3, Zenon DEF NothingNewLive, Live

\* Every step keeps open and uncommitted rows distinct.
LEMMA UniqueNext ==
    ASSUME TypeOK, RowsOK, HandlersOK, UniqueOK, [Next]_vars
    PROVE  UniqueOK'
<1>none. ASSUME NothingNewLive PROVE UniqueOK'
  BY <1>none, Zenon DEF UniqueOK, NothingNewLive
<1>open. \A i \in Intents : Open(i) => Live(i) /\ status[i] # "absent"
  BY DEF Open, Live, CANCELLABLE_STATUSES
<1>1. CASE Calm
  <2>1. \A i \in Intents : Open(i)' => Open(i) /\ row'[i] = row[i]
    BY <1>1 DEF Calm, Quiet, Open, CANCELLABLE_STATUSES
  <2>2. \A q \in Procs : Inserting(q)' =>
          Inserting(q) /\ tx'[q].cur = tx[q].cur /\ row'[tx[q].cur] = row[tx[q].cur]
    BY <1>1, Zenon DEF Calm
  <2>3. NothingNewLive
    BY <2>1, <2>2, Zenon DEF NothingNewLive, Live
  <2> QED
    BY <2>3, <1>none
<1>2. ASSUME NEW p \in Procs, NEW i \in Intents, NEW s \in Symbols, NEW k \in Keys,
             CreateInsert(p, i, s, k) PROVE UniqueOK'
  <2>1. Others(p) /\ tx'[p].cur = i
    BY <1>2, CreateInserts
  <2>2. PICK r : /\ row' = [row EXCEPT ![i] = r] /\ ~ IndexWait(r) /\ status' = status
                 /\ \A j \in Intents : ~ Duplicate(j, r)
    BY <1>2, Zenon DEF CreateInsert
  <2>3. row'[i] = r /\ \A j \in Intents \ {i} : row'[j] = row[j]
    BY <2>2 DEF TypeOK
  <2>4. \A q \in Procs : Inserting(q)' => tx'[q].cur = i \/ (Inserting(q) /\ tx'[q].cur = tx[q].cur)
    BY <2>1, Zenon DEF Others, Inserting, Subscribing
  <2>5. \A j \in Intents : Live(j)' => Live(j) \/ j = i
    BY <2>2, <2>4, Zenon DEF Live, Open
  <2>6. \A j \in Intents : Live(j) => row[j] # r
    BY <2>2, Zenon DEF Live, Duplicate, IndexWait, Inserted
  <2> QED
    BY <2>3, <2>5, <2>6, Zenon DEF UniqueOK
<1>3. ASSUME NEW p \in Procs, CreateSubscribe(p) \/ CreateFire(p) PROVE UniqueOK'
  <2>1. Inserting(p) /\ UNCHANGED <<row, status>>
    BY <1>3 DEF CreateSubscribe, CreateFire, Ready, Inserting, Subscribing, db
  <2>2. Others(p) /\ tx'[p].cur = tx[p].cur
    <3>1. CASE CreateFire(p)
      BY <3>1, CreateFires
    <3>2. CASE CreateSubscribe(p)
      <4>1. tx' = [tx EXCEPT ![p].pc = "c_subscribed"]
        BY <3>2 DEF CreateSubscribe
      <4> QED
        BY <4>1, Advances
    <3> QED
      BY <1>3, <3>1, <3>2
  <2>3. \A q \in Procs : Inserting(q)' => Inserting(q) /\ tx'[q].cur = tx[q].cur
    BY <2>1, <2>2, Zenon DEF Others, Inserting, Subscribing
  <2>4. NothingNewLive
    BY <2>1, <2>3, Zenon DEF NothingNewLive, Live, Open
  <2> QED
    BY <2>4, <1>none
<1>4. ASSUME NEW p \in Procs, CreateCommit(p) PROVE UniqueOK'
  <2>1. Inserting(p) /\ tx' = [tx EXCEPT ![p] = Idle] /\ UNCHANGED row
    BY <1>4, Zenon DEF CreateCommit, Ready, Inserting, Subscribing
  <2>2. \A i \in Intents : status'[i] = status[i] \/ i = tx[p].cur
    BY <1>4 DEF CreateCommit, TypeOK
  <2>3. \A i \in Intents : Open(i)' => Live(i) /\ row'[i] = row[i]
    BY <2>1, <2>2, Zenon DEF Live, Open
  <2> QED
    BY <2>1, <2>3, <1>none, LiveEnd, Ends
<1>5. ASSUME NEW p \in Procs, CancelUnsubscribe(p) PROVE UniqueOK'
  <2>1. tx' = [tx EXCEPT ![p] = Idle] /\ UNCHANGED <<row, status>>
    BY <1>5, Zenon DEF CancelUnsubscribe, db
  <2>2. \A i \in Intents : Open(i)' => Live(i) /\ row'[i] = row[i]
    BY <2>1, Zenon DEF Live, Open
  <2> QED
    BY <2>1, <2>2, <1>none, LiveEnd, Ends
<1>6. ASSUME NEW p \in Procs, NEW i \in Intents, DispatchFire(p, i) PROVE UniqueOK'
  <2>1. UNCHANGED <<row, status>> /\ Others(p) /\ tx'[p].pc = "d_loop"
    BY <1>6, DispatchLoops DEF db
  <2>2. \A j \in Intents : Open(j)' => Live(j) /\ row'[j] = row[j]
    BY <2>1, Zenon DEF Live, Open
  <2> QED
    BY <2>1, <2>2, <1>none, LiveEnd
<1>7. ASSUME NEW p \in Procs, DispatchCommit(p) PROVE UniqueOK'
  <2>1. /\ tx' = [tx EXCEPT ![p] = Idle] /\ UNCHANGED row
        /\ \A i \in Intents : status'[i] = status[i] \/ status'[i] = "triggered"
    BY <1>7 DEF DispatchCommit
  <2>2. \A i \in Intents : Open(i)' => Live(i) /\ row'[i] = row[i]
    BY <2>1, <1>open DEF Open, CANCELLABLE_STATUSES
  <2> QED
    BY <2>1, <2>2, <1>none, LiveEnd, Ends
<1>8. ASSUME NEW p \in Procs, Abort(p) PROVE UniqueOK'
  <2>1. /\ tx' = [tx EXCEPT ![p] = Idle] /\ UNCHANGED status
        /\ \A i \in Intents : row'[i] = IF Inserting(p) /\ i = tx[p].cur THEN None ELSE row[i]
    BY <1>8 DEF Abort
  <2>2. \A i \in Intents : Open(i)' => Live(i) /\ row'[i] = row[i]
    <3>1. \A i \in Intents : Open(i)' <=> Open(i)
      BY <2>1, Zenon DEF Open
    <3> QED
      BY <1>open, <2>1, <3>1, Zenon DEF RowsOK
  <2>3. \A q \in Procs \ {p} : Inserting(q) => row'[tx[q].cur] = row[tx[q].cur]
    <3>1. \A q \in Procs : Inserting(q) => tx[q].cur \in Intents
      BY DEF TypeOK, Tx, RowsOK
    <3> QED
      BY <2>1, <3>1, Zenon DEF RowsOK
  <2> QED
    BY <2>1, <2>2, <2>3, <1>none, LiveEnd, Ends
<1>9. CASE Crash
  <2>1. \A q \in Procs : ~ Inserting(q)'
    BY <1>9 DEF Crash, Idle, Inserting, Subscribing
  <2>2. /\ UNCHANGED status
        /\ \A i \in Intents : row'[i] = IF i \in Inserted THEN None ELSE row[i]
    BY <1>9 DEF Crash
  <2>3. \A i \in Intents : status[i] # "absent" => i \notin Inserted
    BY Zenon DEF RowsOK, Inserted
  <2>4. NothingNewLive
    BY <1>open, <2>1, <2>2, <2>3, Zenon DEF NothingNewLive, Live, Open
  <2> QED
    BY <2>4, <1>none
<1>10. CASE Boot
  <2>1. status' = LifecycleRun /\ UNCHANGED <<row, tx>>
    BY <1>10, Zenon DEF Boot
  <2>2. \A i \in Intents : LifecycleRun[i] \in CANCELLABLE_STATUSES => Open(i)
    BY LifecycleFacts
  <2>3. NothingNewLive
    BY <2>1, <2>2, Zenon DEF NothingNewLive, Live, Open, Inserting, Subscribing
  <2> QED
    BY <2>3, <1>none
<1> QED
  BY <1>1, <1>2, <1>3, <1>4, <1>5, <1>6, <1>7, <1>8, <1>9, <1>10, CalmOrSpecial DEF Special

-----------------------------------------------------------------------------
(* Messages *)

\* The trigger of an intent is recorded, or a transaction is about to record it.
Triggering(i) == Fired(i) \/ \E p \in Procs : i \in tx[p].fired

\* A step that sends nothing and forgets no trigger keeps the count of messages.
LEMMA MessagesKept ==
    ASSUME TypeOK, MessageStandsForOneTrigger, UNCHANGED sent,
           \A i \in Intents : Triggering(i) => Triggering(i)'
    PROVE  MessageStandsForOneTrigger'
<1>1. \A i \in Intents : sent[i] \in Nat /\ sent[i] <= IF Triggering(i) THEN 1 ELSE 0
  BY DEF TypeOK, MessageStandsForOneTrigger, Triggering
<1>2. \A i \in Intents : sent'[i] <= IF Triggering(i)' THEN 1 ELSE 0
  BY ONLY <1>1, UNCHANGED sent, \A i \in Intents : Triggering(i) => Triggering(i)'
<1> QED
  BY <1>2, Zenon DEF MessageStandsForOneTrigger, Triggering

\* A step that may send one message for an intent it triggers, which nobody had
\* triggered before.
LEMMA MessagesFire ==
    ASSUME TypeOK, MessageStandsForOneTrigger, NEW c \in Intents, Announce(c),
           ~ Triggering(c), Triggering(c)', \A i \in Intents : Triggering(i) => Triggering(i)'
    PROVE  MessageStandsForOneTrigger'
<1>1. \A i \in Intents : sent[i] \in Nat /\ sent[i] <= IF Triggering(i) THEN 1 ELSE 0
  BY DEF TypeOK, MessageStandsForOneTrigger, Triggering
<1>2. sent[c] = 0
  BY <1>1
<1>3. \A i \in Intents \ {c} : sent'[i] = sent[i]
  BY DEF Announce, TypeOK
<1>4. sent'[c] <= 1
  <2>1. sent'[c] = sent[c] \/ sent'[c] = sent[c] + 1
    BY DEF Announce, TypeOK
  <2> QED
    BY ONLY <1>2, <2>1
<1>5. ASSUME NEW i \in Intents PROVE sent'[i] <= IF Triggering(i)' THEN 1 ELSE 0
  <2>1. CASE i = c
    BY ONLY <2>1, <1>4, Triggering(c)'
  <2>2. CASE i # c
    <3>1. sent'[i] = sent[i] /\ (Triggering(i) => Triggering(i)')
      BY <2>2, <1>3, Zenon
    <3>2. sent[i] \in Nat /\ sent[i] <= IF Triggering(i) THEN 1 ELSE 0
      BY <1>1, Zenon
    <3> QED
      BY ONLY <3>1, <3>2
  <2> QED
    BY <2>1, <2>2, Zenon
<1> QED
  BY <1>5, Zenon DEF MessageStandsForOneTrigger, Triggering

\* A step that rolls transactions back resets the count of what they had fired.
LEMMA MessagesReset ==
    ASSUME TypeOK, MessageStandsForOneTrigger,
           \A i \in Intents : \/ sent'[i] = 0
                              \/ sent'[i] = sent[i] /\ (Triggering(i) => Triggering(i)')
    PROVE  MessageStandsForOneTrigger'
<1>1. \A i \in Intents : sent[i] \in Nat /\ sent[i] <= IF Triggering(i) THEN 1 ELSE 0
  BY DEF TypeOK, MessageStandsForOneTrigger, Triggering
<1>2. \A i \in Intents : sent'[i] <= IF Triggering(i)' THEN 1 ELSE 0
  BY ONLY <1>1, \A i \in Intents : \/ sent'[i] = 0
                                   \/ sent'[i] = sent[i] /\ (Triggering(i) => Triggering(i)')
<1> QED
  BY <1>2, Zenon DEF MessageStandsForOneTrigger, Triggering

\* A commit records what its transaction has fired.
LEMMA PublishedIsFired ==
    ASSUME TypeOK, NEW p \in Procs, Publish(p), Others(p)
    PROVE  \A i \in Intents : Triggering(i) => Triggering(i)'
<1>1. \A i \in Intents : trigger'[i] = IF i \in tx[p].fired THEN tx[p].at ELSE trigger[i]
  BY DEF Publish
<1>2. tx[p].at # NoTrigger
  BY HandlerClocks DEF NoTrigger
<1>3. \A i \in Intents : Fired(i) => Fired(i)'
  BY <1>1, <1>2, Zenon DEF Fired
<1>4. \A i \in Intents : i \in tx[p].fired => Fired(i)'
  BY <1>1, <1>2, Zenon DEF Fired
<1> QED
  BY <1>3, <1>4, Zenon DEF Triggering, Others

\* Every step keeps the bound on messages.
LEMMA MessagesNext ==
    ASSUME TypeOK, RowsOK, HandlersOK, Safety, MessageStandsForOneTrigger, [Next]_vars
    PROVE  MessageStandsForOneTrigger'
<1>kept. ASSUME UNCHANGED <<trigger, sent>>, \A q \in Procs : tx[q].fired \subseteq tx'[q].fired
         PROVE  MessageStandsForOneTrigger'
  <2>1. \A i \in Intents : Triggering(i) => Triggering(i)'
    BY <1>kept DEF Triggering, Fired
  <2> QED
    BY <1>kept, <2>1, MessagesKept
<1>1. CASE Calm
  BY <1>1, <1>kept DEF Calm, Quiet
<1>2. ASSUME NEW p \in Procs, NEW i \in Intents, NEW s \in Symbols, NEW k \in Keys,
             CreateInsert(p, i, s, k) PROVE MessageStandsForOneTrigger'
  <2>1. UNCHANGED <<trigger, sent>>
    BY <1>2, Zenon DEF CreateInsert, seen
  <2>2. \A q \in Procs : tx[q].fired \subseteq tx'[q].fired
    BY <1>2, CreateInserts DEF Others
  <2> QED
    BY <2>1, <2>2, <1>kept
<1>3. ASSUME NEW p \in Procs, CreateSubscribe(p) PROVE MessageStandsForOneTrigger'
  <2>1. UNCHANGED <<trigger, sent>> /\ tx' = [tx EXCEPT ![p].pc = "c_subscribed"]
    BY <1>3, Zenon DEF CreateSubscribe, db
  <2>2. \A q \in Procs : tx[q].fired \subseteq tx'[q].fired
    BY <2>1, Advances DEF Others
  <2> QED
    BY <2>1, <2>2, <1>kept
<1>4. ASSUME NEW p \in Procs, CreateFire(p) PROVE MessageStandsForOneTrigger'
  <2>1. Inserting(p) /\ tx[p].pc = "c_armed" /\ UNCHANGED trigger
    BY <1>4 DEF CreateFire, Ready, Inserting, Subscribing, db
  <2>2. PICK c \in Intents : c = tx[p].cur /\ status[c] = "absent"
    BY <2>1 DEF RowsOK, TypeOK, Tx
  <2>3. tx[p].fired = {}
    BY <2>1 DEF HandlersOK, ThreadOK
  <2>4. Others(p)
    BY <1>4, CreateFires
  <2>5. CASE tx'[p].fired = tx[p].fired /\ UNCHANGED sent
    <3>1. \A q \in Procs : tx[q].fired \subseteq tx'[q].fired
      BY <2>4, <2>5 DEF Others
    <3> QED
      BY <2>1, <2>5, <3>1, <1>kept
  <2>6. CASE tx'[p].fired = {tx[p].cur} /\ Announce(tx[p].cur)
    <3>1. c \in tx'[p].fired /\ Announce(c)
      BY <2>2, <2>6
    <3>2. ~ Fired(c)
      BY <2>2 DEF Safety, FiredIsClosed, TERMINAL_STATUSES
    <3>3. ASSUME NEW q \in Procs, c \in tx[q].fired PROVE FALSE
      <4>1. q # p
        BY <2>3, <3>3
      <4>2. CASE tx[q].pc = "d_loop"
        BY <2>2, <3>3, <4>2 DEF HandlersOK, ThreadOK
      <4>3. CASE tx[q].pc = "c_ready"
        <5>1. Inserting(q) /\ tx[q].cur = c
          BY <3>3, <4>3 DEF HandlersOK, ThreadOK, Inserting, Subscribing
        <5> QED
          BY <2>1, <2>2, <4>1, <5>1, Zenon DEF RowsOK
      <4>4. CASE tx[q].pc \notin {"d_loop", "c_ready"}
        BY <3>3, <4>4 DEF HandlersOK, ThreadOK
      <4> QED
        BY <4>2, <4>3, <4>4
    <3>4. ~ Triggering(c) /\ Triggering(c)'
      BY <3>1, <3>2, <3>3, Zenon DEF Triggering
    <3>5. \A i \in Intents : Triggering(i) => Triggering(i)'
      BY <2>1, <2>3, <2>4 DEF Triggering, Fired, Others
    <3> QED
      BY <3>1, <3>4, <3>5, MessagesFire
  <2> QED
    BY <1>4, <2>5, <2>6, CreateFires
<1>5. ASSUME NEW p \in Procs, CreateCommit(p) \/ DispatchCommit(p) PROVE MessageStandsForOneTrigger'
  <2>1. Publish(p) /\ UNCHANGED sent /\ tx' = [tx EXCEPT ![p] = Idle]
    BY <1>5, Zenon DEF CreateCommit, DispatchCommit, seen
  <2>2. Others(p)
    BY <2>1, Ends
  <2> QED
    BY <2>1, <2>2, PublishedIsFired, MessagesKept
<1>6. ASSUME NEW p \in Procs, CancelUnsubscribe(p) PROVE MessageStandsForOneTrigger'
  <2>1. tx[p].pc = "x_unneeded" /\ UNCHANGED <<trigger, sent>> /\ tx' = [tx EXCEPT ![p] = Idle]
    BY <1>6, Zenon DEF CancelUnsubscribe, Ready, db
  <2>2. tx[p].fired = {}
    BY <2>1 DEF HandlersOK, ThreadOK
  <2>3. \A q \in Procs : tx[q].fired \subseteq tx'[q].fired
    BY <2>1, <2>2, Ends DEF Others
  <2> QED
    BY <2>1, <2>3, <1>kept
<1>7. ASSUME NEW p \in Procs, NEW i \in Intents, DispatchFire(p, i) PROVE MessageStandsForOneTrigger'
  <2>1. /\ Others(p) /\ tx[p].pc = "d_loop" /\ UNCHANGED trigger /\ i \in tx[p].todo
        /\ Free(p, i)
    BY <1>7, DispatchLoops DEF DispatchFire, db
  <2>2. CASE ~ CanFire(i)
    <3>1. UNCHANGED sent
      BY <1>7, <2>2, Zenon DEF DispatchFire
    <3>2. \A q \in Procs : tx[q].fired \subseteq tx'[q].fired
      BY <1>7, DispatchLoops DEF Others
    <3> QED
      BY <2>1, <3>1, <3>2, <1>kept
  <2>3. CASE CanFire(i)
    <3>1. Announce(i) /\ tx'[p].fired = tx[p].fired \cup {i}
      BY <1>7, <2>3 DEF DispatchFire, TypeOK, Tx
    <3>2. ~ Fired(i) /\ status[i] = "active"
      BY <2>3, Zenon DEF CanFire, Fired
    <3>3. ASSUME NEW q \in Procs, i \in tx[q].fired PROVE FALSE
      <4>1. CASE tx[q].pc = "d_loop"
        <5>1. i \in tx[q].held /\ i \notin tx[q].todo
          BY <3>3, <4>1 DEF HandlersOK, ThreadOK
        <5> QED
          BY <2>1, <5>1 DEF Free
      <4>2. CASE tx[q].pc = "c_ready"
        <5>1. Inserting(q) /\ tx[q].cur = i
          BY <3>3, <4>2 DEF HandlersOK, ThreadOK, Inserting, Subscribing
        <5> QED
          BY <3>2, <5>1 DEF RowsOK
      <4>3. CASE tx[q].pc \notin {"d_loop", "c_ready"}
        BY <3>3, <4>3 DEF HandlersOK, ThreadOK
      <4> QED
        BY <4>1, <4>2, <4>3
    <3>4. ~ Triggering(i) /\ Triggering(i)'
      <4>1. i \in tx'[p].fired
        BY <3>1
      <4> QED
        BY <3>2, <3>3, <4>1, Zenon DEF Triggering
    <3>5. \A j \in Intents : Triggering(j) => Triggering(j)'
      BY <2>1, <3>1 DEF Triggering, Fired, Others
    <3> QED
      BY <3>1, <3>4, <3>5, MessagesFire
  <2> QED
    BY <2>2, <2>3
<1>8. ASSUME NEW p \in Procs, Abort(p) PROVE MessageStandsForOneTrigger'
  <2>1. /\ UNCHANGED trigger /\ tx' = [tx EXCEPT ![p] = Idle]
        /\ \A i \in Intents : sent'[i] = IF i \in tx[p].fired THEN 0 ELSE sent[i]
    BY <1>8 DEF Abort
  <2>2. Others(p)
    BY <2>1, Ends
  <2>3. \A i \in Intents : i \notin tx[p].fired => (Triggering(i) => Triggering(i)')
    BY <2>1, <2>2, Zenon DEF Triggering, Fired, Others
  <2> QED
    BY <2>1, <2>3, MessagesReset
<1>9. CASE Crash
  <2>1. /\ UNCHANGED trigger
        /\ \A i \in Intents : sent'[i] = IF \E p \in Procs : i \in tx[p].fired THEN 0 ELSE sent[i]
    BY <1>9 DEF Crash
  <2>2. \A i \in Intents : ~ (\E p \in Procs : i \in tx[p].fired) => (Triggering(i) => Triggering(i)')
    BY <2>1, Zenon DEF Triggering, Fired
  <2> QED
    BY <2>1, <2>2, MessagesReset
<1>10. CASE Boot
  BY <1>10, <1>kept DEF Boot, seen
<1> QED
  BY <1>1, <1>2, <1>3, <1>4, <1>5, <1>6, <1>7, <1>8, <1>9, <1>10, CalmOrSpecial DEF Special

-----------------------------------------------------------------------------
(* Subscriptions *)

\* The symbol is subscribed, or was unsubscribed under the feet of an intent.
Reached(s) == s \in subs \cup cut

\* A step that loses no symbol and after which nothing new relies on one.
LEMMA SubsKept ==
    ASSUME SubsOK, up' => up, \A s \in Symbols : Reached(s) => Reached(s)',
           \A i \in Intents : Open(i)' => /\ row'[i].symbol \in Symbols
                                          /\ \/ Open(i) /\ row'[i] = row[i]
                                             \/ \E p \in Procs : /\ Subscribing(p) /\ tx[p].cur = i
                                                                 /\ row'[i] = row[i],
           \A q \in Procs : Subscribing(q)' =>
               /\ row'[tx'[q].cur].symbol \in Symbols
               /\ Subscribing(q) /\ tx'[q].cur = tx[q].cur /\ row'[tx[q].cur] = row[tx[q].cur]
    PROVE  SubsOK'
<1> SUFFICES ASSUME up' PROVE /\ \A i \in Intents : Open(i)' => Reached(row[i].symbol)'
                              /\ \A q \in Procs : Subscribing(q)' => Reached(row[tx[q].cur].symbol)'
  BY Zenon DEF SubsOK, Reached
<1>1. /\ \A i \in Intents : Open(i) => Reached(row[i].symbol)
      /\ \A q \in Procs : Subscribing(q) => Reached(row[tx[q].cur].symbol)
  BY Zenon DEF SubsOK, Reached
<1>2. \A s \in Symbols : Reached(s) => s \in subs' \cup cut'
  BY Zenon DEF Reached
<1>3. ASSUME NEW i \in Intents, Open(i)' PROVE row'[i].symbol \in subs' \cup cut'
  <2>1. row'[i].symbol \in Symbols
    BY <1>3, Zenon
  <2>2. CASE Open(i) /\ row'[i] = row[i]
    BY <1>1, <1>2, <2>1, <2>2, Zenon
  <2>3. ASSUME NEW p \in Procs, Subscribing(p), tx[p].cur = i, row'[i] = row[i]
        PROVE  row'[i].symbol \in subs' \cup cut'
    <3>1. Reached(row'[i].symbol)
      BY <1>1, <2>3, Zenon
    <3> QED
      BY <1>2, <2>1, <3>1, Zenon
  <2> QED
    BY <1>3, <2>2, <2>3, Zenon
<1>4. ASSUME NEW q \in Procs, Subscribing(q)' PROVE row'[tx'[q].cur].symbol \in subs' \cup cut'
  <2>1. row'[tx'[q].cur].symbol \in Symbols /\ Reached(row'[tx'[q].cur].symbol)
    BY <1>1, <1>4, Zenon
  <2> QED
    BY <1>2, <2>1, Zenon
<1> QED
  BY <1>3, <1>4, Zenon DEF Reached

\* The rows that the invariant speaks of have a symbol.
LEMMA RelyingRows ==
    ASSUME TypeOK, RowsOK
    PROVE  /\ \A i \in Intents : Open(i) => row[i].symbol \in Symbols /\ status[i] # "absent"
           /\ \A p \in Procs : Inserting(p) \/ Cancelling(p) =>
                  tx[p].cur \in Intents /\ row[tx[p].cur].symbol \in Symbols
<1>1. \A i \in Intents : row[i] # None => row[i].symbol \in Symbols
  BY DEF TypeOK, Rows
<1>2. \A i \in Intents : Open(i) => status[i] # "absent"
  BY DEF Open, CANCELLABLE_STATUSES
<1>3. \A p \in Procs : tx[p].cur \in Intents \cup {None}
  BY DEF TypeOK, Tx
<1> QED
  BY <1>1, <1>2, <1>3 DEF RowsOK

\* A handler of p ends; rows, subscriptions and the other handlers stay.
LEMMA SubsEnd ==
    ASSUME TypeOK, RowsOK, SubsOK, NEW p \in Procs, Others(p), tx'[p].pc \in {"idle", "d_loop"},
           UNCHANGED <<up, subs, cut>>,
           \A i \in Intents : Open(i)' => /\ row'[i] = row[i]
                                          /\ Open(i) \/ (Subscribing(p) /\ tx[p].cur = i),
           \A q \in Procs \ {p} : Inserting(q) => row'[tx[q].cur] = row[tx[q].cur]
    PROVE  SubsOK'
<1>1. ~ Subscribing(p)'
  BY DEF Subscribing
<1>2. \A q \in Procs \ {p} : tx'[q] = tx[q] /\ (Subscribing(q)' => Subscribing(q) /\ Inserting(q))
  BY Zenon DEF Others, Inserting, Subscribing
<1>3. \A q \in Procs : Subscribing(q)' =>
        /\ row'[tx'[q].cur].symbol \in Symbols
        /\ Subscribing(q) /\ tx'[q].cur = tx[q].cur /\ row'[tx[q].cur] = row[tx[q].cur]
  <2> SUFFICES ASSUME NEW q \in Procs, Subscribing(q)'
               PROVE  /\ row'[tx'[q].cur].symbol \in Symbols
                      /\ Subscribing(q) /\ tx'[q].cur = tx[q].cur /\ row'[tx[q].cur] = row[tx[q].cur]
    OBVIOUS
  <2>1. q \in Procs \ {p}
    BY <1>1
  <2>2. tx'[q] = tx[q] /\ Subscribing(q) /\ Inserting(q)
    BY <1>2, <2>1, Zenon
  <2>3. row[tx[q].cur].symbol \in Symbols
    BY <2>2, RelyingRows
  <2> QED
    BY <2>1, <2>2, <2>3, Zenon
<1>4. \A i \in Intents : Open(i)' => /\ row'[i].symbol \in Symbols
                                     /\ \/ Open(i) /\ row'[i] = row[i]
                                        \/ \E q \in Procs : /\ Subscribing(q) /\ tx[q].cur = i
                                                            /\ row'[i] = row[i]
  <2> SUFFICES ASSUME NEW i \in Intents, Open(i)'
               PROVE  /\ row'[i].symbol \in Symbols
                      /\ \/ Open(i) /\ row'[i] = row[i]
                         \/ \E q \in Procs : Subscribing(q) /\ tx[q].cur = i /\ row'[i] = row[i]
    BY Zenon
  <2>1. row'[i] = row[i] /\ (Open(i) \/ (Subscribing(p) /\ tx[p].cur = i))
    BY Zenon
  <2>2. Subscribing(p) => Inserting(p)
    BY Zenon DEF Inserting
  <2>3. row[i].symbol \in Symbols
    BY <2>1, <2>2, RelyingRows
  <2> QED
    BY <2>1, <2>3, Zenon
<1>5. \A s \in Symbols : Reached(s) => Reached(s)'
  BY Zenon DEF Reached
<1> QED
  BY <1>3, <1>4, <1>5, SubsKept

\* Every step keeps what open intents and creations rely on.
LEMMA SubsNext ==
    ASSUME TypeOK, RowsOK, HandlersOK, SubsOK, [Next]_vars
    PROVE  SubsOK'
<1>cur. \A q \in Procs : Inserting(q) => tx[q].cur \in Intents /\ status[tx[q].cur] = "absent"
  BY DEF TypeOK, Tx, RowsOK
<1>1. CASE Calm
  <2>1. \A i \in Intents : Open(i)' => Open(i) /\ row'[i] = row[i]
    BY <1>1 DEF Calm, Quiet, Open, CANCELLABLE_STATUSES
  <2>2. \A q \in Procs : Subscribing(q)' =>
          /\ Subscribing(q) /\ tx'[q].cur = tx[q].cur /\ row'[tx[q].cur] = row[tx[q].cur]
          /\ Inserting(q)
    BY <1>1, Zenon DEF Calm, Inserting
  <2>3. (up' => up) /\ \A s \in Symbols : Reached(s) => Reached(s)'
    BY <1>1, Zenon DEF Calm, Reached
  <2>4. /\ \A i \in Intents : Open(i)' => row'[i].symbol \in Symbols
        /\ \A q \in Procs : Subscribing(q)' => row'[tx'[q].cur].symbol \in Symbols
    BY <2>1, <2>2, RelyingRows, Zenon
  <2> QED
    BY <2>1, <2>2, <2>3, <2>4, SubsKept
<1>2. ASSUME NEW p \in Procs, NEW i \in Intents, NEW s \in Symbols, NEW k \in Keys,
             CreateInsert(p, i, s, k) PROVE SubsOK'
  <2>1. /\ UNCHANGED <<up, subs, cut, status>>
        /\ row[i] = None /\ \A j \in Intents \ {i} : row'[j] = row[j]
    BY <1>2 DEF CreateInsert, TypeOK, seen
  <2>2. Others(p) /\ tx'[p].pc = "c_inserted"
    BY <1>2, CreateInserts
  <2>3. ~ Subscribing(p)' /\ \A q \in Procs \ {p} : Subscribing(q)' <=> Subscribing(q)
    BY <2>2 DEF Subscribing, Others
  <2>4. \A j \in Intents : Open(j)' => Open(j) /\ row'[j] = row[j]
    BY <2>1, RelyingRows, Zenon DEF Open, RowsOK
  <2>5. \A q \in Procs : Subscribing(q)' =>
          Subscribing(q) /\ tx'[q].cur = tx[q].cur /\ row'[tx[q].cur] = row[tx[q].cur]
    <3>1. \A q \in Procs : Subscribing(q) => tx[q].cur \in Intents \ {i}
      <4>1. \A q \in Procs : Subscribing(q) => Inserting(q)
        BY Zenon DEF Inserting
      <4>2. \A q \in Procs : Inserting(q) => tx[q].cur # i
        BY <2>1, Zenon DEF RowsOK
      <4> QED
        BY <4>1, <4>2, <1>cur
    <3>2. \A q \in Procs : Subscribing(q)' => q # p /\ tx'[q] = tx[q] /\ Subscribing(q)
      BY <2>2, <2>3, Zenon DEF Others
    <3> QED
      BY <2>1, <3>1, <3>2, Zenon
  <2>6. /\ \A j \in Intents : Open(j)' => row'[j].symbol \in Symbols
        /\ \A q \in Procs : Subscribing(q)' => row'[tx'[q].cur].symbol \in Symbols
    BY <2>4, <2>5, RelyingRows, Zenon DEF Inserting
  <2>7. \A u \in Symbols : Reached(u) => Reached(u)'
    BY <2>1, Zenon DEF Reached
  <2> QED
    BY <2>1, <2>4, <2>5, <2>6, <2>7, SubsKept
<1>3. ASSUME NEW p \in Procs, CreateSubscribe(p) PROVE SubsOK'
  <2>1. /\ up /\ tx' = [tx EXCEPT ![p].pc = "c_subscribed"] /\ UNCHANGED <<row, status>>
        /\ subs' = subs \cup {row[tx[p].cur].symbol} /\ cut' = cut \ {row[tx[p].cur].symbol}
    BY <1>3, Zenon DEF CreateSubscribe, Ready, db
  <2>2. Others(p) /\ tx'[p].cur = tx[p].cur
    BY <2>1, Advances
  <2>3. subs \cup cut \subseteq subs' \cup cut' /\ row[tx[p].cur].symbol \in subs' \cup cut'
    BY <2>1
  <2>4. \A q \in Procs \ {p} : tx'[q] = tx[q] /\ (Subscribing(q)' <=> Subscribing(q))
    BY <2>2, Zenon DEF Others, Subscribing
  <2>5. \A q \in Procs : Subscribing(q)' => row'[tx'[q].cur].symbol \in subs' \cup cut'
    <3>1. \A q \in Procs : Subscribing(q) => row[tx[q].cur].symbol \in subs \cup cut
      BY <2>1, Zenon DEF SubsOK
    <3> QED
      BY <2>1, <2>2, <2>3, <2>4, <3>1
  <2>6. \A i \in Intents : Open(i)' => row'[i].symbol \in subs' \cup cut'
    <3>1. \A i \in Intents : Open(i) => row[i].symbol \in subs \cup cut
      BY <2>1, Zenon DEF SubsOK
    <3> QED
      BY <2>1, <2>3, <3>1 DEF Open
  <2> QED
    BY <2>5, <2>6, Zenon DEF SubsOK
<1>4. ASSUME NEW p \in Procs, CreateFire(p) PROVE SubsOK'
  <2>1. Subscribing(p) /\ UNCHANGED <<up, subs, cut, row, status>>
    BY <1>4 DEF CreateFire, Ready, Subscribing, db
  <2>2. Others(p) /\ tx'[p].cur = tx[p].cur
    BY <1>4, CreateFires
  <2>3. \A q \in Procs : Subscribing(q)' => Subscribing(q) /\ tx'[q].cur = tx[q].cur
    BY <2>1, <2>2, Zenon DEF Others, Subscribing
  <2> QED
    BY <2>1, <2>3, Zenon DEF SubsOK, Open
<1>5. ASSUME NEW p \in Procs, CreateCommit(p) PROVE SubsOK'
  <2>1. /\ Subscribing(p) /\ tx' = [tx EXCEPT ![p] = Idle] /\ UNCHANGED <<up, subs, cut, row>>
    BY <1>5 DEF CreateCommit, Ready, Subscribing
  <2>2. \A i \in Intents : status'[i] = status[i] \/ i = tx[p].cur
    BY <1>5 DEF CreateCommit, TypeOK
  <2>3. \A i \in Intents : Open(i)' => row'[i] = row[i] /\ (Open(i) \/ (Subscribing(p) /\ tx[p].cur = i))
    BY <2>1, <2>2, Zenon DEF Open
  <2> QED
    BY <2>1, <2>3, Ends, SubsEnd
<1>6. ASSUME NEW p \in Procs, CancelUnsubscribe(p) PROVE SubsOK'
  <2> DEFINE u == row[tx[p].cur].symbol
  <2>1. /\ up /\ tx' = [tx EXCEPT ![p] = Idle] /\ UNCHANGED <<row, status>>
        /\ subs' = subs \ {u} /\ cut' = IF Needed(u) THEN cut \cup {u} ELSE cut
    BY <1>6, Zenon DEF CancelUnsubscribe, Ready, db
  <2>2. Others(p) /\ tx'[p].pc = "idle"
    BY <2>1, Ends
  <2>3. ~ Subscribing(p)' /\ \A q \in Procs \ {p} : tx'[q] = tx[q] /\ (Subscribing(q)' <=> Subscribing(q))
    BY <2>2 DEF Subscribing, Others
  <2>4. \A s : Needed(s) /\ s \in subs \cup cut => s \in subs' \cup cut'
    <3> HIDE DEF u
    <3> QED
      BY <2>1
  <2> HIDE DEF u
  <2>5. \A i \in Intents : Open(i)' => row'[i].symbol \in subs' \cup cut'
    <3> SUFFICES ASSUME NEW i \in Intents, Open(i) PROVE row[i].symbol \in subs' \cup cut'
      BY <2>1, Zenon DEF Open
    <3>1. row[i].symbol \in subs \cup cut
      BY <2>1, Zenon DEF SubsOK
    <3>2. Needed(row[i].symbol)
      BY DEF Needed, OpenOn
    <3> QED
      BY <2>4, <3>1, <3>2, Zenon
  <2>6. \A q \in Procs : Subscribing(q)' => row'[tx'[q].cur].symbol \in subs' \cup cut'
    <3> SUFFICES ASSUME NEW q \in Procs, Subscribing(q) PROVE row[tx[q].cur].symbol \in subs' \cup cut'
      BY <2>1, <2>3, Zenon
    <3>1. row[tx[q].cur].symbol \in subs \cup cut
      BY <2>1, Zenon DEF SubsOK
    <3>2. Needed(row[tx[q].cur].symbol)
      BY Zenon DEF Needed
    <3> QED
      BY <2>4, <3>1, <3>2, Zenon
  <2> QED
    BY <2>5, <2>6, Zenon DEF SubsOK
<1>7. ASSUME NEW p \in Procs, NEW i \in Intents, DispatchFire(p, i) PROVE SubsOK'
  <2>1. UNCHANGED <<row, status, up, subs, cut>> /\ Others(p) /\ tx'[p].pc = "d_loop"
    BY <1>7, DispatchLoops DEF db
  <2>2. \A j \in Intents : Open(j)' => row'[j] = row[j] /\ Open(j)
    BY <2>1, Zenon DEF Open
  <2> QED
    BY <2>1, <2>2, SubsEnd
<1>8. ASSUME NEW p \in Procs, DispatchCommit(p) PROVE SubsOK'
  <2>1. /\ tx' = [tx EXCEPT ![p] = Idle] /\ UNCHANGED <<row, up, subs, cut>>
        /\ \A i \in Intents : status'[i] = status[i] \/ status'[i] = "triggered"
    BY <1>8 DEF DispatchCommit, seen
  <2>2. \A i \in Intents : Open(i)' => row'[i] = row[i] /\ Open(i)
    BY <2>1 DEF Open, CANCELLABLE_STATUSES
  <2> QED
    BY <2>1, <2>2, SubsEnd, Ends
<1>9. ASSUME NEW p \in Procs, Abort(p) PROVE SubsOK'
  <2>1. /\ tx' = [tx EXCEPT ![p] = Idle] /\ UNCHANGED <<status, up, subs, cut>>
        /\ \A i \in Intents : row'[i] = IF Inserting(p) /\ i = tx[p].cur THEN None ELSE row[i]
    BY <1>9 DEF Abort
  <2>2. \A i \in Intents : Open(i)' => row'[i] = row[i] /\ Open(i)
    <3>1. \A i \in Intents : Open(i)' <=> Open(i)
      BY <2>1, Zenon DEF Open
    <3> QED
      BY <2>1, <3>1, <1>cur, RelyingRows, Zenon
  <2>3. \A q \in Procs \ {p} : Inserting(q) => row'[tx[q].cur] = row[tx[q].cur]
    BY <2>1, <1>cur, Zenon DEF RowsOK
  <2> QED
    <3>1. Others(p) /\ tx'[p].pc = "idle"
      BY <2>1, Ends, Zenon
    <3> QED
      BY <2>1, <2>2, <2>3, <3>1, SubsEnd, Zenon
<1>10. CASE Crash
  BY <1>10 DEF Crash, SubsOK
<1>11. CASE Boot
  <2> DEFINE needed == {row[i].symbol : i \in {j \in Intents : LifecycleRun[j] \in CANCELLABLE_STATUSES}}
  <2>1. /\ ~ up /\ status' = LifecycleRun /\ UNCHANGED <<row, tx>>
        /\ up' => subs' = needed
    BY <1>11, Zenon DEF Boot
  <2>2. \A q \in Procs : tx'[q] = Idle
    BY <2>1, Zenon DEF HandlersOK, LocksOK
  <2>3. \A q \in Procs : ~ Subscribing(q)'
    <3>1. \A q \in Procs : tx'[q].pc = "idle"
      BY <2>2, IdleFields, Zenon
    <3> QED
      BY ONLY <3>1 DEF Subscribing
  <2>4. \A i \in Intents : LifecycleRun[i] \in CANCELLABLE_STATUSES => row[i].symbol \in needed
    OBVIOUS
  <2> HIDE DEF needed
  <2>5. up' => \A i \in Intents : Open(i)' => row'[i].symbol \in subs' \cup cut'
    BY <2>1, <2>4 DEF Open
  <2> QED
    BY <2>3, <2>5, Zenon DEF SubsOK
<1> QED
  BY <1>1, <1>2, <1>3, <1>4, <1>5, <1>6, <1>7, <1>8, <1>9, <1>10, <1>11, CalmOrSpecial DEF Special

=============================================================================
