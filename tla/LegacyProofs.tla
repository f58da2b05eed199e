--------------------------- MODULE LegacyProofs -----------------------------
(***************************************************************************)
(* Proofs about the session rules at every instant, and about module       *)
(* LegacyTrack, which uses them: an intent of the legacy track fires       *)
(* once, whole and not after its trading date, and the track implements    *)
(* the contract of module IntentContract.                                  *)
(***************************************************************************)
EXTENDS LegacyTrack, TLAPS

-----------------------------------------------------------------------------
(* The session rules at every instant *)

\* The date of an instant is a natural number of days.
LEMMA DayOfNat == ASSUME NEW t \in Nat PROVE DayOf(t) \in Nat
BY DEF DayOf, MinutesPerDay

\* The date never runs backwards as the clock advances.
LEMMA DayOfMonotone ==
    ASSUME NEW s \in Nat, NEW t \in Nat, s <= t PROVE DayOf(s) <= DayOf(t)
BY DEF DayOf, MinutesPerDay

\* _next_weekday terminates within three days of any date, on a weekday.
LEMMA NextTradingDay ==
    ASSUME NEW d \in Nat
    PROVE  /\ next_trading_day(d) \in (d + 1)..(d + 3)
           /\ is_trading_day(next_trading_day(d))
           /\ \A f \in (d + 1)..(next_trading_day(d) - 1) : ~ is_trading_day(f)
<1> DEFINE First(e) == /\ is_trading_day(e)
                       /\ \A f \in (d + 1)..(e - 1) : ~ is_trading_day(f)
<1>1. \E e \in (d + 1)..(d + 3) : First(e)
  <2>1. CASE is_trading_day(d + 1)
    <3>1. First(d + 1)
      BY <2>1
    <3> QED
      BY <3>1
  <2>2. CASE ~ is_trading_day(d + 1) /\ is_trading_day(d + 2)
    <3>1. First(d + 2)
      BY <2>2
    <3> QED
      BY <3>1
  <2>3. CASE ~ is_trading_day(d + 1) /\ ~ is_trading_day(d + 2)
    <3>1. is_trading_day(d + 3)
      BY <2>3 DEF is_trading_day
    <3>2. \A f \in (d + 1)..(d + 2) : ~ is_trading_day(f)
      <4>1. \A f \in (d + 1)..(d + 2) : f = d + 1 \/ f = d + 2
        OBVIOUS
      <4> QED
        BY <2>3, <4>1
    <3>3. First(d + 3)
      BY <3>1, <3>2
    <3> QED
      BY <3>3
  <2> QED
    BY <2>1, <2>2, <2>3
<1> QED
  BY <1>1 DEF next_trading_day

\* A new day intent is for today or later, and for a trading day.
LEMMA TradingDateNotPast ==
    ASSUME NEW t \in Nat
    PROVE  /\ get_day_intent_trading_date(t) \in Nat
           /\ DayOf(t) <= get_day_intent_trading_date(t)
           /\ is_trading_day(get_day_intent_trading_date(t))
<1>1. PICK d \in Nat : d = DayOf(t)
  BY DayOfNat
<1>2. /\ next_trading_day(d) \in (d + 1)..(d + 3)
      /\ is_trading_day(next_trading_day(d))
  BY NextTradingDay
<1>3. next_trading_day(d) \in Nat /\ d <= next_trading_day(d)
  BY <1>2
<1> QED
  BY <1>1, <1>2, <1>3 DEF get_day_intent_trading_date

\* The expiry cutoff is yesterday or today.
LEMMA CutoffRange ==
    ASSUME NEW t \in Nat
    PROVE  get_expirable_day_intent_cutoff(t) \in {DayOf(t) - 1, DayOf(t)}
BY DEF get_expirable_day_intent_cutoff

\* An instant lies within its day.
LEMMA DaySplit ==
    ASSUME NEW t \in Nat
    PROVE  /\ DayOf(t) \in Nat /\ TimeOf(t) \in 0..(MinutesPerDay - 1)
           /\ t = DayOf(t) * MinutesPerDay + TimeOf(t)
BY DEF DayOf, TimeOf, MinutesPerDay

\* Within a day the time of day follows the clock.
LEMMA TimeOfMonotone ==
    ASSUME NEW s \in Nat, NEW t \in Nat, s <= t, DayOf(s) = DayOf(t)
    PROVE  TimeOf(s) \in Nat /\ TimeOf(t) \in Nat /\ TimeOf(s) <= TimeOf(t)
BY DEF DayOf, TimeOf, MinutesPerDay

\* At every instant the rules give a new intent a trading day whose session is not
\* over, do not expire it at once, and start it active exactly when that session
\* runs: the boundaries of the three functions agree, over weekends too.
THEOREM NewIntentsAreLive == ASSUME NEW t \in Nat PROVE LiveAt(t)
<1> DEFINE d == DayOf(t)
           m == TimeOf(t)
           date == get_day_intent_trading_date(t)
<1>1. d \in Nat /\ m \in 0..1439 /\ t = d * 1440 + m
  BY DaySplit DEF MinutesPerDay
<1>2. date \in Nat /\ d <= date /\ is_trading_day(date)
  BY TradingDateNotPast
<1>3. CASE is_trading_day(d) /\ m < SESSION_END
  <2>1. date = d
    BY <1>3 DEF get_day_intent_trading_date
  <2>2. get_expirable_day_intent_cutoff(t) = d - 1
    BY <1>3 DEF get_expirable_day_intent_cutoff, get_trading_day_phase, PRE_MARKET,
                REGULAR_SESSION, POST_MARKET, SESSION_START, SESSION_END
  <2>3. get_initial_day_intent_status(t) =
           IF SESSION_START <= m THEN "active" ELSE "scheduled"
    BY <1>3 DEF get_initial_day_intent_status, is_within_regular_session
  <2> HIDE DEF d, m, date
  <2>4. /\ t < date * MinutesPerDay + SESSION_END
        /\ (date * MinutesPerDay + SESSION_START <= t) = (SESSION_START <= m)
    BY <1>1, <1>3, <2>1 DEF MinutesPerDay, SESSION_START, SESSION_END
  <2>5. d - 1 < date
    BY <1>1, <2>1
  <2> QED
    BY <1>2, <2>2, <2>3, <2>4, <2>5 DEF LiveAt, date
<1>4. CASE ~ (is_trading_day(d) /\ m < SESSION_END)
  <2>1. date >= d + 1
    <3>1. PICK e \in Nat : e = d
      BY <1>1
    <3>2. next_trading_day(e) \in (e + 1)..(e + 3)
      BY NextTradingDay
    <3>3. date = next_trading_day(e)
      BY <1>4, <3>1 DEF get_day_intent_trading_date
    <3> QED
      BY <3>1, <3>2, <3>3
  <2>2. get_expirable_day_intent_cutoff(t) \in {d - 1, d}
    BY CutoffRange
  <2>3. get_initial_day_intent_status(t) = "scheduled"
    BY <1>4 DEF get_initial_day_intent_status, is_within_regular_session
  <2> HIDE DEF d, m, date
  <2>4. /\ t < date * MinutesPerDay + SESSION_END
        /\ ~ (date * MinutesPerDay + SESSION_START <= t)
    BY <1>1, <1>2, <2>1 DEF MinutesPerDay, SESSION_START, SESSION_END
  <2>5. get_expirable_day_intent_cutoff(t) < date
    BY <1>1, <1>2, <2>1, <2>2
  <2> QED
    BY <1>2, <2>3, <2>4, <2>5 DEF LiveAt, date
<1> QED
  BY <1>3, <1>4

\* The expiry cutoff never moves back, from any instant to any later one: what one
\* run of the lifecycle expired, every later run would expire.
THEOREM ExpiryNeverRetreats ==
    ASSUME NEW s \in Nat, NEW t \in Nat, s <= t
    PROVE  get_expirable_day_intent_cutoff(s) <= get_expirable_day_intent_cutoff(t)
<1>1. PICK d \in Nat, e \in Nat : d = DayOf(s) /\ e = DayOf(t)
  BY DayOfNat
<1>2. d <= e
  BY <1>1, DayOfMonotone
<1>3. /\ get_expirable_day_intent_cutoff(s) \in {d - 1, d}
      /\ get_expirable_day_intent_cutoff(t) \in {e - 1, e}
  BY <1>1, CutoffRange
<1>4. CASE d < e
  BY <1>3, <1>4
<1>5. CASE d = e
  <2>1. PICK m \in Nat, n \in Nat : m = TimeOf(s) /\ n = TimeOf(t) /\ m <= n
    BY <1>1, <1>5, TimeOfMonotone
  <2>2. get_trading_day_phase(s) = POST_MARKET => get_trading_day_phase(t) = POST_MARKET
    BY <1>1, <1>5, <2>1 DEF get_trading_day_phase, PRE_MARKET, REGULAR_SESSION, POST_MARKET,
                            SESSION_START, SESSION_END
  <2> QED
    BY <1>1, <1>5, <2>2 DEF get_expirable_day_intent_cutoff
<1> QED
  BY <1>2, <1>4, <1>5

-----------------------------------------------------------------------------
(* The invariant *)

Rows == [strategy : Strategies, date : Nat]
Statuses == {"absent", "scheduled", "active", "triggered", "expired", "cancelled",
             "cancelled_by_account_disabled"}
NoteTypes == {"market_order_triggered", "limit_order_triggered", "trailing_stop_triggered", "price_triggered"}
Transactions ==
    [pc : {"idle", "c_inserted", "x_read", "checked", "swept", "batch"}, cur : Intents \cup {None}, at : Nat,
     todo : SUBSET Intents, held : SUBSET Intents, fired : SUBSET Intents, set : SUBSET Intents]

LegacyTypes ==
    /\ now \in Nat
    /\ row \in [Intents -> Rows \cup {None}]
    /\ status \in [Intents -> Statuses]
    /\ base \in [Intents -> BOOLEAN]
    /\ event \in [Intents -> Seq(Nat)]
    /\ notes \in [Intents -> Seq(NoteTypes)]
    /\ tx \in [Procs -> Transactions]

\* At t the trading date of an intent is not over, or its creation came after it.
InTime(i, t) == i \in late \/ DayOf(t) <= row[i].date

\* An intent that fired did so at t, in time unless the dev route fired it.
FiredAt(i, t) ==
    /\ row[i] # None
    /\ event[i] = <<t>>
    /\ notes[i] = <<notification_type(row[i].strategy)>>
    /\ ~ DevRoutes => InTime(i, t)
    /\ row[i].strategy = "trailing_stop_alert" => base[i]

\* A row: nothing is written for an intent before it closes.
SoundRow(i) ==
    /\ status[i] # "absent" => row[i] # None
    /\ status[i] \in {"absent", "scheduled", "active"} => event[i] = <<>> /\ notes[i] = <<>>
    /\ status[i] = "triggered" => event[i] # <<>>
    /\ \/ event[i] = <<>> /\ notes[i] = <<>>
       \/ \E t \in Nat : FiredAt(i, t)

\* A transaction: what it inserted is not yet visible, what it listed is not past
\* its date, and what it staged is still active, by the lock it holds.
SoundTx(p) ==
    /\ tx[p].at <= now
    /\ tx[p].pc = "c_inserted" =>
          /\ tx[p].cur \in Intents
          /\ row[tx[p].cur] # None /\ status[tx[p].cur] = "absent"
          /\ DayOf(tx[p].at) <= row[tx[p].cur].date
    /\ tx[p].pc = "x_read" => tx[p].cur \in Intents /\ status[tx[p].cur] # "absent"
    /\ tx[p].pc # "batch" => tx[p].todo = {} /\ tx[p].held = {} /\ tx[p].fired = {} /\ tx[p].set = {}
    /\ tx[p].fired \subseteq tx[p].held
    /\ \A i \in tx[p].todo \cup tx[p].held :
          /\ status[i] # "absent"
          /\ ~ DevRoutes => InTime(i, tx[p].at)
    /\ \A i \in tx[p].fired :
          /\ status[i] = "active"
          /\ row[i].strategy = "trailing_stop_alert" => base[i] \/ i \in tx[p].set

\* Two transactions hold no row in common, neither a locked nor an inserted one.
Apart(p, q) ==
    /\ tx[p].held \cap tx[q].held = {}
    /\ tx[p].pc = "c_inserted" /\ tx[q].pc = "c_inserted" => tx[p].cur # tx[q].cur

LegacyInvariant ==
    /\ LegacyTypes
    /\ \A i \in Intents : SoundRow(i)
    /\ \A p \in Procs : SoundTx(p)
    /\ \A p, q \in Procs : p # q => Apart(p, q)

\* What is open after a lifecycle was swept by it, or is being committed too late.
Swept ==
    \A p \in Procs : tx[p].pc = "swept" =>
        \A i \in Intents : status[i] \in {"scheduled", "active"} => InTime(i, tx[p].at)

-----------------------------------------------------------------------------
\* persist_trigger on an intent without event or notification writes one of each.
LEMMA OneEntry ==
    ASSUME NEW t
    PROVE  Append(<<>>, t) = <<t>> /\ Len(<<t>>) = 1 /\ <<t>>[1] = t /\ <<t>> # <<>> /\ Len(<<>>) = 0
OBVIOUS

\* What a transaction holds before it begins.
LEMMA IdleFields ==
    /\ Idle.pc = "idle" /\ Idle.at = 0 /\ Idle.todo = {} /\ Idle.held = {}
    /\ Idle.fired = {} /\ Idle.set = {}
BY DEF Idle

\* The dispatcher's transaction after _dispatch_inner read the clock.
LEMMA CheckedFields ==
    ASSUME NEW t \in Nat, NEW w, w = [Idle EXCEPT !.pc = "checked", !.at = t]
    PROVE  w \in Transactions /\ w.held = {} /\ w.pc # "c_inserted"
BY DEF Idle, Transactions

\* A row stays sound while nothing is recorded for it: the cancellation, the
\* lifecycle and the cascade only close it, and only an invisible row is removed.
LEMMA RowKept ==
    ASSUME NEW i \in Intents, SoundRow(i),
           event'[i] = event[i], notes'[i] = notes[i], base[i] => base'[i],
           row'[i] = row[i] \/ (status[i] = "absent" /\ status'[i] = "absent"),
           status'[i] = status[i] \/ (status[i] # "absent" /\ status'[i] \notin {"absent", "triggered"}),
           status'[i] \in {"scheduled", "active"} => status[i] \in {"scheduled", "active"},
           late \subseteq late'
    PROVE  SoundRow(i)'
<1>1. ASSUME NEW t \in Nat, FiredAt(i, t), row'[i] = row[i] PROVE FiredAt(i, t)'
  BY <1>1 DEF FiredAt, InTime
<1> QED
  BY <1>1 DEF SoundRow, FiredAt

\* A transaction keeps its guarantees while others leave its locked and its inserted
\* rows alone, and visible rows keep strategy, date and baseline.
LEMMA TxKept ==
    ASSUME NEW p \in Procs, SoundTx(p), now \in Nat, now' \in Nat, now <= now', tx[p].at \in Nat,
           tx'[p] = tx[p],
           \A i \in tx[p].held : status'[i] = status[i],
           \A i \in Intents : status[i] # "absent" =>
               status'[i] # "absent" /\ row'[i] = row[i] /\ (base[i] => base'[i]),
           tx[p].pc = "c_inserted" =>
               row'[tx[p].cur] = row[tx[p].cur] /\ status'[tx[p].cur] = status[tx[p].cur],
           tx[p].todo \subseteq Intents, tx[p].held \subseteq Intents, late \subseteq late'
    PROVE  SoundTx(p)'
<1>1. /\ tx'[p].at <= now'
      /\ tx'[p].pc = "c_inserted" =>
          /\ tx'[p].cur \in Intents
          /\ row'[tx'[p].cur] # None /\ status'[tx'[p].cur] = "absent"
          /\ DayOf(tx'[p].at) <= row'[tx'[p].cur].date
  BY DEF SoundTx
<1>2. /\ tx'[p].pc = "x_read" => tx'[p].cur \in Intents /\ status'[tx'[p].cur] # "absent"
      /\ tx'[p].pc # "batch" =>
            tx'[p].todo = {} /\ tx'[p].held = {} /\ tx'[p].fired = {} /\ tx'[p].set = {}
      /\ tx'[p].fired \subseteq tx'[p].held
  BY DEF SoundTx
<1>3. \A i \in tx'[p].todo \cup tx'[p].held :
          /\ status'[i] # "absent"
          /\ ~ DevRoutes => i \in late' \/ DayOf(tx'[p].at) <= row'[i].date
  BY DEF SoundTx, InTime
<1>4. \A i \in tx'[p].fired :
          /\ status'[i] = "active"
          /\ row'[i].strategy = "trailing_stop_alert" => base'[i] \/ i \in tx'[p].set
  BY DEF SoundTx
<1> QED
  BY <1>1, <1>2, <1>3, <1>4 DEF SoundTx, InTime, DayOf

\* The other transactions of the database see what p has locked or inserted as taken.
LEMMA ApartKept ==
    ASSUME NEW p \in Procs,
           \A q, r \in Procs : q # r => Apart(q, r),
           \A q \in Procs \ {p} : tx'[q] = tx[q],
           \A q \in Procs \ {p} : tx'[p].held \cap tx[q].held = {},
           \A q \in Procs \ {p} :
               tx'[p].pc = "c_inserted" /\ tx[q].pc = "c_inserted" => tx'[p].cur # tx[q].cur
    PROVE  \A q, r \in Procs : q # r => Apart(q, r)'
BY DEF Apart

\* A transaction that is over, or has only read the clock, holds nothing.
LEMMA TxOver ==
    ASSUME NEW p \in Procs, now' \in Nat, tx'[p] = Idle
    PROVE  SoundTx(p)' /\ tx'[p].held = {} /\ tx'[p].pc # "c_inserted"
BY DEF SoundTx, Idle

\* The facts of one action on transaction p, p's own guarantees aside, give the invariant.
LEMMA InvariantKept ==
    ASSUME NEW p \in Procs, LegacyInvariant, LegacyTypes', now <= now', late \subseteq late',
           SoundTx(p)', \A i \in Intents : SoundRow(i)',
           \A q \in Procs \ {p} : tx'[q] = tx[q],
           \A q \in Procs \ {p} : \A i \in tx[q].held : status'[i] = status[i],
           \A i \in Intents : status[i] # "absent" =>
               status'[i] # "absent" /\ row'[i] = row[i] /\ (base[i] => base'[i]),
           \A q \in Procs \ {p} : tx[q].pc = "c_inserted" =>
               row'[tx[q].cur] = row[tx[q].cur] /\ status'[tx[q].cur] = status[tx[q].cur],
           \A q \in Procs \ {p} : tx'[p].held \cap tx[q].held = {},
           \A q \in Procs \ {p} :
               tx'[p].pc = "c_inserted" /\ tx[q].pc = "c_inserted" => tx'[p].cur # tx[q].cur
    PROVE  LegacyInvariant'
<1>1. ASSUME NEW q \in Procs PROVE SoundTx(q)'
  <2>1. CASE q = p
    BY <2>1
  <2>2. CASE q # p
    <3>1. SoundTx(q) /\ now \in Nat /\ now' \in Nat
      BY DEF LegacyInvariant, LegacyTypes
    <3>2. tx[q].at \in Nat /\ tx[q].todo \subseteq Intents /\ tx[q].held \subseteq Intents
      BY DEF LegacyInvariant, LegacyTypes, Transactions
    <3> QED
      BY <2>2, <3>1, <3>2, TxKept
  <2> QED
    BY <2>1, <2>2
<1>2. \A q, r \in Procs : q # r => Apart(q, r)'
  BY ApartKept DEF LegacyInvariant
<1> QED
  BY <1>1, <1>2 DEF LegacyInvariant

\* The same for the actions that touch the transaction only.
LEMMA InvariantKeptByTx ==
    ASSUME NEW p \in Procs, LegacyInvariant, UNCHANGED <<now, row, status, base, event, notes, late>>,
           tx' \in [Procs -> Transactions],
           SoundTx(p)',
           \A q \in Procs \ {p} : tx'[q] = tx[q],
           \A q \in Procs \ {p} : tx'[p].held \cap tx[q].held = {},
           tx'[p].pc # "c_inserted"
    PROVE  LegacyInvariant'
<1>1. LegacyTypes' /\ now <= now'
  BY DEF LegacyInvariant, LegacyTypes
<1>2. \A i \in Intents : SoundRow(i)'
  BY RowKept DEF LegacyInvariant
<1> QED
  BY <1>1, <1>2, InvariantKept

\* create, CreateTradeIntentCommand up to its flush: the inserted row is not visible,
\* and its trading date is not before the day of the request.
LEMMA CreateStep ==
    ASSUME LegacyAssumption, LegacyInvariant, NEW p \in Procs, NEW i \in Intents, NEW s \in Strategies,
           create(p, i, s)
    PROVE  LegacyInvariant'
<1> DEFINE r == [strategy |-> s, date |-> get_day_intent_trading_date(now)]
<1>1. now \in Nat /\ tx \in [Procs -> Transactions] /\ row \in [Intents -> Rows \cup {None}]
  BY DEF LegacyInvariant, LegacyTypes
<1>2. r \in Rows /\ r # None /\ DayOf(now) <= r.date
  BY <1>1, TradingDateNotPast DEF LegacyAssumption, Rows
<1>3. row[i] = None /\ status[i] = "absent"
  BY DEF create, LegacyInvariant, SoundRow
<1>4. /\ row' = [row EXCEPT ![i] = r]
      /\ UNCHANGED <<now, halt, status, base, event, notes, late>>
  BY DEF create
<1> HIDE DEF r
<1>5. tx' = [tx EXCEPT ![p] = [Idle EXCEPT !.pc = "c_inserted", !.cur = i, !.at = now]]
  BY DEF create
<1>6. tx'[p] = [Idle EXCEPT !.pc = "c_inserted", !.cur = i, !.at = now]
  BY <1>1, <1>5
<1>7. tx'[p] \in Transactions
  BY <1>1, <1>6, Zenon DEF Idle, Transactions
<1>8. LegacyTypes' /\ now <= now'
  BY <1>1, <1>2, <1>4, <1>5, <1>7 DEF LegacyInvariant, LegacyTypes
<1>9. SoundTx(p)' /\ tx'[p].held = {} /\ tx'[p].cur = i
  BY <1>1, <1>2, <1>3, <1>4, <1>6 DEF SoundTx, Idle, DayOf
<1>10. \A j \in Intents : SoundRow(j)'
  BY <1>1, <1>3, <1>4, RowKept DEF LegacyInvariant
<1>11. \A q \in Procs \ {p} : tx'[q] = tx[q]
  BY <1>1, <1>5
<1>12. \A q \in Procs \ {p} : tx[q].pc = "c_inserted" => tx[q].cur \in Intents /\ tx[q].cur # i
  BY <1>3 DEF LegacyInvariant, SoundTx
<1> QED
  BY <1>1, <1>3, <1>4, <1>8, <1>9, <1>10, <1>11, <1>12, InvariantKept

\* Steps 5 and 6 of CreateTradeIntentCommand, with the inline trigger: the row becomes
\* visible open, or triggered with its event and its notification.
LEMMA CommitCreateStep ==
    ASSUME LegacyAssumption, LegacyInvariant, NEW p \in Procs, CommitCreate(p)
    PROVE  LegacyInvariant'
<1>1. /\ now \in Nat /\ tx \in [Procs -> Transactions] /\ row \in [Intents -> Rows \cup {None}]
      /\ status \in [Intents -> Statuses] /\ base \in [Intents -> BOOLEAN]
      /\ event \in [Intents -> Seq(Nat)] /\ notes \in [Intents -> Seq(NoteTypes)]
  BY DEF LegacyInvariant, LegacyTypes
<1>2. tx[p].pc = "c_inserted" /\ tx[p].at \in Nat
  BY <1>1 DEF CommitCreate, Transactions
<1>3. /\ tx[p].cur \in Intents /\ row[tx[p].cur] # None /\ status[tx[p].cur] = "absent"
      /\ DayOf(tx[p].at) <= row[tx[p].cur].date
  BY <1>2 DEF LegacyInvariant, SoundTx
<1>a. PICK i \in Intents : i = tx[p].cur
  BY <1>3
<1>b. PICK at \in Nat : at = tx[p].at
  BY <1>2
<1>c. row[i] # None /\ status[i] = "absent" /\ DayOf(at) <= row[i].date
  BY <1>3, <1>a, <1>b
<1> DEFINE s == row[i].strategy
           initial == get_initial_day_intent_status(at)
<1>4. event[i] = <<>> /\ notes[i] = <<>>
  BY <1>c DEF LegacyInvariant, SoundRow
<1>5. initial \in {"scheduled", "active"}
  BY DEF get_initial_day_intent_status
<1>d. PICK r \in IF halt \/ initial # "active" THEN {[set |-> FALSE, fire |-> FALSE]}
                 ELSE IF s \in MARKET_ORDER_STRATEGIES THEN inline_market_order_trigger
                 ELSE inline_trigger_if_quote_met(s) :
               /\ status' = [status EXCEPT ![i] = IF r.fire THEN "triggered" ELSE initial]
               /\ base' = [base EXCEPT ![i] = r.set]
               /\ persist_trigger(IF r.fire THEN {i} ELSE {}, at)
  BY <1>a, <1>b, Zenon DEF CommitCreate
<1>7. PICK set \in BOOLEAN, fire \in BOOLEAN :
          r = [set |-> set, fire |-> fire] /\ (fire /\ s = "trailing_stop_alert" => set)
  <2> HIDE DEF s, initial
  <2>1. CASE r = [set |-> FALSE, fire |-> FALSE]
    BY <2>1, Zenon
  <2>2. CASE r \in inline_market_order_trigger /\ s \in MARKET_ORDER_STRATEGIES
    <3>1. s # "trailing_stop_alert"
      BY <2>2 DEF MARKET_ORDER_STRATEGIES
    <3> QED
      BY <2>2, <3>1, Zenon DEF inline_market_order_trigger
  <2>3. CASE r \in inline_trigger_if_quote_met(s)
    BY <2>3, Zenon DEF inline_trigger_if_quote_met
  <2> QED
    BY <1>d, <2>1, <2>2, <2>3, Zenon
<1>6. /\ status' = [status EXCEPT ![i] = IF fire THEN "triggered" ELSE initial]
       /\ base' = [base EXCEPT ![i] = set]
       /\ persist_trigger(IF fire THEN {i} ELSE {}, at)
  <2> HIDE DEF s, initial
  <2>1. r.fire = fire /\ r.set = set
    BY <1>7, Zenon
  <2> QED
    BY <1>d, <2>1, Zenon
<1>8. tx' = [tx EXCEPT ![p] = Idle] /\ UNCHANGED <<now, halt, row>> /\ late \subseteq late'
  BY DEF CommitCreate
<1> HIDE DEF s, initial
<1>9. /\ status'[i] = (IF fire THEN "triggered" ELSE initial) /\ base'[i] = set
      /\ \A j \in Intents \ {i} : status'[j] = status[j] /\ base'[j] = base[j]
  BY <1>1, <1>c, <1>6
<1>10. \A j \in Intents \ {i} : event'[j] = event[j] /\ notes'[j] = notes[j]
  BY <1>6 DEF persist_trigger
<1>11. fire => event'[i] = <<at>> /\ notes'[i] = <<notification_type(row[i].strategy)>>
  BY <1>c, <1>4, <1>6, OneEntry, Zenon DEF persist_trigger
<1>12. ~ fire => event'[i] = <<>> /\ notes'[i] = <<>>
  BY <1>c, <1>4, <1>6 DEF persist_trigger
<1>13. notification_type(row[i].strategy) \in NoteTypes
  BY DEF notification_type, NoteTypes
<1>14. /\ event' \in [Intents -> Seq(Nat)] /\ notes' \in [Intents -> Seq(NoteTypes)]
  <2>1. \A j \in Intents : event'[j] \in Seq(Nat) /\ notes'[j] \in Seq(NoteTypes)
    <3> <<at>> \in Seq(Nat) /\ <<>> \in Seq(Nat) /\ <<>> \in Seq(NoteTypes)
      OBVIOUS
    <3> <<notification_type(row[i].strategy)>> \in Seq(NoteTypes)
      BY <1>13
    <3>0. \A j \in Intents \ {i} : event'[j] \in Seq(Nat) /\ notes'[j] \in Seq(NoteTypes)
      BY <1>1, <1>10
    <3>1. CASE fire
      BY <3>0, <3>1, <1>11, Zenon
    <3>2. CASE ~ fire
      BY <3>0, <3>2, <1>12, Zenon
    <3> QED
      BY <3>1, <3>2
  <2>2. event' = [j \in Intents |-> event'[j]] /\ notes' = [j \in Intents |-> notes'[j]]
    BY <1>6 DEF persist_trigger
  <2> QED
    BY <2>1, <2>2
<1>15. tx'[p] = Idle /\ \A q \in Procs \ {p} : tx'[q] = tx[q]
  BY <1>1, <1>8
<1>16. LegacyTypes' /\ now <= now'
  <2>1. tx' \in [Procs -> Transactions]
    BY <1>1, <1>8 DEF Idle, Transactions
  <2>2. status' \in [Intents -> Statuses] /\ base' \in [Intents -> BOOLEAN]
    BY <1>1, <1>5, <1>6, <1>7 DEF Statuses
  <2> QED
    BY <1>1, <1>8, <1>14, <2>1, <2>2 DEF LegacyTypes
<1>17. SoundTx(p)' /\ tx'[p].held = {} /\ tx'[p].pc # "c_inserted"
  BY <1>1, <1>8, <1>15, TxOver
<1>18. SoundRow(i)'
  <2>1. CASE fire
    <3>1. FiredAt(i, at)'
      BY <2>1, <1>c, <1>7, <1>8, <1>9, <1>11 DEF FiredAt, InTime, s
    <3>2. event'[i] # <<>> /\ status'[i] = "triggered" /\ row'[i] # None
      <4>0. <<at>> # <<>>
        BY ONLY TRUE
      <4>1. event'[i] # <<>>
        BY <2>1, <1>11, <4>0, Zenon
      <4>2. status'[i] = "triggered"
        BY <2>1, <1>9, Zenon
      <4>3. row'[i] # None
        BY <1>c, <1>8
      <4> QED
        BY <4>1, <4>2, <4>3
    <3>3. \E t \in Nat : FiredAt(i, t)'
      BY <3>1
    <3> QED
      BY <3>2, <3>3 DEF SoundRow
  <2>2. CASE ~ fire
    BY <2>2, <1>c, <1>5, <1>8, <1>9, <1>12 DEF SoundRow
  <2> QED
    BY <2>1, <2>2
<1>19. \A j \in Intents : SoundRow(j)'
  BY <1>8, <1>9, <1>10, <1>18, RowKept DEF LegacyInvariant
<1>20. \A q \in Procs \ {p} : \A j \in tx[q].held : j # i /\ j \in Intents
  BY <1>1, <1>c DEF LegacyInvariant, SoundTx, Transactions
<1>21. \A q \in Procs \ {p} : tx[q].pc = "c_inserted" => tx[q].cur \in Intents /\ tx[q].cur # i
  BY <1>2, <1>a DEF LegacyInvariant, SoundTx, Apart
<1>22. \A q \in Procs \ {p} : \A j \in tx[q].held : status'[j] = status[j]
  BY <1>9, <1>20, Zenon
<1>23. \A j \in Intents : status[j] # "absent" =>
           status'[j] # "absent" /\ row'[j] = row[j] /\ (base[j] => base'[j])
  BY <1>c, <1>8, <1>9, Zenon
<1>24. \A q \in Procs \ {p} : tx[q].pc = "c_inserted" =>
           row'[tx[q].cur] = row[tx[q].cur] /\ status'[tx[q].cur] = status[tx[q].cur]
  BY <1>8, <1>9, <1>21, Zenon
<1>25. \A q \in Procs \ {p} : tx'[p].held \cap tx[q].held = {}
  BY <1>17, Zenon
<1> QED
  BY <1>8, <1>15, <1>16, <1>17, <1>19, <1>22, <1>23, <1>24, <1>25, InvariantKept, Zenon

\* CancelTradeIntentCommand reads the status; it does not lock the row.
LEMMA ReadForCancelStep ==
    ASSUME LegacyInvariant, NEW p \in Procs, NEW i \in Intents, ReadForCancel(p, i)
    PROVE  LegacyInvariant'
<1>1. now \in Nat /\ tx \in [Procs -> Transactions] /\ status[i] \in {"scheduled", "active"}
  BY DEF LegacyInvariant, LegacyTypes, ReadForCancel, CANCELLABLE_STATUSES
<1>2. /\ tx' = [tx EXCEPT ![p] = [Idle EXCEPT !.pc = "x_read", !.cur = i]]
      /\ UNCHANGED <<now, halt, row, status, base, event, notes, late>>
  BY DEF ReadForCancel
<1>3. /\ tx'[p] = [Idle EXCEPT !.pc = "x_read", !.cur = i]
      /\ \A q \in Procs \ {p} : tx'[q] = tx[q]
  BY <1>1, <1>2
<1>4. tx'[p] \in Transactions /\ tx'[p].held = {} /\ tx'[p].pc # "c_inserted"
  <2>0. tx'[p] = [pc |-> "x_read", cur |-> i, at |-> 0, todo |-> {}, held |-> {}, fired |-> {}, set |-> {}]
    BY <1>3, Zenon DEF Idle
  <2>1. tx'[p] \in Transactions
    BY <2>0 DEF Transactions
  <2>2. tx'[p].held = {} /\ tx'[p].pc # "c_inserted"
    BY <1>3 DEF Idle
  <2> QED
    BY <2>1, <2>2
<1>5. SoundTx(p)'
  BY <1>1, <1>2, <1>3 DEF SoundTx, Idle
<1>6. tx' \in [Procs -> Transactions]
  BY <1>1, <1>2, <1>4
<1> QED
  BY <1>2, <1>3, <1>4, <1>5, <1>6, InvariantKeptByTx

\* The update by id closes what is open, or relabels what was closed in between.
LEMMA CancelStep ==
    ASSUME LegacyInvariant, NEW p \in Procs, cancel(p)
    PROVE  LegacyInvariant'
<1>1. /\ now \in Nat /\ tx \in [Procs -> Transactions] /\ status \in [Intents -> Statuses]
  BY DEF LegacyInvariant, LegacyTypes
<1>2. tx[p].cur \in Intents /\ status[tx[p].cur] # "absent"
  BY DEF cancel, LegacyInvariant, SoundTx
<1>3. PICK i \in Intents : i = tx[p].cur
  BY <1>2
<1>4. /\ status[i] # "absent"
      /\ \A q \in Procs \ {p} : i \notin tx[q].held
      /\ status' = [status EXCEPT ![i] = "cancelled"]
      /\ tx' = [tx EXCEPT ![p] = Idle]
      /\ UNCHANGED <<now, halt, row, base, event, notes, late>>
  BY <1>2, <1>3 DEF cancel, Free
<1>5. /\ tx'[p] = Idle /\ \A q \in Procs \ {p} : tx'[q] = tx[q]
      /\ status'[i] = "cancelled" /\ \A j \in Intents \ {i} : status'[j] = status[j]
  BY <1>1, <1>4
<1>6. LegacyTypes' /\ now <= now'
  <2>1. tx' \in [Procs -> Transactions] /\ status' \in [Intents -> Statuses]
    BY <1>1, <1>4 DEF Idle, Transactions, Statuses
  <2>2. now <= now'
    BY ONLY <1>1, <1>4
  <2> QED
    BY <1>1, <1>4, <2>1, <2>2, Zenon DEF LegacyInvariant, LegacyTypes
<1>7. SoundTx(p)' /\ tx'[p].held = {} /\ tx'[p].pc # "c_inserted"
  BY <1>1, <1>4, <1>5, TxOver
<1>8. \A j \in Intents : SoundRow(j)'
  BY <1>4, <1>5, RowKept DEF LegacyInvariant
<1>9. \A q \in Procs \ {p} : \A j \in tx[q].held : j # i /\ j \in Intents
  BY <1>1, <1>4 DEF Transactions
<1>10. \A q \in Procs \ {p} : tx[q].pc = "c_inserted" => tx[q].cur \in Intents /\ tx[q].cur # i
  <2>1. ASSUME NEW q \in Procs, tx[q].pc = "c_inserted" PROVE tx[q].cur \in Intents /\ status[tx[q].cur] = "absent"
    <3>1. SoundTx(q)
      BY Zenon DEF LegacyInvariant
    <3> QED
      BY <2>1, <3>1, Zenon DEF SoundTx
  <2> QED
    BY <1>4, <2>1, Zenon
<1> QED
  BY <1>4, <1>5, <1>6, <1>7, <1>8, <1>9, <1>10, InvariantKept

\* _dispatch_inner reads the kill switch and the clock.
LEMMA BeginDispatchStep ==
    ASSUME LegacyInvariant, NEW p \in Procs, BeginDispatch(p)
    PROVE  LegacyInvariant'
<1>1. now \in Nat /\ tx \in [Procs -> Transactions]
  BY DEF LegacyInvariant, LegacyTypes
<1>2. /\ tx' = [tx EXCEPT ![p] = [Idle EXCEPT !.pc = "checked", !.at = now]]
      /\ UNCHANGED <<now, halt, row, status, base, event, notes, late>>
  BY DEF BeginDispatch
<1>3. /\ tx'[p] = [Idle EXCEPT !.pc = "checked", !.at = now]
      /\ \A q \in Procs \ {p} : tx'[q] = tx[q]
  BY <1>1, <1>2
<1>4. tx'[p] \in Transactions /\ tx'[p].held = {} /\ tx'[p].pc # "c_inserted"
  BY <1>1, <1>3, CheckedFields, Zenon
<1>5. SoundTx(p)'
  BY <1>1, <1>2, <1>3 DEF SoundTx, Idle
<1>6. tx' \in [Procs -> Transactions]
  BY <1>1, <1>2, <1>4
<1> QED
  BY <1>2, <1>3, <1>4, <1>5, <1>6, InvariantKeptByTx

\* The lifecycle leaves no intent active whose date lies before today.
LEMMA LifecycleKeeps ==
    ASSUME LegacyInvariant, NEW i \in Intents
    PROVE  /\ LifecycleRun[i] \in Statuses
           /\ LifecycleRun[i] = status[i] \/
                 (status[i] \in {"scheduled", "active"} /\ LifecycleRun[i] \in {"expired", "active"})
           /\ LifecycleRun[i] \in {"scheduled", "active"} => DayOf(now) <= row[i].date
<1>1. now \in Nat /\ status[i] \in Statuses /\ (status[i] # "absent" => row[i] \in Rows)
  BY DEF LegacyInvariant, LegacyTypes, SoundRow
<1>2. /\ DayOf(now) \in Nat
      /\ get_expirable_day_intent_cutoff(now) \in {DayOf(now) - 1, DayOf(now)}
  BY <1>1, DayOfNat, CutoffRange
<1>3. status[i] # "absent" => row[i].date \in Nat
  BY <1>1 DEF Rows
<1>4. PICK cut : cut = get_expirable_day_intent_cutoff(now)
  OBVIOUS
<1>5. PICK today : today = DayOf(now)
  OBVIOUS
<1>6. today \in Nat /\ cut \in {today - 1, today}
  BY <1>2, <1>4, <1>5, Zenon
<1>7. LifecycleRun[i] =
        IF status[i] \notin CANCELLABLE_STATUSES THEN status[i]
        ELSE IF row[i].date <= cut THEN "expired"
        ELSE IF get_trading_day_phase(now) = REGULAR_SESSION /\ status[i] = "scheduled" /\ row[i].date = today
             THEN "active"
        ELSE status[i]
  BY <1>4, <1>5 DEF LifecycleRun
<1>8. /\ LifecycleRun[i] \in Statuses
      /\ LifecycleRun[i] = status[i] \/
            (status[i] \in {"scheduled", "active"} /\ LifecycleRun[i] \in {"expired", "active"})
      /\ LifecycleRun[i] \in {"scheduled", "active"} => today <= row[i].date
  BY ONLY <1>1, <1>3, <1>6, <1>7 DEF CANCELLABLE_STATUSES, Statuses
<1> QED
  BY <1>5, <1>8, Zenon

\* The transaction of a dispatch goes on.
LEMMA SweptFields ==
    ASSUME NEW w \in Transactions, NEW v, v = [w EXCEPT !.pc = "swept"]
    PROVE  /\ v \in Transactions /\ v.pc = "swept" /\ v.at = w.at
           /\ v.todo = w.todo /\ v.held = w.held /\ v.fired = w.fired /\ v.set = w.set
BY DEF Transactions

\* The lifecycle only expires and activates rows that are not locked.
LEMMA RunLifecycleStep ==
    ASSUME LegacyInvariant, NEW p \in Procs, RunLifecycle(p)
    PROVE  LegacyInvariant'
<1>1. now \in Nat /\ tx \in [Procs -> Transactions] /\ SoundTx(p) /\ tx[p].pc = "checked"
  BY DEF LegacyInvariant, LegacyTypes, RunLifecycle
<1>2. /\ status' = LifecycleRun
      /\ tx' = [tx EXCEPT ![p].pc = "swept"]
      /\ UNCHANGED <<now, halt, row, base, event, notes, late>>
      /\ \A i \in Intents : status'[i] # status[i] => \A q \in Procs \ {p} : i \notin tx[q].held
  BY DEF RunLifecycle, LifecycleReady, Free
<1>3. /\ tx'[p] = [tx[p] EXCEPT !.pc = "swept"]
      /\ \A q \in Procs \ {p} : tx'[q] = tx[q]
  BY <1>1, <1>2
<1>4. \A i \in Intents :
          /\ status'[i] \in Statuses
          /\ status'[i] = status[i] \/
                (status[i] \in {"scheduled", "active"} /\ status'[i] \in {"expired", "active"})
  BY <1>2, LifecycleKeeps
<1>5. /\ tx'[p] \in Transactions /\ tx'[p].pc = "swept" /\ tx'[p].at = tx[p].at
      /\ tx'[p].todo = {} /\ tx'[p].held = {} /\ tx'[p].fired = {} /\ tx'[p].set = {}
  <2>1. tx[p] \in Transactions /\ tx[p].todo = {} /\ tx[p].held = {} /\ tx[p].fired = {} /\ tx[p].set = {}
    BY <1>1 DEF SoundTx
  <2> QED
    BY <1>3, <2>1, SweptFields
<1>6. LegacyTypes' /\ now <= now'
  <2>1. tx' \in [Procs -> Transactions]
    BY <1>1, <1>2, <1>5
  <2>2. status' \in [Intents -> Statuses]
    BY <1>2, <1>4 DEF LifecycleRun
  <2> QED
    BY <1>1, <1>2, <2>1, <2>2 DEF LegacyInvariant, LegacyTypes
<1>7. SoundTx(p)'
  <2>1. tx[p].at <= now
    BY <1>1 DEF SoundTx
  <2> QED
    BY <1>2, <1>5, <2>1 DEF SoundTx
<1>8. \A i \in Intents : SoundRow(i)'
  BY <1>2, <1>4, RowKept DEF LegacyInvariant
<1>9. \A q \in Procs \ {p} : \A i \in tx[q].held : status'[i] = status[i]
  BY <1>1, <1>2 DEF Transactions
<1>10. \A q \in Procs \ {p} : tx[q].pc = "c_inserted" =>
           tx[q].cur \in Intents /\ status'[tx[q].cur] = status[tx[q].cur]
  BY <1>4 DEF LegacyInvariant, SoundTx
<1> QED
  BY <1>2, <1>3, <1>4, <1>5, <1>6, <1>7, <1>8, <1>9, <1>10, InvariantKept, Zenon

\* What the dispatch lists is in time: the lifecycle swept it, or its creation was
\* committed since, after its trading date.
LEMMA ListActiveStep ==
    ASSUME LegacyInvariant, Swept, NEW p \in Procs, ListActive(p)
    PROVE  LegacyInvariant'
<1>1. now \in Nat /\ tx \in [Procs -> Transactions] /\ SoundTx(p) /\ tx[p].pc = "swept"
  BY DEF LegacyInvariant, LegacyTypes, ListActive
<1>2. PICK S \in SUBSET Intents : S = {i \in Intents : status[i] = "active"}
  BY Zenon
<1>3. /\ tx' = [tx EXCEPT ![p].pc = "batch", ![p].todo = S]
      /\ UNCHANGED <<now, halt, row, status, base, event, notes, late>>
  BY <1>2 DEF ListActive
<1>4. /\ tx'[p] = [tx[p] EXCEPT !.pc = "batch", !.todo = S]
      /\ \A q \in Procs \ {p} : tx'[q] = tx[q]
  BY <1>1, <1>3
<1>5. /\ tx'[p].pc = "batch" /\ tx'[p].todo = S /\ tx'[p].at = tx[p].at
      /\ tx'[p].held = {} /\ tx'[p].fired = {} /\ tx'[p].set = {} /\ tx'[p] \in Transactions
  <2>1. tx[p] \in Transactions /\ tx[p].held = {} /\ tx[p].fired = {} /\ tx[p].set = {}
    BY <1>1 DEF SoundTx
  <2>2. tx'[p] \in Transactions
    BY <1>4, <2>1, Zenon DEF Transactions
  <2>3. /\ tx'[p].pc = "batch" /\ tx'[p].todo = S
        /\ tx'[p].held = {} /\ tx'[p].fired = {} /\ tx'[p].set = {} /\ tx'[p].at = tx[p].at
    BY <1>4, <2>1 DEF Transactions
  <2> QED
    BY <2>2, <2>3
<1>6. \A i \in S : status[i] # "absent" /\ InTime(i, tx[p].at)
  BY <1>1, <1>2 DEF Swept
<1>7. SoundTx(p)'
  <2>1. tx[p].at <= now
    BY <1>1 DEF SoundTx
  <2> QED
    BY <1>3, <1>5, <1>6, <2>1 DEF SoundTx, InTime, DayOf
<1>8. tx' \in [Procs -> Transactions]
  BY <1>1, <1>3, <1>5
<1> QED
  BY <1>3, <1>4, <1>5, <1>7, <1>8, InvariantKeptByTx

\* evaluate_quotes, mounted with LOCAL_MODE, lists what is active at that instant.
LEMMA EvaluateStep ==
    ASSUME LegacyInvariant, NEW p \in Procs, evaluate_quotes(p)
    PROVE  LegacyInvariant'
<1>1. now \in Nat /\ tx \in [Procs -> Transactions] /\ DevRoutes
  BY DEF LegacyInvariant, LegacyTypes, evaluate_quotes
<1>2. PICK S \in SUBSET Intents : S = {i \in Intents : status[i] = "active"}
  BY Zenon
<1>3. /\ tx' = [tx EXCEPT ![p] = [Idle EXCEPT !.pc = "batch", !.at = now, !.todo = S]]
      /\ UNCHANGED <<now, halt, row, status, base, event, notes, late>>
  BY <1>2 DEF evaluate_quotes
<1>4. /\ tx'[p] = [Idle EXCEPT !.pc = "batch", !.at = now, !.todo = S]
      /\ \A q \in Procs \ {p} : tx'[q] = tx[q]
  BY <1>1, <1>3
<1>5. tx'[p] \in Transactions
  BY <1>1, <1>4, Zenon DEF Idle, Transactions
<1>6. /\ tx'[p].pc = "batch" /\ tx'[p].at = now /\ tx'[p].todo = S
      /\ tx'[p].held = {} /\ tx'[p].fired = {}
  BY <1>4 DEF Idle
<1>7. SoundTx(p)'
  BY <1>1, <1>2, <1>3, <1>6 DEF SoundTx
<1>8. tx' \in [Procs -> Transactions]
  BY <1>1, <1>3, <1>5
<1> QED
  BY <1>3, <1>4, <1>6, <1>7, <1>8, InvariantKeptByTx

\* What the evaluator declines leaves the batch.
LEMMA SkipStep ==
    ASSUME LegacyInvariant, NEW p \in Procs, NEW i \in Intents, tx[p].pc = "batch",
           tx' = [tx EXCEPT ![p].todo = @ \ {i}],
           UNCHANGED <<now, halt, row, status, base, event, notes, late>>
    PROVE  LegacyInvariant'
<1>1. now \in Nat /\ tx \in [Procs -> Transactions] /\ SoundTx(p)
  BY DEF LegacyInvariant, LegacyTypes
<1>2. /\ tx'[p] = [tx[p] EXCEPT !.todo = tx[p].todo \ {i}]
      /\ \A q \in Procs \ {p} : tx'[q] = tx[q]
  BY <1>1
<1>3. tx'[p] \in Transactions
  BY <1>1, <1>2 DEF Transactions
<1>4. /\ tx'[p].pc = "batch" /\ tx'[p].at = tx[p].at /\ tx'[p].todo = tx[p].todo \ {i}
      /\ tx'[p].held = tx[p].held /\ tx'[p].fired = tx[p].fired /\ tx'[p].set = tx[p].set
  BY <1>1, <1>2 DEF Transactions
<1>5. SoundTx(p)'
  BY <1>1, <1>4 DEF SoundTx, InTime, DayOf
<1>6. tx' \in [Procs -> Transactions]
  BY <1>1, <1>3
<1>7. \A q \in Procs \ {p} : tx'[p].held \cap tx[q].held = {}
  BY <1>4 DEF LegacyInvariant, Apart
<1> QED
  BY <1>2, <1>4, <1>5, <1>6, <1>7, InvariantKeptByTx, Zenon

\* Moving the baseline of a trailing stop locks its row.
LEMMA BaselineStep ==
    ASSUME LegacyInvariant, NEW p \in Procs, NEW i \in Intents, system_update_trailing_baseline(p, i)
    PROVE  LegacyInvariant'
<1>1. now \in Nat /\ tx \in [Procs -> Transactions] /\ SoundTx(p)
  BY DEF LegacyInvariant, LegacyTypes
<1>2. /\ tx[p].pc = "batch" /\ i \in tx[p].todo /\ \A q \in Procs \ {p} : i \notin tx[q].held
      /\ tx' = [tx EXCEPT ![p].set = @ \cup {i}, ![p].held = @ \cup {i}]
      /\ UNCHANGED <<now, halt, row, status, base, event, notes, late>>
  BY DEF system_update_trailing_baseline, Free
<1>3. /\ tx'[p] = [tx[p] EXCEPT !.set = tx[p].set \cup {i}, !.held = tx[p].held \cup {i}]
      /\ \A q \in Procs \ {p} : tx'[q] = tx[q]
  BY <1>1, <1>2
<1>4. tx'[p] \in Transactions
  <2>1. PICK S \in SUBSET Intents, H \in SUBSET Intents : S = tx[p].set \cup {i} /\ H = tx[p].held \cup {i}
    BY <1>1, Zenon DEF Transactions
  <2>2. tx'[p] = [tx[p] EXCEPT !.set = S, !.held = H] /\ tx[p] \in Transactions
    BY <1>1, <1>3, <2>1
  <2> QED
    BY <2>2, Zenon DEF Transactions
<1>5. /\ tx'[p].pc = "batch" /\ tx'[p].at = tx[p].at /\ tx'[p].todo = tx[p].todo
      /\ tx'[p].held = tx[p].held \cup {i} /\ tx'[p].fired = tx[p].fired
      /\ tx'[p].set = tx[p].set \cup {i}
  BY <1>1, <1>2, <1>3 DEF Transactions
<1>6. SoundTx(p)'
  BY <1>1, <1>2, <1>5 DEF SoundTx, InTime, DayOf
<1>7. tx' \in [Procs -> Transactions]
  BY <1>1, <1>2, <1>4
<1>8. \A q \in Procs \ {p} : tx'[p].held \cap tx[q].held = {}
  <2>1. \A q \in Procs \ {p} : tx[p].held \cap tx[q].held = {}
    BY DEF LegacyInvariant, Apart
  <2> QED
    BY <1>2, <1>5, <2>1, Zenon
<1> QED
  BY <1>2, <1>3, <1>5, <1>6, <1>7, <1>8, InvariantKeptByTx

\* TriggerIntentCommand.stage locks the row and asks its status again; the lock keeps
\* it active until the batch commits.  A conflict only drops it from the batch.
LEMMA TriggerStep ==
    ASSUME LegacyInvariant, NEW p \in Procs, NEW i \in Intents, Trigger(p, i)
    PROVE  LegacyInvariant'
<1>0. CASE ~ stage(i)
  BY <1>0, SkipStep, Zenon DEF Trigger
<1>a. CASE stage(i)
  <2>1. now \in Nat /\ tx \in [Procs -> Transactions] /\ SoundTx(p)
    BY DEF LegacyInvariant, LegacyTypes
  <2>2. /\ tx[p].pc = "batch" /\ i \in tx[p].todo /\ \A q \in Procs \ {p} : i \notin tx[q].held
        /\ tx' = [tx EXCEPT ![p].todo = @ \ {i}, ![p].held = @ \cup {i}, ![p].fired = @ \cup {i}]
        /\ status[i] = "active"
        /\ row[i].strategy = "trailing_stop_alert" => base[i] \/ i \in tx[p].set
        /\ UNCHANGED <<now, halt, row, status, base, event, notes, late>>
    BY <1>a DEF Trigger, Free, stage
  <2>3. /\ tx'[p] = [tx[p] EXCEPT !.todo = tx[p].todo \ {i}, !.held = tx[p].held \cup {i},
                                  !.fired = tx[p].fired \cup {i}]
        /\ \A q \in Procs \ {p} : tx'[q] = tx[q]
    BY <2>1, <2>2
  <2>4. tx'[p] \in Transactions
    <3>1. PICK T \in SUBSET Intents, H \in SUBSET Intents, F \in SUBSET Intents :
              T = tx[p].todo \ {i} /\ H = tx[p].held \cup {i} /\ F = tx[p].fired \cup {i}
      BY <2>1, Zenon DEF Transactions
    <3>2. tx'[p] = [tx[p] EXCEPT !.todo = T, !.held = H, !.fired = F] /\ tx[p] \in Transactions
      BY <2>1, <2>3, <3>1
    <3> QED
      BY <3>2, Zenon DEF Transactions
  <2>5. /\ tx'[p].pc = "batch" /\ tx'[p].at = tx[p].at /\ tx'[p].todo = tx[p].todo \ {i}
        /\ tx'[p].held = tx[p].held \cup {i} /\ tx'[p].fired = tx[p].fired \cup {i}
        /\ tx'[p].set = tx[p].set
    BY <2>1, <2>2, <2>3 DEF Transactions
  <2>6. SoundTx(p)'
    <3>1. tx[p].fired \cup {i} \subseteq tx[p].held \cup {i}
      BY <2>1, Zenon DEF SoundTx
    <3>2. ASSUME NEW j \in tx'[p].todo \cup tx'[p].held
          PROVE  status'[j] # "absent" /\ (~ DevRoutes => InTime(j, tx[p].at)')
      BY <2>1, <2>2, <2>5, Zenon DEF SoundTx, InTime, DayOf
    <3>3. ASSUME NEW j \in tx'[p].fired
          PROVE  /\ status'[j] = "active"
                 /\ row'[j].strategy = "trailing_stop_alert" => base'[j] \/ j \in tx'[p].set
      BY <2>1, <2>2, <2>5, Zenon DEF SoundTx
    <3>4. tx'[p].at <= now' /\ tx'[p].fired \subseteq tx'[p].held
      BY <2>1, <2>2, <2>5, <3>1, Zenon DEF SoundTx
    <3> QED
      BY <2>5, <3>2, <3>3, <3>4, Zenon DEF SoundTx
  <2>7. tx' \in [Procs -> Transactions]
    BY <2>1, <2>2, <2>4
  <2>8. \A q \in Procs \ {p} : tx'[p].held \cap tx[q].held = {}
    <3>1. \A q \in Procs \ {p} : tx[p].held \cap tx[q].held = {}
      BY DEF LegacyInvariant, Apart
    <3> QED
      BY <2>2, <2>5, <3>1, Zenon
  <2> QED
    BY <2>2, <2>3, <2>5, <2>6, <2>7, <2>8, InvariantKeptByTx
<1> QED
  BY <1>0, <1>a

\* A commit writes the whole batch: every staged intent closes with its event and its
\* notification, and the baselines moved become visible.
LEMMA CommitBatchStep ==
    ASSUME LegacyInvariant, NEW p \in Procs, CommitBatch(p)
    PROVE  LegacyInvariant'
<1>1. /\ now \in Nat /\ tx \in [Procs -> Transactions] /\ row \in [Intents -> Rows \cup {None}]
      /\ status \in [Intents -> Statuses] /\ base \in [Intents -> BOOLEAN]
      /\ event \in [Intents -> Seq(Nat)] /\ notes \in [Intents -> Seq(NoteTypes)]
      /\ SoundTx(p)
  BY DEF LegacyInvariant, LegacyTypes
<1>2. PICK F \in SUBSET Intents, S \in SUBSET Intents, at \in Nat :
          F = tx[p].fired /\ S = tx[p].set /\ at = tx[p].at
  BY <1>1, Zenon DEF Transactions
<1>3. /\ status' = [i \in Intents |-> IF i \in F THEN "triggered" ELSE status[i]]
      /\ base' = [i \in Intents |-> base[i] \/ i \in S]
      /\ event' = [i \in Intents |-> IF i \in F THEN Append(event[i], at) ELSE event[i]]
      /\ notes' = [i \in Intents |->
             IF i \in F THEN Append(notes[i], notification_type(row[i].strategy)) ELSE notes[i]]
      /\ tx' = [tx EXCEPT ![p] = Idle] /\ UNCHANGED <<now, halt, row, late>>
  BY <1>2 DEF CommitBatch, persist_trigger
<1>4. \A i \in F : /\ status[i] = "active" /\ row[i] # None /\ event[i] = <<>> /\ notes[i] = <<>>
                   /\ ~ DevRoutes => InTime(i, at)
                   /\ row[i].strategy = "trailing_stop_alert" => base[i] \/ i \in S
  BY <1>1, <1>2 DEF SoundTx, LegacyInvariant, SoundRow
<1>5. \A i \in F : event'[i] = <<at>> /\ notes'[i] = <<notification_type(row[i].strategy)>>
  BY <1>3, <1>4, OneEntry, Zenon
<1>6. \A i \in Intents \ F : event'[i] = event[i] /\ notes'[i] = notes[i] /\ status'[i] = status[i]
  BY <1>3
<1>7. event' \in [Intents -> Seq(Nat)] /\ notes' \in [Intents -> Seq(NoteTypes)]
  <2>1. <<at>> \in Seq(Nat)
    OBVIOUS
  <2>2. \A i \in F : <<notification_type(row[i].strategy)>> \in Seq(NoteTypes)
    BY DEF notification_type, NoteTypes
  <2>3. \A i \in Intents : event'[i] \in Seq(Nat) /\ notes'[i] \in Seq(NoteTypes)
    BY <1>1, <1>5, <1>6, <2>1, <2>2, Zenon
  <2>4. event' = [i \in Intents |-> event'[i]] /\ notes' = [i \in Intents |-> notes'[i]]
    BY <1>3
  <2> QED
    BY <2>3, <2>4
<1>8. tx'[p] = Idle /\ \A q \in Procs \ {p} : tx'[q] = tx[q]
  BY <1>1, <1>3
<1>9. LegacyTypes' /\ now <= now'
  <2>1. tx' \in [Procs -> Transactions]
    BY <1>1, <1>3 DEF Idle, Transactions
  <2>2. status' \in [Intents -> Statuses] /\ base' \in [Intents -> BOOLEAN]
    BY <1>1, <1>3 DEF Statuses
  <2> QED
    BY <1>1, <1>3, <1>7, <2>1, <2>2 DEF LegacyTypes
<1>10. SoundTx(p)' /\ tx'[p].held = {} /\ tx'[p].pc # "c_inserted"
  BY <1>1, <1>3, <1>8, TxOver
<1>11. \A i \in Intents : (base[i] => base'[i]) /\ (i \in S => base'[i])
  BY <1>3, Zenon
<1>12. ASSUME NEW i \in Intents PROVE SoundRow(i)'
  <2>1. CASE i \in F
    <3>1. FiredAt(i, at)'
      BY <2>1, <1>3, <1>4, <1>5, <1>11, Zenon DEF FiredAt, InTime
    <3>2. event'[i] # <<>> /\ status'[i] = "triggered" /\ row'[i] # None
      BY <2>1, <1>3, <1>4, <1>5, OneEntry, Zenon
    <3> QED
      BY <3>1, <3>2 DEF SoundRow
  <2>2. CASE i \notin F
    BY <2>2, <1>3, <1>6, <1>11, RowKept DEF LegacyInvariant
  <2> QED
    BY <2>1, <2>2
<1>13. \A q \in Procs \ {p} : \A i \in tx[q].held : i \in Intents \ F
  BY <1>1, <1>2 DEF LegacyInvariant, SoundTx, Apart, Transactions
<1>14. \A q \in Procs \ {p} : tx[q].pc = "c_inserted" => tx[q].cur \in Intents \ F
  BY <1>4 DEF LegacyInvariant, SoundTx
<1>15. \A i \in Intents : status[i] # "absent" => status'[i] # "absent"
  BY <1>3
<1> QED
  BY <1>3, <1>6, <1>8, <1>9, <1>10, <1>11, <1>12, <1>13, <1>14, <1>15, InvariantKept

\* A rollback removes the row that was inserted, which nobody has seen, and releases
\* the locks; nothing else was written.
LEMMA RollbackStep ==
    ASSUME LegacyInvariant, NEW p \in Procs, Rollback(p)
    PROVE  LegacyInvariant'
<1>1. now \in Nat /\ tx \in [Procs -> Transactions] /\ row \in [Intents -> Rows \cup {None}] /\ SoundTx(p)
  BY DEF LegacyInvariant, LegacyTypes
<1>2. /\ row' = [i \in Intents |->
                   IF tx[p].pc = "c_inserted" /\ i = tx[p].cur THEN None ELSE row[i]]
      /\ tx' = [tx EXCEPT ![p] = Idle]
      /\ UNCHANGED <<now, halt, status, base, event, notes, late>>
  BY DEF Rollback
<1>3. \A i \in Intents : row'[i] = row[i] \/ (status[i] = "absent" /\ i = tx[p].cur /\ tx[p].pc = "c_inserted")
  BY <1>1, <1>2 DEF SoundTx
<1>4. tx'[p] = Idle /\ \A q \in Procs \ {p} : tx'[q] = tx[q]
  BY <1>1, <1>2
<1>5. LegacyTypes' /\ now <= now'
  <2>1. tx' \in [Procs -> Transactions]
    BY <1>1, <1>2 DEF Idle, Transactions
  <2>2. row' \in [Intents -> Rows \cup {None}]
    BY <1>1, <1>2
  <2> QED
    BY <1>2, <2>1, <2>2 DEF LegacyInvariant, LegacyTypes
<1>6. SoundTx(p)' /\ tx'[p].held = {} /\ tx'[p].pc # "c_inserted"
  BY <1>1, <1>2, <1>4, TxOver
<1>7. \A i \in Intents : SoundRow(i)'
  BY <1>2, <1>3, RowKept DEF LegacyInvariant
<1>8. \A q \in Procs \ {p} : tx[q].pc = "c_inserted" => row'[tx[q].cur] = row[tx[q].cur]
  BY <1>3 DEF LegacyInvariant, SoundTx, Apart
<1> QED
  BY <1>2, <1>3, <1>4, <1>5, <1>6, <1>7, <1>8, InvariantKept

\* The account cascade waits for every lock and closes what is open.
LEMMA CascadeStep ==
    ASSUME LegacyInvariant, cancel_active_for_owner
    PROVE  LegacyInvariant'
<1>1. /\ \A i \in Intents, p \in Procs : i \notin tx[p].held
      /\ status' = [i \in Intents |-> IF status[i] \in {"scheduled", "active"}
                                      THEN "cancelled_by_account_disabled" ELSE status[i]]
      /\ UNCHANGED <<now, halt, row, base, event, notes, late, tx>>
  BY DEF cancel_active_for_owner, CANCELLABLE_STATUSES
<1>2. /\ LegacyTypes /\ tx \in [Procs -> Transactions] /\ now \in Nat
      /\ status \in [Intents -> Statuses]
  BY DEF LegacyInvariant, LegacyTypes
<1>3. status' \in [Intents -> Statuses]
  BY <1>1, <1>2 DEF Statuses
<1>4. LegacyTypes'
  BY <1>1, <1>2, <1>3 DEF LegacyTypes
<1>5. \A i \in Intents : SoundRow(i)'
  BY <1>1, RowKept DEF LegacyInvariant
<1>6. ASSUME NEW p \in Procs PROVE SoundTx(p)'
  <2>1. tx[p].at \in Nat /\ tx[p].todo \subseteq Intents /\ tx[p].held = {}
    BY <1>1, <1>2 DEF Transactions
  <2>2. SoundTx(p)
    BY DEF LegacyInvariant
  <2>3. tx[p].pc = "c_inserted" => status'[tx[p].cur] = status[tx[p].cur]
    BY <1>1, <2>2 DEF SoundTx
  <2>4. now' \in Nat /\ now <= now' /\ row' = row /\ base' = base /\ tx'[p] = tx[p]
    BY ONLY <1>1, <1>2
  <2>5. \A i \in Intents : status[i] # "absent" => status'[i] # "absent"
    BY <1>1
  <2>6. /\ \A i \in tx[p].held : status'[i] = status[i]
        /\ tx[p].held \subseteq Intents
    BY <2>1, Zenon
  <2>7. late \subseteq late'
    BY <1>1
  <2> QED
    BY <1>2, <2>1, <2>2, <2>3, <2>4, <2>5, <2>6, <2>7, TxKept, Zenon
<1>7. \A p, q \in Procs : p # q => Apart(p, q)'
  BY <1>1 DEF LegacyInvariant, Apart
<1> QED
  BY <1>4, <1>5, <1>6, <1>7 DEF LegacyInvariant

\* The clock only advances.
LEMMA ClockStep ==
    ASSUME LegacyInvariant, now' \in Nat, now <= now', UNCHANGED <<row, status, base, event, notes, late, tx>>
    PROVE  LegacyInvariant'
<1>1. LegacyTypes /\ tx \in [Procs -> Transactions] /\ now \in Nat
  BY DEF LegacyInvariant, LegacyTypes
<1>2. LegacyTypes'
  BY <1>1 DEF LegacyTypes
<1>3. \A i \in Intents : SoundRow(i)'
  BY RowKept DEF LegacyInvariant
<1>4. ASSUME NEW p \in Procs PROVE SoundTx(p)'
  <2>1. tx[p].at \in Nat /\ tx[p].todo \subseteq Intents /\ tx[p].held \subseteq Intents
    BY <1>1 DEF Transactions
  <2> QED
    BY <1>1, <2>1, TxKept DEF LegacyInvariant
<1>5. \A p, q \in Procs : p # q => Apart(p, q)'
  BY DEF LegacyInvariant, Apart
<1> QED
  BY <1>2, <1>3, <1>4, <1>5 DEF LegacyInvariant

\* Every step of the legacy track keeps the invariant.
LEMMA LegacyStep ==
    ASSUME LegacyAssumption, LegacyInvariant, Swept, [Next]_vars
    PROVE  LegacyInvariant'
<1>1. CASE \E p \in Procs :
              \/ \E i \in Intents, s \in Strategies : create(p, i, s)
              \/ CommitCreate(p) \/ cancel(p) \/ BeginDispatch(p) \/ RunLifecycle(p)
              \/ ListActive(p) \/ evaluate_quotes(p) \/ CommitBatch(p) \/ Rollback(p)
  BY <1>1, CreateStep, CommitCreateStep, CancelStep, BeginDispatchStep, RunLifecycleStep, ListActiveStep,
     EvaluateStep, CommitBatchStep, RollbackStep
<1>2. CASE \E p \in Procs, i \in Intents :
              ReadForCancel(p, i) \/ Trigger(p, i) \/ system_update_trailing_baseline(p, i)
  BY <1>2, ReadForCancelStep, TriggerStep, BaselineStep
<1>3. CASE \E p \in Procs, i \in Intents : Skip(p, i)
  BY <1>3, SkipStep, Zenon DEF Skip
<1>4. CASE cancel_active_for_owner
  BY <1>4, CascadeStep
<1>5. CASE SetHalt \/ Advance \/ UNCHANGED vars
  <2>1. now \in Nat /\ now' \in Nat /\ now <= now'
    BY <1>5 DEF SetHalt, Advance, vars, LegacyAssumption, LegacyInvariant, LegacyTypes
  <2> QED
    BY <1>5, <2>1, ClockStep DEF SetHalt, Advance, vars
<1> QED
  BY <1>1, <1>2, <1>3, <1>4, <1>5, Zenon DEF Next

\* A transaction that is not new among the swept ones, and what is open was open.
LEMMA SweptKept ==
    ASSUME Swept, late' = late,
           \A p \in Procs : tx'[p].pc = "swept" => tx[p].pc = "swept" /\ tx'[p].at = tx[p].at,
           \A i \in Intents : status'[i] \in {"scheduled", "active"} =>
               status[i] \in {"scheduled", "active"} /\ row'[i] = row[i]
    PROVE  Swept'
<1> SUFFICES ASSUME NEW p \in Procs, tx'[p].pc = "swept", NEW i \in Intents,
                    status'[i] \in {"scheduled", "active"}
             PROVE  InTime(i, tx[p].at)'
  BY DEF Swept, InTime
<1>1. InTime(i, tx[p].at) /\ row'[i] = row[i] /\ tx'[p].at = tx[p].at
  BY DEF Swept
<1> QED
  BY <1>1 DEF InTime, DayOf

\* Every step keeps what a lifecycle has swept in time.
LEMMA SweptStep ==
    ASSUME LegacyInvariant, Swept, [Next]_vars
    PROVE  Swept'
<1>1. /\ tx \in [Procs -> Transactions] /\ status \in [Intents -> Statuses] /\ now \in Nat
      /\ row \in [Intents -> Rows \cup {None}]
  BY DEF LegacyInvariant, LegacyTypes
<1>2. Idle.pc # "swept"
  BY DEF Idle
<1>3. ASSUME NEW p \in Procs, late' = late,
             \A q \in Procs \ {p} : tx'[q] = tx[q], tx'[p].pc # "swept",
             \A i \in Intents : status'[i] \in {"scheduled", "active"} =>
                 status[i] \in {"scheduled", "active"} /\ row'[i] = row[i]
      PROVE  Swept'
  BY <1>3, SweptKept
<1>4. ASSUME NEW p \in Procs, NEW i \in Intents, NEW s \in Strategies, create(p, i, s) PROVE Swept'
  <2>1. /\ late' = late /\ status' = status /\ \A j \in Intents \ {i} : row'[j] = row[j]
    BY <1>1, <1>4 DEF create
  <2>2. status[i] = "absent"
    BY <1>4 DEF create, LegacyInvariant, SoundRow
  <2>3. tx'[p].pc = "c_inserted" /\ \A q \in Procs \ {p} : tx'[q] = tx[q]
    BY <1>1, <1>4 DEF create, Idle
  <2> QED
    BY <2>1, <2>2, <2>3, <1>3
<1>5. ASSUME NEW p \in Procs, CommitCreate(p) PROVE Swept'
  <2>1. tx[p].pc = "c_inserted" /\ SoundTx(p)
    BY <1>5 DEF CommitCreate, LegacyInvariant
  <2>2. PICK i \in Intents : i = tx[p].cur /\ row[i] # None
    BY <2>1 DEF SoundTx
  <2>3. /\ late' = IF row[i].date < DayOf(now) THEN late \cup {i} ELSE late
        /\ tx' = [tx EXCEPT ![p] = Idle] /\ UNCHANGED <<now, row>>
        /\ \E v : status' = [status EXCEPT ![i] = v]
    BY <1>5, <2>2, Zenon DEF CommitCreate
  <2>4. tx'[p].pc # "swept" /\ \A q \in Procs \ {p} : tx'[q] = tx[q]
    BY <1>1, <1>2, <2>3
  <2>5. \A j \in Intents \ {i} : status'[j] = status[j]
    BY <1>1, <2>3
  <2> SUFFICES ASSUME NEW q \in Procs, q # p, tx[q].pc = "swept", NEW j \in Intents,
                      status'[j] \in {"scheduled", "active"}
               PROVE  j \in late' \/ DayOf(tx[q].at) <= row[j].date
    BY <2>3, <2>4 DEF Swept, InTime, DayOf
  <2>6. CASE j # i
    BY <2>3, <2>5, <2>6 DEF Swept, InTime
  <2>7. CASE j = i
    <3>1. tx[q].at \in Nat /\ tx[q].at <= now
      BY <1>1 DEF LegacyInvariant, SoundTx, Transactions
    <3>2. DayOf(tx[q].at) <= DayOf(now) /\ DayOf(tx[q].at) \in Nat /\ DayOf(now) \in Nat
      BY <1>1, <3>1, DayOfMonotone, DayOfNat
    <3>3. row[i].date \in Nat
      BY <1>1, <2>2 DEF Rows
    <3> QED
      BY <2>3, <2>7, <3>2, <3>3
  <2> QED
    BY <2>6, <2>7
<1>6. ASSUME NEW p \in Procs, cancel(p) PROVE Swept'
  <2>1. tx[p].cur \in Intents /\ status' = [status EXCEPT ![tx[p].cur] = "cancelled"]
    BY <1>6 DEF cancel, LegacyInvariant, SoundTx
  <2>2. \A i \in Intents : status'[i] \in {"scheduled", "active"} => status[i] \in {"scheduled", "active"}
    BY <1>1, <2>1
  <2>3. tx'[p].pc # "swept" /\ \A q \in Procs \ {p} : tx'[q] = tx[q]
    BY <1>1, <1>2, <1>6 DEF cancel
  <2> QED
    BY <1>6, <2>2, <2>3, <1>3 DEF cancel
<1>7. ASSUME NEW p \in Procs, RunLifecycle(p) PROVE Swept'
  <2>1. /\ status' = LifecycleRun /\ UNCHANGED <<row, late>>
        /\ tx' = [tx EXCEPT ![p].pc = "swept"]
    BY <1>7 DEF RunLifecycle
  <2>2. tx'[p].at = tx[p].at /\ \A q \in Procs \ {p} : tx'[q] = tx[q]
    <3>1. tx[p] \in Transactions /\ tx'[p] = [tx[p] EXCEPT !.pc = "swept"]
      BY <1>1, <2>1
    <3> QED
      BY <1>1, <2>1, <3>1, SweptFields
  <2>3. \A i \in Intents : status'[i] \in {"scheduled", "active"} =>
            status[i] \in {"scheduled", "active"} /\ DayOf(now) <= row[i].date /\ row[i] \in Rows
    <3>1. \A i \in Intents : status[i] # "absent" => row[i] \in Rows
      BY <1>1 DEF LegacyInvariant, SoundRow
    <3> QED
      BY <2>1, <3>1, LifecycleKeeps
  <2>4. DayOf(tx[p].at) <= DayOf(now) /\ DayOf(tx[p].at) \in Nat /\ DayOf(now) \in Nat
    <3>1. tx[p].at \in Nat /\ tx[p].at <= now
      BY <1>1 DEF LegacyInvariant, SoundTx, Transactions
    <3> QED
      BY <1>1, <3>1, DayOfMonotone, DayOfNat
  <2>5. \A i \in Intents : status'[i] \in {"scheduled", "active"} => DayOf(tx[p].at) <= row[i].date
    <3> SUFFICES ASSUME NEW i \in Intents, status'[i] \in {"scheduled", "active"}
                 PROVE  DayOf(tx[p].at) <= row[i].date
      OBVIOUS
    <3>1. DayOf(now) <= row[i].date /\ row[i].date \in Nat
      BY <2>3 DEF Rows
    <3> QED
      BY <2>4, <3>1
  <2> SUFFICES ASSUME NEW q \in Procs, tx'[q].pc = "swept", NEW i \in Intents,
                      status'[i] \in {"scheduled", "active"}
               PROVE  i \in late \/ DayOf(tx[q].at) <= row[i].date
    BY <2>1, <2>2 DEF Swept, InTime, DayOf
  <2>6. CASE q = p
    BY <2>5, <2>6
  <2>7. CASE q # p
    BY <2>2, <2>3, <2>7 DEF Swept, InTime
  <2> QED
    BY <2>6, <2>7
<1>8. ASSUME NEW p \in Procs, ListActive(p) \/ evaluate_quotes(p) \/ BeginDispatch(p) PROVE Swept'
  <2>1. UNCHANGED <<status, row, late>> /\ \A q \in Procs \ {p} : tx'[q] = tx[q]
    BY <1>1, <1>8 DEF ListActive, evaluate_quotes, BeginDispatch
  <2>2. tx'[p].pc # "swept"
    <3>1. CASE ListActive(p)
      <4>1. PICK S : tx' = [tx EXCEPT ![p].pc = "batch", ![p].todo = S]
        BY <3>1, Zenon DEF ListActive
      <4>2. tx[p] \in Transactions /\ tx'[p] = [tx[p] EXCEPT !.pc = "batch", !.todo = S]
        BY <1>1, <4>1
      <4> QED
        BY <4>2 DEF Transactions
    <3>2. CASE evaluate_quotes(p)
      <4>1. PICK S : tx' = [tx EXCEPT ![p] = [Idle EXCEPT !.pc = "batch", !.at = now, !.todo = S]]
        BY <3>2, Zenon DEF evaluate_quotes
      <4> QED
        BY <1>1, <4>1 DEF Idle
    <3>3. CASE BeginDispatch(p)
      BY <1>1, <3>3 DEF BeginDispatch, Idle
    <3> QED
      BY <1>8, <3>1, <3>2, <3>3
  <2> QED
    BY <2>1, <2>2, <1>3
<1>9. ASSUME NEW p \in Procs, CommitBatch(p) PROVE Swept'
  <2>1. \A i \in Intents : status'[i] \in {"scheduled", "active"} => status[i] \in {"scheduled", "active"}
    BY <1>9 DEF CommitBatch
  <2>2. tx'[p].pc # "swept" /\ \A q \in Procs \ {p} : tx'[q] = tx[q]
    BY <1>1, <1>2, <1>9 DEF CommitBatch
  <2> QED
    BY <1>9, <2>1, <2>2, <1>3 DEF CommitBatch
<1>10. ASSUME NEW p \in Procs, Rollback(p) PROVE Swept'
  <2>1. /\ row' = [i \in Intents |-> IF tx[p].pc = "c_inserted" /\ i = tx[p].cur THEN None ELSE row[i]]
        /\ UNCHANGED <<status, late>>
    BY <1>10 DEF Rollback
  <2>2. \A i \in Intents : status[i] \in {"scheduled", "active"} => row'[i] = row[i]
    BY <2>1 DEF LegacyInvariant, SoundTx
  <2>3. tx'[p].pc # "swept" /\ \A q \in Procs \ {p} : tx'[q] = tx[q]
    BY <1>1, <1>2, <1>10 DEF Rollback
  <2> QED
    BY <2>1, <2>2, <2>3, <1>3
<1>11. ASSUME NEW p \in Procs, NEW i \in Intents,
              ReadForCancel(p, i) \/ Trigger(p, i) \/ system_update_trailing_baseline(p, i) \/ Skip(p, i)
       PROVE  Swept'
  <2>1. UNCHANGED <<status, row, late>>
    BY <1>11 DEF ReadForCancel, Trigger, system_update_trailing_baseline, Skip
  <2>2. \A q \in Procs \ {p} : tx'[q] = tx[q]
    BY <1>1, <1>11 DEF ReadForCancel, Trigger, system_update_trailing_baseline, Skip
  <2>3. tx'[p].pc # "swept"
    <3>1. CASE ReadForCancel(p, i)
      BY <1>1, <3>1 DEF ReadForCancel, Idle
    <3>2. tx[p] \in Transactions
      BY <1>1
    <3>3. ASSUME NEW S, tx' = [tx EXCEPT ![p].todo = S], tx[p].pc = "batch" PROVE tx'[p].pc = "batch"
      BY <1>1, <3>2, <3>3 DEF Transactions
    <3>4. ASSUME NEW S, NEW H, tx' = [tx EXCEPT ![p].set = S, ![p].held = H], tx[p].pc = "batch"
          PROVE  tx'[p].pc = "batch"
      BY <1>1, <3>2, <3>4 DEF Transactions
    <3>5. ASSUME NEW S, NEW H, NEW F, tx[p].pc = "batch",
                 tx' = [tx EXCEPT ![p].todo = S, ![p].held = H, ![p].fired = F]
          PROVE  tx'[p].pc = "batch"
      BY <1>1, <3>2, <3>5 DEF Transactions
    <3>6. CASE Skip(p, i)
      BY <3>3, <3>6, Zenon DEF Skip
    <3>7. CASE system_update_trailing_baseline(p, i)
      BY <3>4, <3>7, Zenon DEF system_update_trailing_baseline
    <3>8. CASE Trigger(p, i)
      BY <3>3, <3>5, <3>8, Zenon DEF Trigger
    <3> QED
      BY <1>11, <3>1, <3>6, <3>7, <3>8
  <2> QED
    BY <2>1, <2>2, <2>3, <1>3
<1>12. CASE cancel_active_for_owner
  <2>1. \A i \in Intents : status'[i] \in {"scheduled", "active"} => status[i] \in {"scheduled", "active"}
    BY <1>12 DEF cancel_active_for_owner, CANCELLABLE_STATUSES
  <2> QED
    BY <1>12, <2>1, SweptKept DEF cancel_active_for_owner
<1>13. CASE SetHalt \/ Advance \/ UNCHANGED vars
  BY <1>13, SweptKept DEF SetHalt, Advance, vars
<1> QED
  BY <1>4, <1>5, <1>6, <1>7, <1>8, <1>9, <1>10, <1>11, <1>12, <1>13, Zenon DEF Next

\* The tables start empty and no transaction is open.
LEMMA LegacyInit == ASSUME LegacyAssumption, Init PROVE LegacyInvariant /\ Swept
<1>1. Idle \in Transactions
  BY DEF Idle, Transactions
<1>2. LegacyTypes
  BY <1>1 DEF Init, LegacyTypes, LegacyAssumption, Statuses
<1>3. \A i \in Intents : SoundRow(i)
  BY DEF Init, SoundRow
<1>4. ASSUME NEW p \in Procs PROVE SoundTx(p)
  <2>1. tx[p] = Idle
    BY Zenon DEF Init
  <2>2. now \in Nat
    BY <1>2, Zenon DEF LegacyTypes
  <2>3. /\ tx[p].pc = "idle" /\ tx[p].at = 0 /\ tx[p].todo = {} /\ tx[p].held = {}
        /\ tx[p].fired = {} /\ tx[p].set = {}
    BY <2>1, IdleFields, Zenon
  <2>4. tx[p].at <= now
    BY ONLY <2>2, <2>3
  <2> QED
    BY ONLY <2>3, <2>4, Zenon DEF SoundTx
<1>5. \A p, q \in Procs : p # q => Apart(p, q)
  BY DEF Init, Apart, Idle
<1>6. Swept
  BY DEF Init, Swept, Idle
<1> QED
  BY <1>2, <1>3, <1>4, <1>5, <1>6 DEF LegacyInvariant

\* The invariant says what LegacyTriggerIsSound does.
LEMMA LegacySound == ASSUME LegacyInvariant PROVE LegacyTriggerIsSound
<1> SUFFICES ASSUME NEW i \in Intents
             PROVE  /\ /\ Len(event[i]) = Len(notes[i]) /\ Len(event[i]) <= 1
                       /\ status[i] = "triggered" => Len(event[i]) = 1
                       /\ Len(notes[i]) = 1 =>
                            /\ notes[i][1] = "trailing_stop_triggered" <=>
                                  row[i].strategy = "trailing_stop_alert"
                            /\ notes[i][1] = "limit_order_triggered" <=>
                                  row[i].strategy \in {"limit_buy_order", "limit_sell_order"}
                            /\ notes[i][1] = "market_order_triggered" <=>
                                  row[i].strategy \in MARKET_ORDER_STRATEGIES
                            /\ row[i].strategy = "trailing_stop_alert" => base[i]
                    /\ ~ DevRoutes /\ i \notin late =>
                          \A k \in 1..Len(event[i]) : DayOf(event[i][k]) <= row[i].date
  BY DEF LegacyTriggerIsSound, LegacyTriggerIsWhole, LegacyFiredByItsDate
<1>1. SoundRow(i)
  BY DEF LegacyInvariant
<1>2. CASE event[i] = <<>> /\ notes[i] = <<>>
  <2>1. Len(event[i]) = 0 /\ Len(notes[i]) = 0 /\ status[i] # "triggered"
    BY <1>1, <1>2, OneEntry, Zenon DEF SoundRow
  <2> QED
    BY <2>1
<1>3. CASE \E t \in Nat : FiredAt(i, t)
  <2>1. PICK t \in Nat : FiredAt(i, t)
    BY <1>3
  <2>2. /\ Len(event[i]) = 1 /\ event[i][1] = t
        /\ Len(notes[i]) = 1 /\ notes[i][1] = notification_type(row[i].strategy)
    BY <2>1, OneEntry DEF FiredAt
  <2>3. \A k \in 1..Len(event[i]) : event[i][k] = t
    BY <2>2
  <2>4. /\ notes[i][1] = "trailing_stop_triggered" <=> row[i].strategy = "trailing_stop_alert"
        /\ notes[i][1] = "limit_order_triggered" <=>
              row[i].strategy \in {"limit_buy_order", "limit_sell_order"}
        /\ notes[i][1] = "market_order_triggered" <=> row[i].strategy \in MARKET_ORDER_STRATEGIES
    BY <2>2 DEF notification_type, MARKET_ORDER_STRATEGIES
  <2>5. /\ row[i].strategy = "trailing_stop_alert" => base[i]
        /\ ~ DevRoutes /\ i \notin late => DayOf(t) <= row[i].date
    BY <2>1 DEF FiredAt, InTime
  <2>6. ~ DevRoutes /\ i \notin late => \A k \in 1..Len(event[i]) : DayOf(event[i][k]) <= row[i].date
    BY ONLY <2>3, <2>5
  <2> QED
    BY ONLY <2>2, <2>4, <2>5, <2>6
<1> QED
  BY <1>1, <1>2, <1>3 DEF SoundRow

\* A legacy intent is triggered with its event and its notification, once and of the
\* type its strategy calls for, and the dispatcher triggers none after its trading
\* date unless its creation was committed after it, for any number of threads,
\* intents and instants.
THEOREM LegacyTriggerIsAlwaysSound == ASSUME LegacyAssumption PROVE Spec => []LegacyTriggerIsSound
<1>1. Init => LegacyInvariant /\ Swept
  BY LegacyInit
<1>2. LegacyInvariant /\ Swept /\ [Next]_vars => LegacyInvariant' /\ Swept'
  BY LegacyStep, SweptStep
<1>3. LegacyInvariant => LegacyTriggerIsSound
  BY LegacySound
<1> QED
  BY <1>1, <1>2, <1>3, PTL DEF Spec

-----------------------------------------------------------------------------
(* The refinement of IntentContract *)

\* What a step does to an intent: no notification and a status that moves forward, or
\* the trigger of an intent that was not closed, with its notification.
Quiet(i) ==
    /\ notes'[i] = notes[i]
    /\ \/ status'[i] = status[i]
       \/ status[i] = "absent" /\ status'[i] \in {"scheduled", "active"}
       \/ status[i] # "absent" /\ status'[i] \in {"expired", "cancelled", "cancelled_by_account_disabled"}
       \/ status[i] = "scheduled" /\ status'[i] = "active"
Noisy(i) ==
    /\ status[i] \in {"absent", "scheduled", "active"} /\ status'[i] = "triggered"
    /\ Len(notes[i]) = 0 /\ Len(notes'[i]) = 1

\* Such a step is one of IntentContract.
LEMMA ContractStep ==
    ASSUME LegacyInvariant, LegacyInvariant', \A i \in Intents : Quiet(i) \/ Noisy(i)
    PROVE  Contract!ContractNext
<1>1. \A i \in Intents : /\ status[i] \in Statuses /\ status'[i] \in Statuses
                         /\ Len(notes'[i]) \in 0..1
  <2>1. \A i \in Intents : status[i] \in Statuses /\ status'[i] \in Statuses
    BY DEF LegacyInvariant, LegacyTypes
  <2>2. ASSUME NEW i \in Intents PROVE Len(notes'[i]) \in 0..1
    <3>1. notes'[i] = <<>> \/ \E n : notes'[i] = <<n>>
      BY DEF LegacyInvariant, SoundRow, FiredAt
    <3>2. CASE notes'[i] = <<>>
      <4>1. Len(notes'[i]) = 0
        BY <3>2
      <4> QED
        BY <4>1
    <3>3. CASE \E n : notes'[i] = <<n>>
      <4>1. Len(notes'[i]) = 1
        BY <3>3
      <4> QED
        BY <4>1
    <3> QED
      BY <3>1, <3>2, <3>3
  <2> QED
    BY <2>1, <2>2
<1>2. Life' \in [Intents -> {"absent", "open", "closed"}] /\ Told' \in [Intents -> 0..1]
  BY <1>1 DEF Life, Told
<1>3. ASSUME NEW i \in Intents
      PROVE  Contract!Stays(i) \/ Contract!Opens(i) \/ Contract!Closes(i) \/ Contract!Fires(i)
  <2>1. /\ Life[i] = IF status[i] = "absent" THEN "absent"
                     ELSE IF status[i] \in {"scheduled", "active"} THEN "open" ELSE "closed"
        /\ Life'[i] = IF status'[i] = "absent" THEN "absent"
                      ELSE IF status'[i] \in {"scheduled", "active"} THEN "open" ELSE "closed"
        /\ Told[i] = Len(notes[i]) /\ Told'[i] = Len(notes'[i])
    BY DEF Life, Told, CANCELLABLE_STATUSES
  <2>2. CASE Quiet(i)
    BY <2>1, <2>2, <1>1 DEF Quiet, Contract!Stays, Contract!Opens, Contract!Closes, Statuses
  <2>3. CASE Noisy(i)
    BY <2>1, <2>3 DEF Noisy, Contract!Fires
  <2> QED
    BY <2>2, <2>3
<1> QED
  BY <1>2, <1>3 DEF Contract!ContractNext, Contract!Lives

\* The inline trigger of a creation and the commit of a batch notify; no other step does.
LEMMA QuietOrNoisy ==
    ASSUME LegacyAssumption, LegacyInvariant, Next, NEW i \in Intents
    PROVE  Quiet(i) \/ Noisy(i)
<1>1. /\ status \in [Intents -> Statuses] /\ notes \in [Intents -> Seq(NoteTypes)]
      /\ \A p \in Procs : SoundTx(p)
      /\ status[i] \in {"absent", "scheduled", "active"} => notes[i] = <<>>
      /\ tx \in [Procs -> Transactions]
  BY DEF LegacyInvariant, LegacyTypes, SoundRow
<1>2. CASE UNCHANGED <<status, notes>>
  BY <1>2 DEF Quiet
<1>3. ASSUME NEW p \in Procs, CommitCreate(p) PROVE Quiet(i) \/ Noisy(i)
  <2>1. tx[p].cur \in Intents /\ status[tx[p].cur] = "absent"
    BY <1>1, <1>3 DEF CommitCreate, SoundTx
  <2>2. PICK j \in Intents : j = tx[p].cur
    BY <2>1
  <2>3. PICK at : at = tx[p].at
    OBVIOUS
  <2>4. PICK initial : initial = get_initial_day_intent_status(at)
    OBVIOUS
  <2>5. initial \in {"scheduled", "active"}
    BY <2>4 DEF get_initial_day_intent_status
  <2>6. PICK r : /\ status' = [status EXCEPT ![j] = IF r.fire THEN "triggered" ELSE initial]
                 /\ persist_trigger(IF r.fire THEN {j} ELSE {}, at)
    BY <1>3, <2>2, <2>3, <2>4, Zenon DEF CommitCreate
  <2>7. CASE r.fire
    <3>1. status' = [status EXCEPT ![j] = "triggered"] /\ persist_trigger({j}, at)
      BY <2>6, <2>7, Zenon
    <3>2. CASE i = j
      <4>1. status[i] = "absent" /\ notes[i] = <<>> /\ status'[i] = "triggered"
        BY <1>1, <2>1, <2>2, <3>1, <3>2
      <4>2. notes'[i] = <<notification_type(row[i].strategy)>>
        BY <3>1, <3>2, <4>1, OneEntry, Zenon DEF persist_trigger
      <4> QED
        BY <4>1, <4>2, OneEntry DEF Noisy
    <3>3. CASE i # j
      BY <1>1, <3>1, <3>3 DEF persist_trigger, Quiet
    <3> QED
      BY <3>2, <3>3
  <2>8. CASE ~ r.fire
    <3>1. status' = [status EXCEPT ![j] = initial] /\ persist_trigger({}, at)
      BY <2>6, <2>8, Zenon
    <3> QED
      BY <1>1, <2>1, <2>2, <2>5, <3>1 DEF persist_trigger, Quiet
  <2> QED
    BY <2>7, <2>8
<1>4. ASSUME NEW p \in Procs, CommitBatch(p) PROVE Quiet(i) \/ Noisy(i)
  <2>1. CASE i \in tx[p].fired
    <3>1. status[i] = "active" /\ status'[i] = "triggered" /\ notes[i] = <<>>
      BY <1>1, <1>4, <2>1 DEF SoundTx, CommitBatch
    <3>2. notes'[i] = <<notification_type(row[i].strategy)>>
      BY <1>4, <2>1, <3>1, OneEntry, Zenon DEF CommitBatch, persist_trigger
    <3> QED
      BY <3>1, <3>2, OneEntry DEF Noisy
  <2>2. CASE i \notin tx[p].fired
    BY <1>4, <2>2 DEF CommitBatch, persist_trigger, Quiet
  <2> QED
    BY <2>1, <2>2
<1>5. ASSUME NEW p \in Procs, cancel(p) PROVE Quiet(i)
  BY <1>1, <1>5 DEF cancel, SoundTx, Quiet
<1>6. ASSUME NEW p \in Procs, RunLifecycle(p) PROVE Quiet(i)
  <2>1. notes' = notes /\ status'[i] = LifecycleRun[i]
    BY <1>6 DEF RunLifecycle
  <2>2. LifecycleRun[i] \in {status[i], "expired"} \/ (status[i] = "scheduled" /\ LifecycleRun[i] = "active")
    BY DEF LifecycleRun
  <2>3. LifecycleRun[i] # status[i] => status[i] # "absent"
    BY DEF LifecycleRun, CANCELLABLE_STATUSES
  <2> QED
    BY <2>1, <2>2, <2>3 DEF Quiet
<1>7. CASE cancel_active_for_owner
  BY <1>7 DEF cancel_active_for_owner, CANCELLABLE_STATUSES, Quiet
<1>8. ASSUME NEW p \in Procs,
             \/ \E j \in Intents, s \in Strategies : create(p, j, s)
             \/ BeginDispatch(p) \/ ListActive(p) \/ evaluate_quotes(p) \/ Rollback(p)
             \/ \E j \in Intents : \/ ReadForCancel(p, j) \/ Skip(p, j) \/ Trigger(p, j)
                                   \/ system_update_trailing_baseline(p, j)
      PROVE  UNCHANGED <<status, notes>>
  BY <1>8, Zenon DEF create, BeginDispatch, ListActive, evaluate_quotes, Rollback, ReadForCancel, Skip, Trigger,
              system_update_trailing_baseline
<1>9. CASE SetHalt \/ Advance
  BY <1>2, <1>9 DEF SetHalt, Advance
<1> QED
  BY <1>2, <1>3, <1>4, <1>5, <1>6, <1>7, <1>8, <1>9, Zenon DEF Next

\* The legacy track, with the dispatcher, the dev route, cancellations, the cascade and
\* rollbacks interleaved in any way, implements IntentContract: an intent opens and
\* closes once, and its only notification is written by the step that closes it.
THEOREM LegacyKeepsTheContract == ASSUME LegacyAssumption PROVE Spec => KeepsLegacyContract
<1>1. Init => Contract!ContractInit
  BY DEF Init, Contract!ContractInit, Life, Told
<1>2. Init => LegacyInvariant /\ Swept
  BY LegacyInit
<1>3. LegacyInvariant /\ Swept /\ [Next]_vars => LegacyInvariant' /\ Swept'
  BY LegacyStep, SweptStep
<1>4. LegacyInvariant /\ LegacyInvariant' /\ [Next]_vars => [Contract!ContractNext]_<<Life, Told>>
  <2> SUFFICES ASSUME LegacyInvariant, LegacyInvariant', [Next]_vars
               PROVE  [Contract!ContractNext]_<<Life, Told>>
    OBVIOUS
  <2>1. CASE Next
    BY <2>1, QuietOrNoisy, ContractStep
  <2>2. CASE UNCHANGED vars
    BY <2>2 DEF vars, Life, Told
  <2> QED
    BY <2>1, <2>2
<1> QED
  BY <1>1, <1>2, <1>3, <1>4, PTL DEF Spec, KeepsLegacyContract, Contract!ContractSpec

====
