----------------------------- MODULE TwapProofs -----------------------------
(***************************************************************************)
(* Proofs about module Twap: an owner has one open plan per side and day,  *)
(* a plan is open exactly while it has slices to send, and every slice is  *)
(* notified once and only while its plan is open, however confirmations,   *)
(* worker runs, cancellations, expiry and restarts interleave.             *)
(***************************************************************************)
EXTENDS Twap, TLAPS

Statuses == {"absent", "scheduled", "active", "triggered", "expired", "cancelled",
             "cancelled_by_account_disabled"}

Slices == [at : Nat, st : {"pending", "notified", "cancelled"}, note : Nat, required : BOOLEAN,
           tries : Nat, next : Int, fnote : Nat]

\* A row of twap_slices: its notification came with its status, and a slice that was
\* not sent has neither attempts nor follow-ups.
SoundSlice(s) ==
    /\ s \in Slices
    /\ s.note = IF s.st = "notified" THEN 1 ELSE 0
    /\ s.fnote <= 1 /\ s.tries <= MAX_ATTEMPTS
    /\ s.required => s.st = "notified" /\ s.fnote = 0 /\ s.tries < MAX_ATTEMPTS
    /\ s.st # "notified" => s.fnote = 0 /\ s.tries = 0
SoundSlices == {s \in Slices : SoundSlice(s)}

\* A plan with status st and slices ss: an open one has work left and nothing
\* cancelled, a closed one nothing pending unless the account cascade closed it.
SoundPlan(st, ss) ==
    /\ st \in Statuses /\ ss \in Seq(SoundSlices)
    /\ st \in CANCELLABLE_STATUSES =>
          /\ \E k \in 1..Len(ss) : ss[k].st = "pending"
          /\ \A k \in 1..Len(ss) : ss[k].st # "cancelled"
    /\ st = "triggered" => \A k \in 1..Len(ss) : ss[k].st = "notified"
    /\ st \in {"cancelled", "expired"} => \A k \in 1..Len(ss) : ss[k].st # "pending"
    /\ st = "absent" => ss = <<>>

Transactions ==
    [pc : {"idle", "c_checked", "c_duplicate", "c_inserted", "x_read", Due, Followups,
           Loaded(Due), Loaded(Followups)},
     offer : Offers \cup {None}, cur : Ids \cup {None}, at : Nat, rows : SUBSET (Ids \X Nat)]

TwapTypes ==
    /\ now \in Nat
    /\ plan \in [Ids -> Offers \cup {None}]
    /\ status \in [Ids -> Statuses] /\ slice \in [Ids -> Seq(SoundSlices)]
    /\ tx \in [Threads -> Transactions]
    /\ \A i \in Ids : status[i] = "absent" <=> plan[i] = None

\* A request: what it inserted is a row of its own that nobody sees yet.
SoundRequest(p) ==
    /\ tx[p].pc \in {"idle", "c_checked", "c_duplicate", "c_inserted", "x_read"}
    /\ tx[p].pc \in {"c_checked", "c_inserted"} => tx[p].offer \in Offers
    /\ tx[p].pc = "c_inserted" => tx[p].cur \in Ids /\ plan[tx[p].cur] = None
    /\ tx[p].pc = "x_read" => tx[p].cur \in Ids /\ plan[tx[p].cur] # None

\* A worker run: what it loaded is as it was when it was locked.
SoundRun(w) ==
    /\ tx[w].pc \in {"idle", Due, Followups, Loaded(Due), Loaded(Followups)}
    /\ tx[w].pc \in {"idle", Due, Followups} => tx[w].rows = {}
    /\ tx[w].rows \subseteq Rows
    /\ tx[w].pc = Loaded(Due) => \A r \in tx[w].rows : SliceOf(r).st = "pending" /\ Open(r[1])
    /\ tx[w].pc = Loaded(Followups) => \A r \in tx[w].rows : SliceOf(r).required

\* The unique indexes, over committed rows and over rows still to be committed.
NoCollision ==
    /\ \A i, j \in Ids : i # j /\ Open(i) /\ Open(j) => ~ Collide(plan[i], plan[j])
    /\ \A p \in Api : Inserted(p) =>
          /\ \A i \in Ids : Open(i) => ~ Collide(plan[i], tx[p].offer)
          /\ \A q \in Api \ {p} : Inserted(q) =>
                tx[q].cur # tx[p].cur /\ ~ Collide(tx[q].offer, tx[p].offer)

\* Two runs hold no plan in common.
RunsApart ==
    \A v, w \in Workers : v # w => \A r \in tx[v].rows, s \in tx[w].rows : r[1] # s[1]

TwapInvariant ==
    /\ TwapTypes
    /\ \A i \in Ids : SoundPlan(status[i], slice[i])
    /\ \A p \in Api : SoundRequest(p)
    /\ \A w \in Workers : SoundRun(w)
    /\ NoCollision /\ RunsApart

-----------------------------------------------------------------------------
(* Slices *)

\* An element of a sequence is of the sequence's set.
LEMMA SeqElement == ASSUME NEW S, NEW s \in Seq(S), NEW n \in 1..Len(s) PROVE s[n] \in S
OBVIOUS

\* A sequence is a function on the numbers up to its length.
LEMMA SeqLength ==
    ASSUME NEW S, NEW s \in Seq(S)
    PROVE  Len(s) \in Nat /\ s \in [1..Len(s) -> S] /\ DOMAIN s = 1..Len(s)
OBVIOUS

\* The empty sequence is the one of length zero.
LEMMA SeqEmpty ==
    ASSUME NEW S
    PROVE  <<>> \in Seq(S) /\ Len(<<>>) = 0 /\ \A s \in Seq(S) : s # <<>> => Len(s) \in Nat \ {0}
OBVIOUS

\* A plan that was not created yet has no places.
LEMMA NoPlaces == Len(<<>>) = 0 /\ 1..Len(<<>>) = {}
OBVIOUS

\* A function on the numbers up to n is a sequence.
LEMMA SeqMade == ASSUME NEW S, NEW n \in Nat, NEW f \in [1..n -> S] PROVE f \in Seq(S)
OBVIOUS

\* A statement that rewrites the slices of a plan row by row keeps their number.
LEMMA SlicesMapped ==
    ASSUME NEW n \in Nat, NEW f \in [1..n -> SoundSlices]
    PROVE  f \in Seq(SoundSlices) /\ Len(f) = n
<1>1. f \in Seq(SoundSlices)
  BY SeqMade
<1>2. DOMAIN f = 1..Len(f) /\ Len(f) \in Nat
  BY <1>1, SeqLength
<1> QED
  BY <1>2

\* The rows of twap_slices are those of the plans.
LEMMA RowsIn ==
    ASSUME NEW sl, NEW r
    PROVE  r \in UNION {{<<i, k>> : k \in 1..Len(sl[i])} : i \in Ids} <=>
              r = <<r[1], r[2]>> /\ r[1] \in Ids /\ r[2] \in 1..Len(sl[r[1]])
OBVIOUS

\* A new slice is pending and sound.
LEMMA NewSliceSound == ASSUME NEW t \in Nat PROVE NewSlice(t) \in SoundSlices /\ NewSlice(t).st = "pending"
<1>1. NoInstant \in Int /\ 0 \in Nat
  BY DEF NoInstant
<1>2. NewSlice(t) \in Slices
  BY <1>1, Zenon DEF NewSlice, Slices
<1>3. /\ NewSlice(t).st = "pending" /\ NewSlice(t).note = 0 /\ NewSlice(t).required = FALSE
      /\ NewSlice(t).tries = 0 /\ NewSlice(t).fnote = 0
  BY DEF NewSlice
<1> QED
  BY <1>2, <1>3 DEF SoundSlices, SoundSlice, MAX_ATTEMPTS

\* _process_due_slice sends a pending slice.
LEMMA DueSliceSound ==
    ASSUME NEW s \in SoundSlices, s.st = "pending", NEW t \in Nat, NEW price
    PROVE  process_due_slice(s, t, price) \in SoundSlices /\ process_due_slice(s, t, price).st = "notified"
<1> DEFINE d == process_due_slice(s, t, price)
<1>1. s \in Slices /\ s.note = 0 /\ s.fnote = 0 /\ s.tries = 0
  BY DEF SoundSlices, SoundSlice
<1>2. PICK next \in Int : next = IF price = "none" THEN t + FOLLOWUP_DELAY ELSE NoInstant
  BY DEF FOLLOWUP_DELAY, NoInstant
<1>3. d = [s EXCEPT !.st = "notified", !.note = s.note + 1, !.required = (price = "none"), !.next = next]
  BY <1>2, Zenon DEF process_due_slice
<1>a. s.note + 1 \in Nat /\ s.note + 1 = 1
  BY <1>1
<1> HIDE DEF d
<1>b. d \in Slices
  BY <1>1, <1>3, <1>a, Zenon DEF Slices
<1>4. d.st = "notified" /\ d.note = 1 /\ d.fnote = 0 /\ d.tries = 0
  BY <1>1, <1>3, <1>a, Zenon DEF Slices
<1>5. d \in SoundSlices
  BY <1>4, <1>b DEF SoundSlices, SoundSlice, MAX_ATTEMPTS
<1> QED
  BY <1>4, <1>5 DEF d

\* _process_followup leaves the status of a slice alone.
LEMMA FollowupSound ==
    ASSUME NEW s \in SoundSlices, s.required, NEW t \in Nat, NEW price
    PROVE  process_followup(s, t, price) \in SoundSlices /\ process_followup(s, t, price).st = s.st
<1> DEFINE d == process_followup(s, t, price)
<1>1. /\ s \in Slices /\ s.st = "notified" /\ s.note = 1 /\ s.fnote = 0
      /\ s.tries \in Nat /\ s.tries < MAX_ATTEMPTS
  BY DEF SoundSlices, SoundSlice, Slices
<1>2. CASE price # "none"
  <2>1. d = [s EXCEPT !.tries = s.tries + 1, !.required = FALSE, !.next = NoInstant, !.fnote = s.fnote + 1]
    BY <1>2 DEF process_followup
  <2> HIDE DEF d
  <2>a. s.tries + 1 \in Nat /\ s.fnote + 1 \in Nat /\ NoInstant \in Int
    BY <1>1 DEF NoInstant
  <2>b. d \in Slices
    BY <1>1, <2>1, <2>a, Zenon DEF Slices
  <2>2. d.st = "notified" /\ d.note = 1 /\ d.fnote = 1 /\ d.tries = s.tries + 1 /\ d.required = FALSE
    BY <1>1, <2>1 DEF Slices
  <2>3. d \in SoundSlices /\ d.st = s.st
    BY <1>1, <2>2, <2>b DEF SoundSlices, SoundSlice, MAX_ATTEMPTS
  <2> QED
    BY <2>3 DEF d
<1>3. CASE price = "none" /\ s.tries + 1 >= MAX_ATTEMPTS
  <2>1. d = [s EXCEPT !.tries = s.tries + 1, !.required = FALSE, !.next = NoInstant]
    BY <1>3 DEF process_followup
  <2> HIDE DEF d
  <2>a. s.tries + 1 \in Nat /\ NoInstant \in Int
    BY <1>1 DEF NoInstant
  <2>b. d \in Slices
    BY <1>1, <2>1, <2>a, Zenon DEF Slices
  <2>2. d.st = "notified" /\ d.note = 1 /\ d.fnote = 0 /\ d.tries = s.tries + 1 /\ d.required = FALSE
    BY <1>1, <2>1 DEF Slices
  <2>3. d \in SoundSlices /\ d.st = s.st
    BY <1>1, <2>2, <2>b DEF SoundSlices, SoundSlice, MAX_ATTEMPTS
  <2> QED
    BY <2>3 DEF d
<1>4. CASE price = "none" /\ ~ (s.tries + 1 >= MAX_ATTEMPTS)
  <2>1. d = [s EXCEPT !.tries = s.tries + 1, !.next = t + FOLLOWUP_DELAY]
    BY <1>4 DEF process_followup
  <2> HIDE DEF d
  <2>a. s.tries + 1 \in Nat /\ t + FOLLOWUP_DELAY \in Int
    BY <1>1 DEF FOLLOWUP_DELAY
  <2>b. d \in Slices
    BY <1>1, <2>1, <2>a, Zenon DEF Slices
  <2>2. d.st = "notified" /\ d.note = 1 /\ d.fnote = 0 /\ d.tries = s.tries + 1
    BY <1>1, <2>1 DEF Slices
  <2>3. d \in SoundSlices /\ d.st = s.st
    BY <1>1, <1>4, <2>2, <2>b DEF SoundSlices, SoundSlice, MAX_ATTEMPTS
  <2> QED
    BY <2>3 DEF d
<1> QED
  BY <1>2, <1>3, <1>4

\* The UPDATE of an expiry or a cancellation: what was pending is cancelled.
LEMMA PendingCancelled ==
    ASSUME NEW ss \in Seq(SoundSlices)
    PROVE  /\ CancelPending(ss) \in Seq(SoundSlices) /\ Len(CancelPending(ss)) = Len(ss)
           /\ \A k \in 1..Len(ss) :
                 CancelPending(ss)[k].st = IF ss[k].st = "pending" THEN "cancelled" ELSE ss[k].st
<1>1. Len(ss) \in Nat
  BY SeqLength
<1>2. ASSUME NEW k \in 1..Len(ss)
      PROVE  /\ CancelPending(ss)[k] \in SoundSlices
             /\ CancelPending(ss)[k].st = IF ss[k].st = "pending" THEN "cancelled" ELSE ss[k].st
  <2>1. PICK s \in SoundSlices : s = ss[k]
    BY <1>2, SeqElement
  <2>2. s \in Slices
    BY DEF SoundSlices
  <2>3. CASE s.st = "pending"
    <3>1. PICK d : d = [s EXCEPT !.st = "cancelled", !.required = FALSE, !.next = NoInstant]
      OBVIOUS
    <3>2. s.note = 0 /\ s.fnote = 0 /\ s.tries = 0
      BY <2>3 DEF SoundSlices, SoundSlice
    <3>a. NoInstant \in Int
      BY DEF NoInstant
    <3>b. d \in Slices
      BY <2>2, <3>1, <3>a, Zenon DEF Slices
    <3>3. d.st = "cancelled" /\ d.note = 0 /\ d.fnote = 0 /\ d.tries = 0 /\ d.required = FALSE
      BY <2>2, <3>1, <3>2 DEF Slices
    <3>4. d \in SoundSlices
      BY <3>3, <3>b DEF SoundSlices, SoundSlice, MAX_ATTEMPTS
    <3>5. CancelPending(ss)[k] = d
      BY <2>1, <2>3, <3>1 DEF CancelPending
    <3> QED
      BY <2>1, <2>3, <3>3, <3>4, <3>5
  <2>4. CASE s.st # "pending"
    <3>1. CancelPending(ss)[k] = s
      BY <2>1, <2>4 DEF CancelPending
    <3> QED
      BY <2>1, <2>4, <3>1
  <2> QED
    BY <2>3, <2>4
<1>3. CancelPending(ss) \in [1..Len(ss) -> SoundSlices]
  BY <1>2, Zenon DEF CancelPending
<1> QED
  BY <1>1, <1>2, <1>3, SlicesMapped

\* The cancel command drops the follow-ups that wait, too.
LEMMA SlicesCancelled ==
    ASSUME NEW ss \in Seq(SoundSlices)
    PROVE  /\ CancelSlices(ss) \in Seq(SoundSlices) /\ Len(CancelSlices(ss)) = Len(ss)
           /\ \A k \in 1..Len(ss) :
                 CancelSlices(ss)[k].st = IF ss[k].st = "pending" THEN "cancelled" ELSE ss[k].st
<1>1. Len(ss) \in Nat
  BY SeqLength
<1>2. ASSUME NEW k \in 1..Len(ss)
      PROVE  /\ CancelSlices(ss)[k] \in SoundSlices
             /\ CancelSlices(ss)[k].st = CancelPending(ss)[k].st
  <2>1. PICK s \in SoundSlices : s = CancelPending(ss)[k]
    BY <1>2, PendingCancelled, SeqElement
  <2>2. PICK d : d = [s EXCEPT !.required = FALSE, !.next = NoInstant]
    OBVIOUS
  <2>3. s \in Slices
    BY DEF SoundSlices
  <2>a. NoInstant \in Int
    BY DEF NoInstant
  <2>b. d \in Slices
    BY <2>2, <2>3, <2>a, Zenon DEF Slices
  <2>4. /\ d.st = s.st /\ d.note = s.note /\ d.fnote = s.fnote /\ d.tries = s.tries
        /\ d.required = FALSE
    BY <2>2, <2>3 DEF Slices
  <2>5. d \in SoundSlices
    BY <2>4, <2>b DEF SoundSlices, SoundSlice
  <2>6. CancelSlices(ss)[k] = d
    BY <2>1, <2>2 DEF CancelSlices
  <2> QED
    BY <2>1, <2>4, <2>5, <2>6
<1>3. CancelSlices(ss) \in [1..Len(ss) -> SoundSlices]
  BY <1>2, Zenon DEF CancelSlices
<1> QED
  BY <1>1, <1>2, <1>3, SlicesMapped, PendingCancelled

-----------------------------------------------------------------------------
(* Plans *)

\* The cancel command and an expiry close a plan together with its slices.
LEMMA PlanClosed ==
    ASSUME NEW st, NEW ss, SoundPlan(st, ss)
    PROVE  /\ SoundPlan("expired", CancelPending(ss)) /\ SoundPlan("cancelled", CancelSlices(ss))
           /\ SoundPlan("cancelled_by_account_disabled", ss)
<1>1. ss \in Seq(SoundSlices)
  BY DEF SoundPlan
<1>2. SoundPlan("expired", CancelPending(ss))
  BY <1>1, PendingCancelled DEF SoundPlan, Statuses, CANCELLABLE_STATUSES
<1>3. SoundPlan("cancelled", CancelSlices(ss))
  BY <1>1, SlicesCancelled DEF SoundPlan, Statuses, CANCELLABLE_STATUSES
<1>4. SoundPlan("cancelled_by_account_disabled", ss)
  BY <1>1 DEF SoundPlan, Statuses, CANCELLABLE_STATUSES
<1> QED
  BY <1>2, <1>3, <1>4

\* IntentLifecycleCommand.run leaves a plan alone, activates it, or expires it with
\* its slices.
LEMMA LifecycleFacts ==
    /\ LifecycleRun.st = [i \in Ids |-> LifecycleRun.st[i]]
    /\ LifecycleRun.ss = [i \in Ids |-> LifecycleRun.ss[i]]
    /\ \A i \in Ids :
          \/ LifecycleRun.st[i] = status[i] /\ LifecycleRun.ss[i] = slice[i]
          \/ status[i] = "scheduled" /\ LifecycleRun.st[i] = "active" /\ LifecycleRun.ss[i] = slice[i]
          \/ Open(i) /\ LifecycleRun.st[i] = "expired" /\ LifecycleRun.ss[i] = CancelPending(slice[i])
<1> DEFINE m == MinuteOf(now)
           cutoff == get_expirable_day_intent_cutoff(m)
           due == {j \in Ids : status[j] \in CANCELLABLE_STATUSES /\ plan[j].date <= cutoff}
           st == [j \in Ids |-> IF j \in due THEN "expired" ELSE status[j]]
           ss == [j \in Ids |-> IF j \in due THEN CancelPending(slice[j]) ELSE slice[j]]
           on == [j \in Ids |-> IF st[j] = "scheduled" /\ plan[j].date = DayOf(m) THEN "active" ELSE st[j]]
<1> HIDE DEF m, cutoff
<1>1. system_expire_day_intents_through(status, slice, cutoff) = [st |-> st, ss |-> ss]
  BY DEF system_expire_day_intents_through
<1>2. system_activate_scheduled_day_intents(st, DayOf(m)) = on
  BY DEF system_activate_scheduled_day_intents
<1>3. /\ LifecycleRun.ss = ss
      /\ LifecycleRun.st = IF InRegularSession(now) THEN on ELSE st
  <2> HIDE DEF st, ss, on
  <2>1. LifecycleRun = IF InRegularSession(now)
                       THEN [[st |-> st, ss |-> ss] EXCEPT !.st = on] ELSE [st |-> st, ss |-> ss]
    BY <1>1, <1>2 DEF LifecycleRun, m, cutoff
  <2> QED
    BY <2>1
<1>4. ASSUME NEW i \in Ids, i \in due
      PROVE  st[i] = "expired" /\ on[i] = "expired" /\ ss[i] = CancelPending(slice[i]) /\ Open(i)
  BY <1>4 DEF Open
<1>5. ASSUME NEW i \in Ids, i \notin due
      PROVE  /\ st[i] = status[i] /\ ss[i] = slice[i]
             /\ on[i] = status[i] \/ (status[i] = "scheduled" /\ on[i] = "active")
  BY <1>5
<1>6. st = [i \in Ids |-> st[i]] /\ ss = [i \in Ids |-> ss[i]] /\ on = [i \in Ids |-> on[i]]
  OBVIOUS
<1> HIDE DEF st, ss, on, due
<1> QED
  BY <1>3, <1>4, <1>5, <1>6

\* A run of the lifecycle as seen by a transaction: plans stay sound, nothing opens,
\* and the slices of a plan change only with its status.
LEMMA LifecycleKeeps ==
    ASSUME TwapInvariant, status' = LifecycleRun.st, slice' = LifecycleRun.ss
    PROVE  /\ status' \in [Ids -> Statuses] /\ slice' \in [Ids -> Seq(SoundSlices)]
           /\ \A i \in Ids : SoundPlan(status'[i], slice'[i])
           /\ \A i \in Ids : status'[i] \in CANCELLABLE_STATUSES => Open(i)
           /\ \A i \in Ids : status'[i] = "absent" <=> status[i] = "absent"
           /\ \A i \in Ids : LifecycleRun.st[i] = status[i] => status'[i] = status[i] /\ slice'[i] = slice[i]
           /\ \A i \in Ids : slice'[i] = slice[i] \/ slice'[i] = CancelPending(slice[i])
<1>1. ASSUME NEW i \in Ids
      PROVE  /\ SoundPlan(status'[i], slice'[i])
             /\ status'[i] \in CANCELLABLE_STATUSES => Open(i)
             /\ status'[i] = "absent" <=> status[i] = "absent"
             /\ LifecycleRun.st[i] = status[i] => status'[i] = status[i] /\ slice'[i] = slice[i]
             /\ slice'[i] = slice[i] \/ slice'[i] = CancelPending(slice[i])
  <2>1. SoundPlan(status[i], slice[i])
    BY DEF TwapInvariant
  <2>2. CASE LifecycleRun.st[i] = status[i] /\ LifecycleRun.ss[i] = slice[i]
    BY <2>1, <2>2 DEF Open
  <2>3. CASE status[i] = "scheduled" /\ LifecycleRun.st[i] = "active" /\ LifecycleRun.ss[i] = slice[i]
    <3>1. SoundPlan("active", slice[i])
      BY <2>1, <2>3 DEF SoundPlan, CANCELLABLE_STATUSES, Statuses
    <3> QED
      BY <2>3, <3>1 DEF Open, CANCELLABLE_STATUSES
  <2>4. CASE /\ Open(i) /\ LifecycleRun.st[i] = "expired"
             /\ LifecycleRun.ss[i] = CancelPending(slice[i])
    <3>1. SoundPlan("expired", CancelPending(slice[i]))
      BY <2>1, PlanClosed
    <3> QED
      BY <2>4, <3>1 DEF Open, CANCELLABLE_STATUSES
  <2> QED
    BY <2>2, <2>3, <2>4, LifecycleFacts
<1>2. status' \in [Ids -> Statuses] /\ slice' \in [Ids -> Seq(SoundSlices)]
  <2>1. \A i \in Ids : LifecycleRun.st[i] \in Statuses /\ LifecycleRun.ss[i] \in Seq(SoundSlices)
    BY <1>1 DEF SoundPlan
  <2> QED
    BY <2>1, LifecycleFacts
<1> QED
  BY <1>1, <1>2

-----------------------------------------------------------------------------
(* Frames: what a step leaves alone *)

\* A worker run stays sound while the plans it holds are left alone.
LEMMA RunKept ==
    ASSUME NEW w \in Workers, SoundRun(w), tx'[w] = tx[w],
           \A r \in tx[w].rows : r[1] \in Ids => status'[r[1]] = status[r[1]] /\ slice'[r[1]] = slice[r[1]]
    PROVE  SoundRun(w)'
<1>1. ASSUME NEW r \in tx[w].rows
      PROVE  r \in Rows' /\ SliceOf(r)' = SliceOf(r) /\ status'[r[1]] = status[r[1]]
  <2>1. r \in Rows
    BY DEF SoundRun
  <2>2. r = <<r[1], r[2]>> /\ r[1] \in Ids /\ r[2] \in 1..Len(slice[r[1]])
    BY <2>1, RowsIn DEF Rows
  <2>3. r \in Rows'
    BY <2>2, RowsIn DEF Rows
  <2> QED
    BY <2>2, <2>3 DEF SliceOf
<1>2. tx'[w].rows \subseteq Rows'
  BY <1>1
<1>3. \A r \in tx[w].rows : (SliceOf(r)').st = SliceOf(r).st /\ (SliceOf(r)').required = SliceOf(r).required
  BY <1>1
<1>4. \A r \in tx[w].rows : Open(r[1])' = Open(r[1])
  BY <1>1 DEF Open
<1> QED
  BY <1>2, <1>3, <1>4 DEF SoundRun

\* A request stays sound while existing rows keep their plan and its own does not exist.
LEMMA RequestKept ==
    ASSUME NEW p \in Api, SoundRequest(p), tx'[p] = tx[p],
           \A i \in Ids : plan[i] # None => plan'[i] # None,
           tx[p].pc = "c_inserted" => plan'[tx[p].cur] = plan[tx[p].cur]
    PROVE  SoundRequest(p)'
BY DEF SoundRequest

\* No row opens and nothing is inserted: no key is taken.
LEMMA KeysKept ==
    ASSUME NoCollision,
           \A i \in Ids : status'[i] \in CANCELLABLE_STATUSES => Open(i) /\ plan'[i] = plan[i],
           \A p \in Api : Inserted(p)' => tx'[p] = tx[p]
    PROVE  NoCollision'
BY DEF NoCollision, Open, Inserted

\* Runs that only give rows back stay apart.
LEMMA ApartKept ==
    ASSUME RunsApart, \A w \in Workers : tx'[w].rows \subseteq tx[w].rows
    PROVE  RunsApart'
BY DEF RunsApart

\* A thread that is idle is sound.
LEMMA IdleSound ==
    ASSUME NEW p \in Threads, tx'[p] = Idle
    PROVE  SoundRequest(p)' /\ SoundRun(p)' /\ ~ Inserted(p)' /\ tx'[p].rows = {}
BY DEF SoundRequest, SoundRun, Inserted, Idle, Due, Followups, Loaded

\* The steps that change transaction p only, and neither insert nor load.
LEMMA TxStep ==
    ASSUME TwapInvariant, NEW p \in Threads, now' \in Nat, UNCHANGED <<plan, status, slice>>,
           tx' \in [Threads -> Transactions], \A q \in Threads \ {p} : tx'[q] = tx[q],
           p \in Api => SoundRequest(p)' /\ ~ Inserted(p)',
           p \in Workers => SoundRun(p)' /\ tx'[p].rows = {}
    PROVE  TwapInvariant'
<1>1. TwapTypes' /\ \A i \in Ids : SoundPlan(status[i], slice[i])'
  BY DEF TwapInvariant, TwapTypes
<1>2. \A q \in Api : SoundRequest(q)'
  BY RequestKept DEF TwapInvariant, Threads
<1>3. \A w \in Workers : SoundRun(w)'
  BY RunKept DEF TwapInvariant, Threads
<1>4. NoCollision'
  BY KeysKept DEF TwapInvariant, Threads, Open, Inserted
<1>5. RunsApart'
  BY ApartKept DEF TwapInvariant, Threads
<1> QED
  BY <1>1, <1>2, <1>3, <1>4, <1>5 DEF TwapInvariant

-----------------------------------------------------------------------------
(* Requests *)

\* A request that ends, or reads before it writes, takes no key.
LEMMA ConfirmStep ==
    ASSUME TwapAssumption, TwapInvariant, NEW p \in Api, NEW o \in Offers, Confirm(p, o)
    PROVE  TwapInvariant'
<1>1. now \in Nat /\ tx \in [Threads -> Transactions] /\ p \in Threads
  BY DEF TwapInvariant, TwapTypes, Threads
<1>2. PICK pc \in {"c_checked", "c_duplicate"} :
          tx' = [tx EXCEPT ![p] = [Idle EXCEPT !.offer = o, !.at = now, !.pc = pc]]
  BY Zenon DEF Confirm
<1>3. UNCHANGED <<now, plan, status, slice>>
  BY DEF Confirm, env, db
<1>4. /\ tx'[p] = [Idle EXCEPT !.offer = o, !.at = now, !.pc = pc]
      /\ \A q \in Threads \ {p} : tx'[q] = tx[q]
  BY <1>1, <1>2
<1>5. tx'[p] = [pc |-> pc, offer |-> o, cur |-> None, at |-> now, rows |-> {}]
  BY <1>4, Zenon DEF Idle
<1>6. tx'[p] \in Transactions
  BY <1>1, <1>5 DEF Transactions
<1>7. tx' \in [Threads -> Transactions]
  BY <1>1, <1>2, <1>6
<1>8. SoundRequest(p)' /\ ~ Inserted(p)' /\ p \notin Workers
  BY <1>5 DEF SoundRequest, Inserted, TwapAssumption
<1> QED
  BY <1>1, <1>3, <1>4, <1>7, <1>8, TxStep

\* The reply, a failure, and a refused subscription end the transaction.
LEMMA EndStep ==
    ASSUME TwapInvariant, NEW p \in Threads, tx' = [tx EXCEPT ![p] = Idle],
           UNCHANGED <<now, plan, status, slice>>
    PROVE  TwapInvariant'
<1>1. now \in Nat /\ tx \in [Threads -> Transactions]
  BY DEF TwapInvariant, TwapTypes
<1>2. tx'[p] = Idle /\ \A q \in Threads \ {p} : tx'[q] = tx[q]
  BY <1>1
<1>3. Idle \in Transactions
  BY DEF Idle, Transactions
<1>4. tx' \in [Threads -> Transactions]
  BY <1>1, <1>3
<1> QED
  BY <1>1, <1>2, <1>4, IdleSound, TxStep

\* IntentRepository.cancel reads the row first.
LEMMA ReadStep ==
    ASSUME TwapAssumption, TwapInvariant, NEW p \in Api, NEW i \in Ids, ReadForCancel(p, i)
    PROVE  TwapInvariant'
<1>1. now \in Nat /\ tx \in [Threads -> Transactions] /\ p \in Threads
  BY DEF TwapInvariant, TwapTypes, Threads
<1>2. /\ tx' = [tx EXCEPT ![p] = [Idle EXCEPT !.pc = "x_read", !.cur = i]]
      /\ UNCHANGED <<now, plan, status, slice>>
  BY DEF ReadForCancel, env, db
<1>3. plan[i] # None
  BY DEF ReadForCancel, Open, CANCELLABLE_STATUSES, TwapInvariant, TwapTypes
<1>4. /\ tx'[p] = [Idle EXCEPT !.pc = "x_read", !.cur = i]
      /\ \A q \in Threads \ {p} : tx'[q] = tx[q]
  BY <1>1, <1>2
<1>5. tx'[p] = [pc |-> "x_read", offer |-> None, cur |-> i, at |-> 0, rows |-> {}]
  BY <1>4, Zenon DEF Idle
<1>6. tx'[p] \in Transactions
  BY <1>1, <1>5 DEF Transactions
<1>7. tx' \in [Threads -> Transactions]
  BY <1>1, <1>2, <1>6
<1>8. SoundRequest(p)' /\ ~ Inserted(p)' /\ p \notin Workers
  BY <1>2, <1>3, <1>5 DEF SoundRequest, Inserted, TwapAssumption
<1> QED
  BY <1>1, <1>2, <1>4, <1>7, <1>8, TxStep

\* Collide does not depend on the order of the two plans.
LEMMA CollideSymmetric == ASSUME NEW a, NEW b PROVE Collide(a, b) <=> Collide(b, a)
BY DEF Collide, SameSide

\* The flush takes the key for the transaction, or fails on a committed row.
LEMMA CreateStep ==
    ASSUME TwapAssumption, TwapInvariant, NEW p \in Api, create_twap(p)
    PROVE  TwapInvariant'
<1>1. now \in Nat /\ tx \in [Threads -> Transactions] /\ p \in Threads /\ p \notin Workers
  BY DEF TwapInvariant, TwapTypes, Threads, TwapAssumption
<1>2. tx[p].pc = "c_checked" /\ tx[p].offer \in Offers /\ UNCHANGED <<now, plan, status, slice>>
  BY DEF create_twap, db, TwapInvariant, SoundRequest
<1>3. CASE tx' = [tx EXCEPT ![p].pc = "c_duplicate"]
  <2>1. /\ tx'[p] = [tx[p] EXCEPT !.pc = "c_duplicate"]
        /\ \A q \in Threads \ {p} : tx'[q] = tx[q]
    BY <1>1, <1>3
  <2>2. tx'[p] \in Transactions /\ tx'[p].pc = "c_duplicate"
    BY <1>1, <2>1 DEF Transactions
  <2>3. tx' \in [Threads -> Transactions]
    BY <1>1, <1>3, <2>2
  <2>4. SoundRequest(p)' /\ ~ Inserted(p)'
    BY <2>2 DEF SoundRequest, Inserted
  <2> QED
    BY <1>1, <1>2, <2>1, <2>3, <2>4, TxStep
<1>4. CASE tx' = [tx EXCEPT ![p] = Idle]
  BY <1>1, <1>2, <1>4, EndStep, Zenon
<1>5. ASSUME NEW i \in Ids, plan[i] = None, \A q \in Api : tx[q].cur # i,
             tx' = [tx EXCEPT ![p].pc = "c_inserted", ![p].cur = i],
             \A j \in Ids : Open(j) => ~ Collide(plan[j], tx[p].offer)
      PROVE  TwapInvariant'
  <2>1. /\ tx'[p] = [tx[p] EXCEPT !.pc = "c_inserted", !.cur = i]
        /\ \A q \in Threads \ {p} : tx'[q] = tx[q]
    BY <1>1, <1>5
  <2>2. /\ tx'[p] \in Transactions /\ tx'[p].pc = "c_inserted" /\ tx'[p].cur = i
        /\ tx'[p].offer = tx[p].offer
    <3>1. PICK t \in Transactions : t = tx[p]
      BY <1>1
    <3>2. tx'[p] = [t EXCEPT !.pc = "c_inserted", !.cur = i]
      BY <2>1, <3>1
    <3>3. tx'[p].pc = "c_inserted" /\ tx'[p].cur = i /\ tx'[p].offer = t.offer
      BY <3>2 DEF Transactions
    <3>4. tx'[p] \in Transactions
      BY <3>2, Zenon DEF Transactions
    <3> QED
      BY <3>1, <3>3, <3>4
  <2>3. TwapTypes' /\ \A j \in Ids : SoundPlan(status[j], slice[j])'
    <3>1. tx' \in [Threads -> Transactions]
      BY <1>1, <1>5, <2>2
    <3> QED
      BY <1>2, <3>1 DEF TwapInvariant, TwapTypes
  <2>4. SoundRequest(p)'
    BY <1>2, <1>5, <2>2 DEF SoundRequest
  <2>5. \A q \in Api : SoundRequest(q)'
    BY <1>2, <2>1, <2>4, RequestKept DEF TwapInvariant, Threads
  <2>6. \A w \in Workers : tx'[w] = tx[w]
    BY <1>1, <2>1 DEF Threads
  <2>7. \A w \in Workers : SoundRun(w)'
    BY <1>2, <2>6, RunKept DEF TwapInvariant
  <2>8. RunsApart'
    BY <2>6, ApartKept DEF TwapInvariant
  <2>9. \A q \in Api \ {p} : Inserted(q) => ~ Collide(tx[q].offer, tx[p].offer)
    BY DEF create_twap
  <2>10. \A q \in Api \ {p} : tx'[q] = tx[q] /\ tx'[q].cur # i
    BY <1>5, <2>1, Zenon DEF Threads
  <2>11. NoCollision
    BY DEF TwapInvariant
  <2>12. NoCollision'
    <3>1. \A j, k \in Ids : j # k /\ Open(j)' /\ Open(k)' => ~ Collide(plan'[j], plan'[k])
      BY <1>2, <2>11 DEF NoCollision, Open
    <3>2. \A q \in Api : Inserted(q)' => \A j \in Ids : Open(j)' => ~ Collide(plan'[j], tx'[q].offer)
      BY <1>2, <1>5, <2>2, <2>10, <2>11, Zenon DEF NoCollision, Open, Inserted
    <3>3. \A q \in Api \ {p} : Inserted(q)' => Inserted(q) /\ tx'[q].offer = tx[q].offer
      BY <2>10 DEF Inserted
    <3>4. ASSUME NEW q \in Api, NEW r \in Api \ {q}, Inserted(q)', Inserted(r)'
          PROVE  tx'[r].cur # tx'[q].cur /\ ~ Collide(tx'[r].offer, tx'[q].offer)
      <4>1. CASE q = p
        BY <2>2, <2>9, <2>10, <3>3, <3>4, <4>1
      <4>2. CASE r = p
        BY <2>2, <2>9, <2>10, <3>3, <3>4, <4>2, CollideSymmetric
      <4>3. CASE q # p /\ r # p
        BY <2>10, <2>11, <3>3, <3>4, <4>3 DEF NoCollision
      <4> QED
        BY <4>1, <4>2, <4>3
    <3> QED
      BY <3>1, <3>2, <3>4 DEF NoCollision
  <2> QED
    BY <2>3, <2>5, <2>7, <2>8, <2>12 DEF TwapInvariant
<1> QED
  BY <1>3, <1>4, <1>5 DEF create_twap

\* The commit of a confirmation: the plan opens with all its slices pending, under the
\* key its transaction holds.
LEMMA CommitConfirmStep ==
    ASSUME TwapAssumption, TwapInvariant, NEW p \in Api, CommitConfirm(p)
    PROVE  TwapInvariant'
<1>1. /\ now \in Nat /\ tx \in [Threads -> Transactions] /\ p \in Threads /\ p \notin Workers
      /\ plan \in [Ids -> Offers \cup {None}] /\ status \in [Ids -> Statuses]
      /\ slice \in [Ids -> Seq(SoundSlices)]
  BY DEF TwapInvariant, TwapTypes, Threads, TwapAssumption
<1>2. Inserted(p) /\ tx[p].cur \in Ids /\ tx[p].offer \in Offers /\ plan[tx[p].cur] = None
  BY DEF CommitConfirm, Inserted, TwapInvariant, SoundRequest
<1>3. PICK i \in Ids, o \in Offers : i = tx[p].cur /\ o = tx[p].offer
  BY <1>2
<1>4. PICK st \in CANCELLABLE_STATUSES : st = IF InRegularSession(tx[p].at) THEN "active" ELSE "scheduled"
  BY DEF CANCELLABLE_STATUSES
<1>5. PICK ss : ss = [k \in 1..Len(o.at) |-> NewSlice(o.at[k])]
  BY Zenon
<1>6. /\ plan' = [plan EXCEPT ![i] = o] /\ status' = [status EXCEPT ![i] = st]
      /\ slice' = [slice EXCEPT ![i] = ss]
      /\ tx' = [tx EXCEPT ![p] = Idle] /\ UNCHANGED <<now, halt, subscribed, active, faults, turn>>
  BY <1>3, <1>4, <1>5 DEF CommitConfirm, env
<1>7. plan[i] = None /\ o # None /\ status[i] = "absent" /\ slice[i] = <<>>
  <2>1. plan[i] = None /\ o # None /\ status[i] = "absent"
    BY <1>2, <1>3 DEF TwapInvariant, TwapTypes, TwapAssumption
  <2> QED
    BY <2>1 DEF TwapInvariant, SoundPlan
<1>8. SoundPlan(st, ss)
  <2>1. o.at \in Seq(Nat) /\ Len(o.at) \in Nat /\ Len(o.at) >= 1
    BY SeqLength DEF TwapAssumption
  <2>2. \A k \in 1..Len(o.at) : o.at[k] \in Nat
    BY <2>1, SeqElement
  <2>3. \A k \in 1..Len(o.at) : ss[k] \in SoundSlices /\ ss[k].st = "pending"
    BY <1>5, <2>2, NewSliceSound
  <2>4. ss \in [1..Len(o.at) -> SoundSlices]
    BY <1>5, <2>3, Zenon
  <2>5. ss \in Seq(SoundSlices) /\ Len(ss) = Len(o.at)
    BY <2>1, <2>4, SlicesMapped, Zenon
  <2>6. 1 \in 1..Len(ss) /\ \A k \in 1..Len(ss) : ss[k].st = "pending"
    BY <2>1, <2>3, <2>5
  <2> QED
    BY <2>5, <2>6 DEF SoundPlan, Statuses, CANCELLABLE_STATUSES
<1>9. /\ plan'[i] = o /\ status'[i] = st /\ slice'[i] = ss
      /\ \A j \in Ids \ {i} : plan'[j] = plan[j] /\ status'[j] = status[j] /\ slice'[j] = slice[j]
      /\ tx'[p] = Idle /\ \A q \in Threads \ {p} : tx'[q] = tx[q]
  BY <1>1, <1>6
<1>10. TwapTypes'
  <2>1. Idle \in Transactions
    BY DEF Idle, Transactions
  <2>2. tx' \in [Threads -> Transactions] /\ plan' \in [Ids -> Offers \cup {None}]
    BY <1>1, <1>6, <2>1
  <2>3. status' \in [Ids -> Statuses] /\ slice' \in [Ids -> Seq(SoundSlices)]
    BY <1>1, <1>6, <1>8 DEF SoundPlan
  <2>4. \A j \in Ids : status'[j] = "absent" <=> plan'[j] = None
    BY <1>4, <1>7, <1>9, Zenon DEF TwapInvariant, TwapTypes, CANCELLABLE_STATUSES
  <2> QED
    BY <1>1, <1>6, <2>2, <2>3, <2>4 DEF TwapTypes
<1>11. \A j \in Ids : SoundPlan(status'[j], slice'[j])
  BY <1>8, <1>9 DEF TwapInvariant
<1>12. \A q \in Api : SoundRequest(q)'
  <2>1. SoundRequest(p)'
    BY <1>1, <1>9, IdleSound
  <2>2. ASSUME NEW q \in Api \ {p} PROVE SoundRequest(q)'
    <3>1. tx[q].pc = "c_inserted" => tx[q].cur # i /\ tx[q].cur \in Ids
      BY <1>2, <1>3 DEF TwapInvariant, NoCollision, Inserted, SoundRequest
    <3>2. SoundRequest(q) /\ tx'[q] = tx[q]
      BY <1>9 DEF TwapInvariant, Threads
    <3> QED
      BY <1>7, <1>9, <3>1, <3>2, RequestKept
  <2> QED
    BY <2>1, <2>2
<1>13. ASSUME NEW w \in Workers PROVE SoundRun(w)' /\ tx'[w] = tx[w]
  <2>1. SoundRun(w) /\ tx'[w] = tx[w]
    BY <1>1, <1>9 DEF TwapInvariant, Threads
  <2>2. \A r \in tx[w].rows : r[1] \in Ids \ {i}
    <3> SUFFICES ASSUME NEW r \in tx[w].rows PROVE r[1] \in Ids \ {i}
      OBVIOUS
    <3>1. r[1] \in Ids /\ r[2] \in 1..Len(slice[r[1]])
      BY <2>1, RowsIn DEF SoundRun, Rows
    <3>2. 1..Len(slice[i]) = {}
      BY <1>7, NoPlaces, Zenon
    <3> QED
      BY <3>1, <3>2, Zenon
  <2> QED
    BY <1>9, <2>1, <2>2, RunKept
<1>14. RunsApart'
  BY <1>13, ApartKept DEF TwapInvariant
<1>15. NoCollision'
  <2>1. NoCollision /\ \A q \in Api : Inserted(q)' => q # p /\ Inserted(q) /\ tx'[q] = tx[q]
    BY <1>9 DEF TwapInvariant, Inserted, Idle, Threads
  <2>2. /\ \A j \in Ids : Open(j) => ~ Collide(plan[j], o)
        /\ \A q \in Api \ {p} : Inserted(q) => ~ Collide(tx[q].offer, o)
    BY <1>2, <1>3, <2>1 DEF NoCollision
  <2>3. \A j \in Ids \ {i} : Open(j)' => Open(j) /\ plan'[j] = plan[j]
    BY <1>9 DEF Open
  <2>4. ASSUME NEW j \in Ids, NEW k \in Ids \ {j}, Open(j)', Open(k)'
        PROVE  ~ Collide(plan'[j], plan'[k])
    <3>1. CASE j = i
      BY <1>9, <2>2, <2>3, <2>4, <3>1, CollideSymmetric
    <3>2. CASE k = i
      BY <1>9, <2>2, <2>3, <2>4, <3>2
    <3>3. CASE j # i /\ k # i
      BY <2>1, <2>3, <2>4, <3>3 DEF NoCollision
    <3> QED
      BY <3>1, <3>2, <3>3
  <2>5. ASSUME NEW q \in Api, Inserted(q)', NEW j \in Ids, Open(j)'
        PROVE  ~ Collide(plan'[j], tx'[q].offer)
    <3>1. CASE j = i
      BY <1>9, <2>1, <2>2, <2>5, <3>1, CollideSymmetric
    <3>2. CASE j # i
      BY <2>1, <2>3, <2>5, <3>2 DEF NoCollision
    <3> QED
      BY <3>1, <3>2
  <2>6. ASSUME NEW q \in Api, NEW r \in Api \ {q}, Inserted(q)', Inserted(r)'
        PROVE  tx'[r].cur # tx'[q].cur /\ ~ Collide(tx'[r].offer, tx'[q].offer)
    BY <2>1, <2>6 DEF NoCollision
  <2> QED
    BY <2>4, <2>5, <2>6 DEF NoCollision
<1> QED
  BY <1>10, <1>11, <1>12, <1>13, <1>14, <1>15 DEF TwapInvariant

\* Steps that close plans without a lock held on them and end transaction p, if any:
\* the cancel command, the cascade and the lifecycle.
LEMMA CloseStep ==
    ASSUME TwapAssumption, TwapInvariant, plan' = plan, now' = now,
           tx' \in [Threads -> Transactions],
           status' \in [Ids -> Statuses], slice' \in [Ids -> Seq(SoundSlices)],
           \A i \in Ids : SoundPlan(status'[i], slice'[i]),
           \A i \in Ids : status'[i] \in CANCELLABLE_STATUSES => Open(i),
           \A i \in Ids : status'[i] = "absent" <=> status[i] = "absent",
           \A p \in Api : tx'[p] = tx[p] \/ tx'[p] = Idle,
           \A w \in Workers : tx'[w] = tx[w] \/ (SoundRun(w)' /\ tx'[w].rows = {}),
           \A w \in Workers : tx'[w] = tx[w] => \A r \in tx[w].rows : r[1] \in Ids =>
               status'[r[1]] = status[r[1]] /\ slice'[r[1]] = slice[r[1]]
    PROVE  TwapInvariant'
<1>1. TwapTypes'
  BY DEF TwapInvariant, TwapTypes
<1>2. ASSUME NEW p \in Api PROVE SoundRequest(p)'
  <2>1. SoundRequest(p) /\ p \in Threads
    BY DEF TwapInvariant, Threads
  <2>2. CASE tx'[p] = tx[p]
    BY <2>1, <2>2, RequestKept
  <2>3. CASE tx'[p] = Idle
    BY <2>1, <2>3, IdleSound
  <2> QED
    BY <2>2, <2>3
<1>3. \A w \in Workers : SoundRun(w)'
  BY RunKept DEF TwapInvariant
<1>4. NoCollision'
  <2>1. \A p \in Api : Inserted(p)' => tx'[p] = tx[p]
    <3>1. Idle.pc # "c_inserted"
      BY DEF Idle
    <3> QED
      BY <3>1, Zenon DEF Inserted
  <2> QED
    BY <2>1, KeysKept DEF TwapInvariant
<1>5. RunsApart'
  BY ApartKept DEF TwapInvariant
<1> QED
  BY <1>1, <1>2, <1>3, <1>4, <1>5 DEF TwapInvariant

\* Rows another thread may write are in no run.
LEMMA FreeRows ==
    ASSUME NEW i, Free(i), NEW w \in Workers PROVE \A r \in tx[w].rows : r[1] # i
BY DEF Free

\* The cancel command updates by id alone, and waits for the lock of a worker run.
LEMMA CancelStep ==
    ASSUME TwapAssumption, TwapInvariant, NEW p \in Api, cancel(p)
    PROVE  TwapInvariant'
<1>1. /\ tx \in [Threads -> Transactions] /\ p \in Threads /\ p \notin Workers
      /\ status \in [Ids -> Statuses] /\ slice \in [Ids -> Seq(SoundSlices)]
  BY DEF TwapInvariant, TwapTypes, Threads, TwapAssumption
<1>2. tx[p].cur \in Ids /\ plan[tx[p].cur] # None
  BY DEF cancel, TwapInvariant, SoundRequest
<1>3. PICK i \in Ids : i = tx[p].cur
  BY <1>2
<1>4. /\ Free(i) /\ status[i] # "absent" /\ SoundPlan(status[i], slice[i])
      /\ status' = [status EXCEPT ![i] = "cancelled"]
      /\ slice' = [slice EXCEPT ![i] = CancelSlices(slice[i])]
      /\ tx' = [tx EXCEPT ![p] = Idle] /\ UNCHANGED <<now, plan>>
  BY <1>2, <1>3 DEF cancel, TwapInvariant, TwapTypes
<1>5. SoundPlan("cancelled", CancelSlices(slice[i]))
  BY <1>4, PlanClosed
<1>6. CancelSlices(slice[i]) \in Seq(SoundSlices)
  BY <1>5 DEF SoundPlan
<1>7. /\ status'[i] = "cancelled" /\ slice'[i] = CancelSlices(slice[i])
      /\ \A j \in Ids \ {i} : status'[j] = status[j] /\ slice'[j] = slice[j]
      /\ tx'[p] = Idle /\ \A q \in Threads \ {p} : tx'[q] = tx[q]
  BY <1>1, <1>4
<1>8. status' \in [Ids -> Statuses] /\ slice' \in [Ids -> Seq(SoundSlices)]
  BY <1>1, <1>4, <1>6 DEF Statuses
<1>9. tx' \in [Threads -> Transactions]
  <2>1. Idle \in Transactions
    BY DEF Idle, Transactions
  <2> QED
    BY <1>1, <1>4, <2>1
<1>10. \A j \in Ids : SoundPlan(status'[j], slice'[j])
  BY <1>5, <1>7 DEF TwapInvariant
<1>11. \A j \in Ids : /\ status'[j] \in CANCELLABLE_STATUSES => Open(j)
                      /\ status'[j] = "absent" <=> status[j] = "absent"
  BY <1>4, <1>7 DEF CANCELLABLE_STATUSES, Open
<1>12. \A q \in Api : tx'[q] = tx[q] \/ tx'[q] = Idle
  BY <1>7 DEF Threads
<1>13. \A w \in Workers : tx'[w] = tx[w]
  BY <1>1, <1>7 DEF Threads
<1>14. \A w \in Workers : \A r \in tx[w].rows : r[1] \in Ids =>
           status'[r[1]] = status[r[1]] /\ slice'[r[1]] = slice[r[1]]
  BY <1>4, <1>7, FreeRows
<1> QED
  BY <1>4, <1>8, <1>9, <1>10, <1>11, <1>12, <1>13, <1>14, CloseStep

\* The account cascade closes the open plans of the owner and leaves their slices.
LEMMA CascadeStep ==
    ASSUME TwapAssumption, TwapInvariant, NEW o \in Owners, cancel_active_for_owner(o)
    PROVE  TwapInvariant'
<1>1. /\ tx \in [Threads -> Transactions] /\ status \in [Ids -> Statuses]
      /\ slice \in [Ids -> Seq(SoundSlices)]
  BY DEF TwapInvariant, TwapTypes
<1>2. /\ \A i \in Ids : Open(i) /\ plan[i].owner = o => Free(i)
      /\ status' = [i \in Ids |-> IF Open(i) /\ plan[i].owner = o
                                  THEN "cancelled_by_account_disabled" ELSE status[i]]
      /\ UNCHANGED <<now, plan, slice, tx>>
  BY DEF cancel_active_for_owner
<1>3. status' \in [Ids -> Statuses]
  BY <1>1, <1>2 DEF Statuses
<1>4. \A i \in Ids : \/ status'[i] = status[i]
                     \/ Free(i) /\ Open(i) /\ status'[i] = "cancelled_by_account_disabled"
  BY <1>2
<1>5. \A i \in Ids : SoundPlan(status'[i], slice'[i])
  BY <1>2, <1>4, PlanClosed DEF TwapInvariant
<1>6. \A i \in Ids : /\ status'[i] \in CANCELLABLE_STATUSES => Open(i)
                     /\ status'[i] = "absent" <=> status[i] = "absent"
  BY <1>4 DEF CANCELLABLE_STATUSES, Open
<1>7. \A w \in Workers : \A r \in tx[w].rows : r[1] \in Ids =>
           status'[r[1]] = status[r[1]] /\ slice'[r[1]] = slice[r[1]]
  BY <1>2, <1>4, FreeRows
<1> QED
  BY <1>1, <1>2, <1>3, <1>5, <1>6, <1>7, CloseStep, Zenon

\* The lifecycle, run by a quote or by a worker phase, waits for locked rows.
LEMMA LifecycleStep ==
    ASSUME TwapAssumption, TwapInvariant, status' = LifecycleRun.st, slice' = LifecycleRun.ss,
           LifecycleReady, UNCHANGED <<now, plan>>, tx' \in [Threads -> Transactions],
           \A p \in Api : tx'[p] = tx[p],
           \A w \in Workers : tx'[w] = tx[w] \/ (SoundRun(w)' /\ tx'[w].rows = {})
    PROVE  TwapInvariant'
<1>1. \A w \in Workers : \A r \in tx[w].rows : r[1] \in Ids =>
           status'[r[1]] = status[r[1]] /\ slice'[r[1]] = slice[r[1]]
  BY LifecycleKeeps, FreeRows DEF LifecycleReady
<1> QED
  BY <1>1, LifecycleKeeps, CloseStep

-----------------------------------------------------------------------------
(* Worker runs *)

\* A phase begins with the lifecycle and holds nothing yet.
LEMMA BeginStep ==
    ASSUME TwapAssumption, TwapInvariant, NEW w \in Workers, NEW ph \in {Due, Followups}, BeginPhase(w, ph)
    PROVE  TwapInvariant'
<1>1. /\ now \in Nat /\ tx \in [Threads -> Transactions] /\ w \in Threads /\ w \notin Api
  BY DEF TwapInvariant, TwapTypes, Threads, TwapAssumption
<1>2. /\ LifecycleReady /\ status' = LifecycleRun.st /\ slice' = LifecycleRun.ss
      /\ UNCHANGED <<now, plan>>
  BY DEF BeginPhase, env
<1>3. CASE tx' = tx
  BY <1>1, <1>2, <1>3, LifecycleStep
<1>4. CASE tx' = [tx EXCEPT ![w] = [Idle EXCEPT !.pc = ph, !.at = now]]
  <2>1. /\ tx'[w] = [Idle EXCEPT !.pc = ph, !.at = now]
        /\ \A q \in Threads \ {w} : tx'[q] = tx[q]
    BY <1>1, <1>4
  <2>2. tx'[w] = [pc |-> ph, offer |-> None, cur |-> None, at |-> now, rows |-> {}]
    BY <2>1, Zenon DEF Idle
  <2>3. tx'[w] \in Transactions
    BY <1>1, <2>2 DEF Transactions
  <2>4. tx' \in [Threads -> Transactions]
    BY <1>1, <1>4, <2>3
  <2>5. SoundRun(w)' /\ tx'[w].rows = {}
    BY <2>2 DEF SoundRun, Due, Followups, Loaded
  <2>6. \A p \in Api : tx'[p] = tx[p]
    BY <1>1, <2>1 DEF Threads
  <2>7. \A v \in Workers : tx'[v] = tx[v] \/ (SoundRun(v)' /\ tx'[v].rows = {})
    BY <2>1, <2>5, Zenon DEF Threads
  <2> QED
    BY <1>2, <2>4, <2>6, <2>7, LifecycleStep
<1> QED
  BY <1>3, <1>4 DEF BeginPhase

\* FOR UPDATE SKIP LOCKED: a run takes rows of plans nobody holds.
LEMMA LoadStep ==
    ASSUME TwapAssumption, TwapInvariant, NEW w \in Workers, Load(w)
    PROVE  TwapInvariant'
<1>1. /\ now \in Nat /\ tx \in [Threads -> Transactions] /\ w \in Threads /\ w \notin Api
      /\ UNCHANGED <<now, plan, status, slice>>
  BY DEF TwapInvariant, TwapTypes, Threads, TwapAssumption, Load, env, db
<1>2. PICK ph \in {Due, Followups} : ph = tx[w].pc
  BY DEF Load
<1>3. PICK cand : cand = IF tx[w].pc = Due THEN DueRows(tx[w].at) ELSE FollowupRows(tx[w].at)
  OBVIOUS
<1>a. PICK R \in FirstRows(tx[w].pc, SkipLocked(cand)) :
          tx' = [tx EXCEPT ![w] = IF R = {} THEN Idle
                                  ELSE [tx[w] EXCEPT !.rows = R, !.pc = Loaded(tx[w].pc)]]
  BY <1>3, Zenon DEF Load
<1>4. /\ R \in FirstRows(ph, SkipLocked(cand))
      /\ tx' = [tx EXCEPT ![w] = IF R = {} THEN Idle ELSE [tx[w] EXCEPT !.rows = R, !.pc = Loaded(ph)]]
  BY <1>2, <1>a
<1>5. /\ R \subseteq cand /\ \A r \in R : Free(r[1])
  BY <1>4 DEF FirstRows, SkipLocked
<1>6. CASE R = {}
  BY <1>1, <1>4, <1>6, EndStep, Zenon
<1>7. CASE R # {}
  <2>1. /\ tx'[w] = [tx[w] EXCEPT !.rows = R, !.pc = Loaded(ph)]
        /\ \A q \in Threads \ {w} : tx'[q] = tx[q]
    BY <1>1, <1>4, <1>7
  <2>2. R \subseteq Rows
    BY <1>2, <1>3, <1>5 DEF DueRows, FollowupRows
  <2>3. R \subseteq Ids \X Nat
    <3> SUFFICES ASSUME NEW r \in R PROVE r \in Ids \X Nat
      OBVIOUS
    <3>1. r = <<r[1], r[2]>> /\ r[1] \in Ids /\ r[2] \in 1..Len(slice[r[1]])
      BY <2>2, RowsIn DEF Rows
    <3>2. r[2] \in Nat
      BY <3>1
    <3> QED
      BY <3>1, <3>2
  <2>4. tx'[w].rows = R /\ tx'[w].pc = Loaded(ph) /\ tx'[w] \in Transactions
    <3>1. tx[w] \in Transactions /\ Loaded(ph) \in {Loaded(Due), Loaded(Followups)}
      BY <1>1
    <3> QED
      BY <2>1, <2>3, <3>1, Zenon DEF Transactions
  <2>5. TwapTypes' /\ \A i \in Ids : SoundPlan(status[i], slice[i])'
    <3>1. tx' \in [Threads -> Transactions]
      BY <1>1, <1>4, <1>7, <2>1, <2>4
    <3> QED
      BY <1>1, <3>1 DEF TwapInvariant, TwapTypes
  <2>6. \A p \in Api : tx'[p] = tx[p]
    BY <1>1, <2>1 DEF Threads
  <2>7. \A p \in Api : SoundRequest(p)'
    BY <1>1, <2>6, RequestKept DEF TwapInvariant
  <2>8. NoCollision'
    BY <1>1, <2>6, KeysKept DEF TwapInvariant, Open
  <2>9. SoundRun(w)'
    <3>1. /\ ph = Due => \A r \in R : SliceOf(r).st = "pending" /\ Open(r[1])
          /\ ph = Followups => \A r \in R : SliceOf(r).required
      BY <1>2, <1>3, <1>5 DEF DueRows, FollowupRows, Due, Followups
    <3>2. Rows' = Rows /\ \A r : SliceOf(r)' = SliceOf(r) /\ Open(r[1])' = Open(r[1])
      BY <1>1 DEF Rows, SliceOf, Open
    <3> QED
      BY <2>2, <2>4, <3>1, <3>2 DEF SoundRun, Due, Followups, Loaded
  <2>10. \A v \in Workers \ {w} : tx'[v] = tx[v]
    BY <2>1 DEF Threads
  <2>11. \A v \in Workers : SoundRun(v)'
    BY <1>1, <2>9, <2>10, RunKept DEF TwapInvariant
  <2>12. RunsApart'
    <3>1. \A v \in Workers \ {w} : \A r \in R, s \in tx[v].rows : r[1] # s[1]
      BY <1>5, FreeRows
    <3>2. tx'[w].rows = R /\ \A v \in Workers \ {w} : tx'[v].rows = tx[v].rows
      BY <2>4, <2>10, Zenon
    <3>3. RunsApart
      BY Zenon DEF TwapInvariant
    <3>4. ASSUME NEW v \in Workers, NEW u \in Workers, v # u, NEW r \in tx'[v].rows, NEW s \in tx'[u].rows
          PROVE  r[1] # s[1]
      <4>1. CASE v = w
        BY <3>1, <3>2, <3>4, <4>1, Zenon
      <4>2. CASE u = w
        BY <3>1, <3>2, <3>4, <4>2, Zenon
      <4>3. CASE v # w /\ u # w
        <5>1. r \in tx[v].rows /\ s \in tx[u].rows
          BY <3>2, <3>4, <4>3, Zenon
        <5> QED
          BY ONLY <3>3, <3>4, <5>1, Zenon DEF RunsApart
      <4> QED
        BY <4>1, <4>2, <4>3, Zenon
    <3> QED
      BY <3>4, Zenon DEF RunsApart
  <2> QED
    BY <2>5, <2>7, <2>8, <2>11, <2>12 DEF TwapInvariant
<1> QED
  BY <1>6, <1>7

\* The plans a run holds and what it rewrites of them: the slices it loaded.
LEMMA RunRewrites ==
    ASSUME TwapInvariant, NEW w \in Workers, NEW new,
           \A i \in Ids : \A k \in 1..Len(slice[i]) : <<i, k>> \in tx[w].rows => new[i][k] \in SoundSlices,
           slice' = [i \in Ids |-> [k \in 1..Len(slice[i]) |->
                        IF <<i, k>> \in tx[w].rows THEN new[i][k] ELSE slice[i][k]]]
    PROVE  /\ slice' \in [Ids -> Seq(SoundSlices)]
           /\ \A i \in Ids : /\ Len(slice'[i]) = Len(slice[i]) /\ Len(slice[i]) \in Nat
                             /\ \A k \in 1..Len(slice[i]) :
                                   slice'[i][k] = IF <<i, k>> \in tx[w].rows THEN new[i][k] ELSE slice[i][k]
           /\ \A i \in Ids : (\A r \in tx[w].rows : r[1] # i) => slice'[i] = slice[i]
<1>1. slice \in [Ids -> Seq(SoundSlices)]
  BY DEF TwapInvariant, TwapTypes
<1>2. ASSUME NEW i \in Ids
      PROVE  /\ slice'[i] \in Seq(SoundSlices) /\ Len(slice'[i]) = Len(slice[i]) /\ Len(slice[i]) \in Nat
             /\ \A k \in 1..Len(slice[i]) :
                   slice'[i][k] = IF <<i, k>> \in tx[w].rows THEN new[i][k] ELSE slice[i][k]
             /\ (\A r \in tx[w].rows : r[1] # i) => slice'[i] = slice[i]
  <2>1. /\ slice[i] \in Seq(SoundSlices) /\ Len(slice[i]) \in Nat
        /\ slice[i] \in [1..Len(slice[i]) -> SoundSlices]
    BY <1>1, SeqLength
  <2>2. PICK s : s = slice[i]
    OBVIOUS
  <2>3. slice'[i] = [k \in 1..Len(s) |-> IF <<i, k>> \in tx[w].rows THEN new[i][k] ELSE s[k]]
    BY <2>2
  <2>4. slice'[i] \in [1..Len(s) -> SoundSlices]
    BY <2>1, <2>2, <2>3
  <2>5. slice'[i] \in Seq(SoundSlices) /\ Len(slice'[i]) = Len(s)
    BY <2>1, <2>2, <2>4, SlicesMapped
  <2>6. ASSUME \A r \in tx[w].rows : r[1] # i PROVE slice'[i] = s
    <3>1. \A k \in 1..Len(s) : <<i, k>> \notin tx[w].rows
      BY <2>6
    <3>2. slice'[i] = [k \in 1..Len(s) |-> s[k]]
      BY <2>3, <3>1
    <3> QED
      BY <2>1, <2>2, <3>2, Zenon
  <2> QED
    BY <2>1, <2>2, <2>3, <2>5, <2>6
<1>3. slice' = [i \in Ids |-> slice'[i]]
  OBVIOUS
<1> QED
  BY <1>2, <1>3, Zenon

\* A row a run has loaded is the k-th slice of one of the plans.
LEMMA LoadedRow ==
    ASSUME TwapInvariant, NEW w \in Workers, NEW i \in Ids, NEW k, <<i, k>> \in tx[w].rows
    PROVE  /\ k \in 1..Len(slice[i]) /\ slice[i][k] \in SoundSlices /\ tx[w].at \in Nat
           /\ tx[w].pc = Loaded(Due) => slice[i][k].st = "pending" /\ Open(i)
           /\ tx[w].pc = Loaded(Followups) => slice[i][k].required
<1>1. SoundRun(w) /\ tx[w].at \in Nat /\ slice[i] \in Seq(SoundSlices)
  BY DEF TwapInvariant, TwapTypes, Transactions, Threads
<1>2. <<i, k>> \in Rows
  BY <1>1 DEF SoundRun
<1>3. k \in 1..Len(slice[i])
  BY <1>2, RowsIn DEF Rows
<1>4. slice[i][k] \in SoundSlices
  BY <1>1, <1>3, SeqElement
<1>5. PICK r : r = <<i, k>>
  OBVIOUS
<1>6. r \in tx[w].rows /\ r[1] = i /\ r[2] = k
  BY <1>5
<1>7. /\ tx[w].pc = Loaded(Due) => SliceOf(r).st = "pending" /\ Open(r[1])
      /\ tx[w].pc = Loaded(Followups) => SliceOf(r).required
  BY <1>1, <1>6 DEF SoundRun
<1> QED
  BY <1>1, <1>3, <1>4, <1>6, <1>7 DEF SliceOf

\* A plan of a run is in no other run.
LEMMA OthersHold ==
    ASSUME TwapInvariant, NEW w \in Workers, NEW v \in Workers, v # w, NEW s \in tx[v].rows
    PROVE  \A r \in tx[w].rows : r[1] # s[1]
BY DEF TwapInvariant, RunsApart

\* _complete_intent_if_all_slices_done closes a plan exactly when nothing is pending.
LEMMA Completed ==
    ASSUME NEW st \in CANCELLABLE_STATUSES, NEW ss \in Seq(SoundSlices),
           \A k \in 1..Len(ss) : ss[k].st # "cancelled"
    PROVE  /\ SoundPlan(complete_intent_if_all_slices_done(st, ss), ss)
           /\ complete_intent_if_all_slices_done(st, ss) \in {"triggered", "active"}
<1>1. \A k \in 1..Len(ss) : ss[k].st \in {"pending", "notified"}
  <2> SUFFICES ASSUME NEW k \in 1..Len(ss) PROVE ss[k].st \in {"pending", "notified"}
    OBVIOUS
  <2>1. ss[k] \in SoundSlices
    BY SeqElement
  <2> QED
    BY <2>1 DEF SoundSlices, Slices
<1>2. CASE \A k \in 1..Len(ss) : ss[k].st # "pending"
  <2>1. complete_intent_if_all_slices_done(st, ss) = "triggered"
    BY <1>2 DEF complete_intent_if_all_slices_done
  <2> QED
    BY <1>1, <1>2, <2>1 DEF SoundPlan, Statuses, CANCELLABLE_STATUSES
<1>3. CASE \E k \in 1..Len(ss) : ss[k].st = "pending"
  <2>1. complete_intent_if_all_slices_done(st, ss) = "active"
    BY <1>3 DEF complete_intent_if_all_slices_done
  <2> QED
    BY <1>3, <2>1 DEF SoundPlan, Statuses, CANCELLABLE_STATUSES
<1> QED
  BY <1>2, <1>3

\* process_due_slices sends every slice it loaded and closes the plans it completed.
LEMMA DueStep ==
    ASSUME TwapAssumption, TwapInvariant, NEW w \in Workers, CommitDue(w)
    PROVE  /\ TwapInvariant'
           /\ \A i \in Ids : \A k \in 1..Len(slice[i]) :
                 slice[i][k].st = "pending" /\ slice'[i][k].st = "notified" => Open(i)
<1>1. /\ now \in Nat /\ tx \in [Threads -> Transactions] /\ w \in Threads /\ w \notin Api
      /\ status \in [Ids -> Statuses] /\ tx[w].pc = Loaded(Due)
      /\ tx' = [tx EXCEPT ![w] = Idle] /\ UNCHANGED <<now, plan>>
  BY Zenon DEF TwapInvariant, TwapTypes, Threads, TwapAssumption, CommitDue, env
<1>2. PICK quote \in [tx[w].rows -> Snapshots] :
          /\ slice' = [i \in Ids |-> [k \in 1..Len(slice[i]) |->
                          IF <<i, k>> \in tx[w].rows
                          THEN process_due_slice(slice[i][k], tx[w].at, get_reference_price(<<i, k>>[1], quote[<<i, k>>]))
                          ELSE slice[i][k]]]
          /\ status' = [i \in Ids |->
                IF \E r \in tx[w].rows : r[1] = i
                THEN complete_intent_if_all_slices_done(status[i],
                        [k \in 1..Len(slice[i]) |->
                          IF <<i, k>> \in tx[w].rows
                          THEN process_due_slice(slice[i][k], tx[w].at, get_reference_price(<<i, k>>[1], quote[<<i, k>>]))
                          ELSE slice[i][k]])
                ELSE status[i]]
  <2>1. PICK quote \in [tx[w].rows -> Snapshots] :
           LET ss == [i \in Ids |-> [k \in 1..Len(slice[i]) |->
                        IF <<i, k>> \in tx[w].rows
                        THEN process_due_slice(slice[i][k], tx[w].at, get_reference_price(<<i, k>>[1], quote[<<i, k>>]))
                        ELSE slice[i][k]]]
           IN  /\ slice' = ss
               /\ status' = [i \in Ids |->
                     IF \E r \in tx[w].rows : r[1] = i
                     THEN complete_intent_if_all_slices_done(status[i], ss[i]) ELSE status[i]]
    BY Zenon DEF CommitDue
  <2> QED
    BY <2>1
<1>3. PICK new : new = [i \in Ids |-> [k \in 1..Len(slice[i]) |->
                           process_due_slice(slice[i][k], tx[w].at, get_reference_price(<<i, k>>[1], quote[<<i, k>>]))]]
  BY Zenon
<1>4. ASSUME NEW i \in Ids, NEW k \in 1..Len(slice[i]), <<i, k>> \in tx[w].rows
      PROVE  new[i][k] \in SoundSlices /\ new[i][k].st = "notified" /\ Open(i)
  <2>1. slice[i][k] \in SoundSlices /\ tx[w].at \in Nat /\ slice[i][k].st = "pending" /\ Open(i)
    BY <1>1, <1>4, LoadedRow, Zenon
  <2>2. new[i][k] = process_due_slice(slice[i][k], tx[w].at, get_reference_price(<<i, k>>[1], quote[<<i, k>>]))
    BY <1>3
  <2> QED
    BY <2>1, <2>2, DueSliceSound, Zenon
<1>5. slice' = [i \in Ids |-> [k \in 1..Len(slice[i]) |->
                  IF <<i, k>> \in tx[w].rows THEN new[i][k] ELSE slice[i][k]]]
  BY <1>2, <1>3
<1>6. /\ slice' \in [Ids -> Seq(SoundSlices)]
      /\ \A i \in Ids : /\ Len(slice'[i]) = Len(slice[i]) /\ Len(slice[i]) \in Nat
                        /\ \A k \in 1..Len(slice[i]) :
                              slice'[i][k] = IF <<i, k>> \in tx[w].rows THEN new[i][k] ELSE slice[i][k]
      /\ \A i \in Ids : (\A r \in tx[w].rows : r[1] # i) => slice'[i] = slice[i]
  BY <1>4, <1>5, RunRewrites
<1>7. \A i \in Ids : status'[i] = IF \E r \in tx[w].rows : r[1] = i
                                  THEN complete_intent_if_all_slices_done(status[i], slice'[i])
                                  ELSE status[i]
  BY <1>2
<1>8. ASSUME NEW i \in Ids, \E r \in tx[w].rows : r[1] = i
      PROVE  Open(i) /\ SoundPlan(status'[i], slice'[i]) /\ status'[i] \in {"triggered", "active"}
  <2>1. PICK r \in tx[w].rows : r[1] = i
    BY <1>8
  <2>2. Open(i)
    BY <1>1, <2>1 DEF TwapInvariant, SoundRun
  <2>3. \A k \in 1..Len(slice[i]) : slice[i][k].st # "cancelled"
    BY <2>2 DEF TwapInvariant, SoundPlan, Open
  <2>4. slice'[i] \in Seq(SoundSlices) /\ Len(slice'[i]) = Len(slice[i])
    BY <1>6
  <2>5. \A k \in 1..Len(slice'[i]) : slice'[i][k].st # "cancelled"
    BY <1>4, <1>6, <2>3, <2>4, Zenon
  <2>6. status'[i] = complete_intent_if_all_slices_done(status[i], slice'[i])
    BY <1>7, <1>8
  <2> QED
    BY <2>2, <2>4, <2>5, <2>6, Completed DEF Open
<1>9. ASSUME NEW i \in Ids, ~ \E r \in tx[w].rows : r[1] = i
      PROVE  SoundPlan(status'[i], slice'[i]) /\ status'[i] = status[i] /\ slice'[i] = slice[i]
  BY <1>6, <1>7, <1>9 DEF TwapInvariant
<1>10. status' \in [Ids -> Statuses]
  <2>1. \A i \in Ids : status'[i] \in Statuses
    BY <1>8, <1>9 DEF SoundPlan
  <2>2. status' = [i \in Ids |-> status'[i]]
    BY <1>2
  <2> QED
    BY <2>1, <2>2
<1>11. tx'[w] = Idle /\ \A q \in Threads \ {w} : tx'[q] = tx[q]
  BY <1>1
<1>12. tx' \in [Threads -> Transactions]
  <2>1. Idle \in Transactions
    BY DEF Idle, Transactions
  <2> QED
    BY <1>1, <2>1
<1>13. \A i \in Ids : /\ SoundPlan(status'[i], slice'[i])
                      /\ status'[i] \in CANCELLABLE_STATUSES => Open(i)
                      /\ status'[i] = "absent" <=> status[i] = "absent"
  BY <1>8, <1>9 DEF Open, CANCELLABLE_STATUSES
<1>14. SoundRun(w)' /\ tx'[w].rows = {}
  BY <1>1, <1>11, IdleSound
<1>15. \A p \in Api : tx'[p] = tx[p]
  BY <1>1, <1>11 DEF Threads
<1>16. \A v \in Workers \ {w} : tx'[v] = tx[v]
  BY <1>11 DEF Threads
<1>17. \A v \in Workers \ {w} : \A s \in tx[v].rows : s[1] \in Ids =>
           status'[s[1]] = status[s[1]] /\ slice'[s[1]] = slice[s[1]]
  <2> SUFFICES ASSUME NEW v \in Workers \ {w}, NEW s \in tx[v].rows, s[1] \in Ids
               PROVE  status'[s[1]] = status[s[1]] /\ slice'[s[1]] = slice[s[1]]
    BY Zenon
  <2>1. \A r \in tx[w].rows : r[1] # s[1]
    BY OthersHold
  <2> QED
    BY <1>9, <2>1, Zenon
<1>18. tx'[w] = tx[w] => tx[w].rows = {}
  BY <1>14
<1>19. \A v \in Workers : tx'[v] = tx[v] => \A r \in tx[v].rows : r[1] \in Ids =>
           status'[r[1]] = status[r[1]] /\ slice'[r[1]] = slice[r[1]]
  BY <1>17, <1>18
<1>20. TwapInvariant'
  BY <1>1, <1>6, <1>10, <1>12, <1>13, <1>14, <1>15, <1>16, <1>19, CloseStep
<1>21. ASSUME NEW i \in Ids, NEW k \in 1..Len(slice[i]), slice[i][k].st = "pending", slice'[i][k].st = "notified"
       PROVE  Open(i)
  BY <1>4, <1>6, <1>21, Zenon
<1> QED
  BY <1>20, <1>21

\* process_price_followups changes no status of a slice or of a plan.
LEMMA FollowupsStep ==
    ASSUME TwapAssumption, TwapInvariant, NEW w \in Workers, CommitFollowups(w)
    PROVE  /\ TwapInvariant'
           /\ \A i \in Ids : \A k \in 1..Len(slice[i]) : slice'[i][k].st = slice[i][k].st
<1>1. /\ now \in Nat /\ tx \in [Threads -> Transactions] /\ w \in Threads /\ w \notin Api
      /\ status \in [Ids -> Statuses] /\ tx[w].pc = Loaded(Followups)
      /\ tx' = [tx EXCEPT ![w] = Idle] /\ UNCHANGED <<now, plan, status>>
  BY Zenon DEF TwapInvariant, TwapTypes, Threads, TwapAssumption, CommitFollowups, env
<1>2. PICK quote \in [tx[w].rows -> Snapshots] :
          slice' = [i \in Ids |-> [k \in 1..Len(slice[i]) |->
                      IF <<i, k>> \in tx[w].rows
                      THEN process_followup(slice[i][k], tx[w].at, get_reference_price(i, quote[<<i, k>>]))
                      ELSE slice[i][k]]]
  BY DEF CommitFollowups
<1>3. PICK new : new = [i \in Ids |-> [k \in 1..Len(slice[i]) |->
                           process_followup(slice[i][k], tx[w].at, get_reference_price(i, quote[<<i, k>>]))]]
  BY Zenon
<1>4. ASSUME NEW i \in Ids, NEW k \in 1..Len(slice[i]), <<i, k>> \in tx[w].rows
      PROVE  new[i][k] \in SoundSlices /\ new[i][k].st = slice[i][k].st
  <2>1. slice[i][k] \in SoundSlices /\ tx[w].at \in Nat /\ slice[i][k].required
    BY <1>1, <1>4, LoadedRow
  <2>2. new[i][k] = process_followup(slice[i][k], tx[w].at, get_reference_price(i, quote[<<i, k>>]))
    BY <1>3
  <2>3. PICK s \in SoundSlices, t \in Nat : s = slice[i][k] /\ t = tx[w].at /\ s.required
    BY <2>1, Zenon
  <2>4. PICK price : price = get_reference_price(i, quote[<<i, k>>])
    BY Zenon
  <2>5. process_followup(s, t, price) \in SoundSlices /\ process_followup(s, t, price).st = s.st
    <3>1. \A z \in SoundSlices : z.required => \A u \in Nat : \A v :
            process_followup(z, u, v) \in SoundSlices /\ process_followup(z, u, v).st = z.st
      BY ONLY FollowupSound, Zenon
    <3> QED
      BY ONLY <2>3, <3>1
  <2> QED
    BY <2>2, <2>3, <2>4, <2>5, Zenon
<1>5. slice' = [i \in Ids |-> [k \in 1..Len(slice[i]) |->
                  IF <<i, k>> \in tx[w].rows THEN new[i][k] ELSE slice[i][k]]]
  BY <1>2, <1>3
<1>6. /\ slice' \in [Ids -> Seq(SoundSlices)]
      /\ \A i \in Ids : /\ Len(slice'[i]) = Len(slice[i]) /\ Len(slice[i]) \in Nat
                        /\ \A k \in 1..Len(slice[i]) :
                              slice'[i][k] = IF <<i, k>> \in tx[w].rows THEN new[i][k] ELSE slice[i][k]
      /\ \A i \in Ids : (\A r \in tx[w].rows : r[1] # i) => slice'[i] = slice[i]
  BY <1>4, <1>5, RunRewrites
<1>7. \A i \in Ids : \A k \in 1..Len(slice[i]) : slice'[i][k].st = slice[i][k].st
  BY <1>4, <1>6, Zenon
<1>8. ASSUME NEW i \in Ids PROVE SoundPlan(status'[i], slice'[i])
  <2>1. SoundPlan(status[i], slice[i]) /\ status'[i] = status[i]
    BY <1>1 DEF TwapInvariant
  <2>2. /\ slice'[i] \in Seq(SoundSlices) /\ Len(slice'[i]) = Len(slice[i])
        /\ \A k \in 1..Len(slice[i]) : slice'[i][k].st = slice[i][k].st
    BY <1>6, <1>7
  <2>3. status[i] = "absent" => slice'[i] = <<>>
    <3>1. status[i] = "absent" => Len(slice'[i]) = 0
      BY <2>1, <2>2 DEF SoundPlan
    <3> QED
      BY <2>2, <3>1, SeqEmpty
  <2> QED
    BY <2>1, <2>2, <2>3 DEF SoundPlan
<1>9. tx'[w] = Idle /\ \A q \in Threads \ {w} : tx'[q] = tx[q]
  BY <1>1
<1>10. tx' \in [Threads -> Transactions]
  <2>1. Idle \in Transactions
    BY DEF Idle, Transactions
  <2> QED
    BY <1>1, <2>1
<1>11. SoundRun(w)' /\ tx'[w].rows = {}
  BY <1>1, <1>9, IdleSound
<1>12. \A p \in Api : tx'[p] = tx[p]
  BY <1>1, <1>9 DEF Threads
<1>13. \A v \in Workers \ {w} : tx'[v] = tx[v]
  BY <1>9 DEF Threads
<1>14. \A v \in Workers \ {w} : \A s \in tx[v].rows : s[1] \in Ids => slice'[s[1]] = slice[s[1]]
  BY <1>6, OthersHold
<1>15. tx'[w] = tx[w] => tx[w].rows = {}
  BY <1>11
<1>16. \A v \in Workers : tx'[v] = tx[v] => \A r \in tx[v].rows : r[1] \in Ids =>
           status'[r[1]] = status[r[1]] /\ slice'[r[1]] = slice[r[1]]
  BY <1>1, <1>14, <1>15
<1>17. \A i \in Ids : /\ status'[i] \in CANCELLABLE_STATUSES => Open(i)
                      /\ status'[i] = "absent" <=> status[i] = "absent"
  BY <1>1 DEF Open
<1>18. TwapInvariant'
  BY <1>1, <1>6, <1>8, <1>10, <1>11, <1>12, <1>13, <1>16, <1>17, CloseStep
<1> QED
  BY <1>7, <1>18

-----------------------------------------------------------------------------
(* The process and its surroundings *)

\* A restart loses every transaction; the lifecycle then runs over unlocked rows.
LEMMA RestartStep ==
    ASSUME TwapAssumption, TwapInvariant, Restart PROVE TwapInvariant'
<1>1. /\ status' = LifecycleRun.st /\ slice' = LifecycleRun.ss /\ UNCHANGED <<now, plan>>
      /\ tx' = [p \in Threads |-> Idle]
  BY DEF Restart
<1>2. \A p \in Threads : tx'[p] = Idle
  BY <1>1
<1>3. Idle \in Transactions
  BY DEF Idle, Transactions
<1>4. tx' \in [Threads -> Transactions]
  BY <1>1, <1>3
<1>5. \A p \in Api : tx'[p] = Idle
  BY <1>2 DEF Threads
<1>6. \A w \in Workers : SoundRun(w)' /\ tx'[w].rows = {}
  BY <1>2, IdleSound DEF Threads
<1>7. \A w \in Workers : tx'[w] = tx[w] => tx[w].rows = {}
  BY <1>6
<1> QED
  BY <1>1, <1>4, <1>5, <1>6, <1>7, LifecycleKeeps, CloseStep

\* The clock, the kill switch and the feed move beside the plans.
LEMMA SurroundingStep ==
    ASSUME TwapInvariant, now' \in Nat, UNCHANGED <<plan, status, slice, tx>>
    PROVE  TwapInvariant'
<1>1. TwapTypes' /\ \A i \in Ids : SoundPlan(status[i], slice[i])'
  BY DEF TwapInvariant, TwapTypes
<1>2. \A p \in Api : SoundRequest(p)'
  BY RequestKept DEF TwapInvariant
<1>3. \A w \in Workers : SoundRun(w)'
  BY RunKept DEF TwapInvariant
<1>4. NoCollision'
  BY KeysKept DEF TwapInvariant, Open
<1>5. RunsApart'
  BY ApartKept DEF TwapInvariant
<1> QED
  BY <1>1, <1>2, <1>3, <1>4, <1>5, Zenon DEF TwapInvariant

-----------------------------------------------------------------------------
(* Every step *)

\* A slice that goes from pending to notified belongs to an open plan.
Sent == \A i \in Ids : \A k \in 1..Len(slice[i]) :
            slice[i][k].st = "pending" /\ slice'[i][k].st = "notified" => Open(i)

\* What is written over a plan with no slices, or with the same statuses, sends nothing.
LEMMA NotSent ==
    ASSUME \A i \in Ids : slice'[i] = slice[i] PROVE Sent
BY DEF Sent

\* Cancelling pending slices sends nothing.
LEMMA CancellingSendsNothing ==
    ASSUME TwapInvariant,
           \A i \in Ids : \/ slice'[i] = slice[i] \/ slice'[i] = CancelPending(slice[i])
                          \/ slice'[i] = CancelSlices(slice[i])
    PROVE  Sent
<1> SUFFICES ASSUME NEW i \in Ids, NEW k \in 1..Len(slice[i]), slice[i][k].st = "pending",
                    slice'[i][k].st = "notified"
             PROVE  FALSE
  BY DEF Sent
<1>1. slice[i] \in Seq(SoundSlices)
  BY DEF TwapInvariant, TwapTypes
<1> QED
  BY <1>1, PendingCancelled, SlicesCancelled

\* The requests of an API thread.
LEMMA ApiStep ==
    ASSUME TwapAssumption, TwapInvariant, NEW p \in Api,
           \/ \E o \in Offers : Confirm(p, o)
           \/ \E i \in Ids : ReadForCancel(p, i)
           \/ RequestStep(p)
    PROVE  TwapInvariant' /\ Sent
<1>1. ASSUME NEW o \in Offers, Confirm(p, o) PROVE TwapInvariant' /\ Sent
  BY <1>1, ConfirmStep, NotSent, Zenon DEF Confirm, db
<1>2. ASSUME NEW i \in Ids, ReadForCancel(p, i) PROVE TwapInvariant' /\ Sent
  BY <1>2, ReadStep, NotSent, Zenon DEF ReadForCancel, db
<1>3. CASE create_twap(p)
  BY <1>3, CreateStep, NotSent, Zenon DEF create_twap, db
<1>4. CASE CommitConfirm(p)
  <2>1. TwapInvariant'
    BY <1>4, CommitConfirmStep
  <2>2. tx[p].cur \in Ids /\ plan[tx[p].cur] = None /\ slice \in [Ids -> Seq(SoundSlices)]
    BY <1>4, Zenon DEF CommitConfirm, Inserted, TwapInvariant, SoundRequest, TwapTypes
  <2>3. status[tx[p].cur] = "absent"
    BY <2>2 DEF TwapInvariant, TwapTypes
  <2>4. slice[tx[p].cur] = <<>>
    BY <2>2, <2>3 DEF TwapInvariant, SoundPlan
  <2>5. \A i \in Ids : i # tx[p].cur => slice'[i] = slice[i]
    BY <1>4, <2>2 DEF CommitConfirm
  <2>6. 1..Len(slice[tx[p].cur]) = {}
    BY <2>4, NoPlaces, Zenon
  <2> QED
    BY <2>1, <2>5, <2>6, Zenon DEF Sent
<1>5. CASE ReplyDuplicate(p)
  <2>1. tx' = [tx EXCEPT ![p] = Idle] /\ UNCHANGED <<now, plan, status, slice>> /\ p \in Threads
    BY <1>5 DEF ReplyDuplicate, env, db, Threads
  <2> QED
    BY <2>1, EndStep, NotSent, Zenon
<1>6. CASE cancel(p)
  <2>1. TwapInvariant'
    BY <1>6, CancelStep
  <2>2. tx[p].cur \in Ids /\ slice \in [Ids -> Seq(SoundSlices)]
    BY <1>6 DEF cancel, TwapInvariant, SoundRequest, TwapTypes
  <2>3. slice' = [slice EXCEPT ![tx[p].cur] = CancelSlices(slice[tx[p].cur])]
    BY <1>6 DEF cancel
  <2>4. \A i \in Ids : slice'[i] = slice[i] \/ slice'[i] = CancelSlices(slice[i])
    BY <2>2, <2>3
  <2> QED
    BY <2>1, <2>4, CancellingSendsNothing
<1> QED
  BY <1>1, <1>2, <1>3, <1>4, <1>5, <1>6 DEF RequestStep

\* The phases of a worker.
LEMMA RunStep ==
    ASSUME TwapAssumption, TwapInvariant, NEW w \in Workers, WorkerStep(w)
    PROVE  TwapInvariant' /\ Sent
<1>1. ASSUME NEW ph \in {Due, Followups}, BeginPhase(w, ph) PROVE TwapInvariant' /\ Sent
  <2>1. status' = LifecycleRun.st /\ slice' = LifecycleRun.ss
    BY <1>1 DEF BeginPhase
  <2> QED
    BY <1>1, <2>1, BeginStep, LifecycleKeeps, CancellingSendsNothing
<1>2. CASE Load(w)
  BY <1>2, LoadStep, NotSent, Zenon DEF Load, db
<1>3. CASE CommitDue(w)
  BY <1>3, DueStep DEF Sent
<1>4. CASE CommitFollowups(w)
  BY <1>4, FollowupsStep DEF Sent
<1>5. CASE FlushFails(w)
  <2>1. tx' = [tx EXCEPT ![w] = Idle] /\ UNCHANGED <<now, plan, status, slice>> /\ w \in Threads
    BY <1>5 DEF FlushFails, env, db, Threads
  <2> QED
    BY <2>1, EndStep, NotSent, Zenon
<1> QED
  BY <1>1, <1>2, <1>3, <1>4, <1>5 DEF WorkerStep

\* Every step keeps the invariant and sends slices of open plans only.
LEMMA TwapStep ==
    ASSUME TwapAssumption, TwapInvariant, [Next]_vars
    PROVE  TwapInvariant' /\ [Sent]_vars
<1>0. now \in Nat
  BY DEF TwapInvariant, TwapTypes
<1>1. CASE UNCHANGED vars
  BY <1>0, <1>1, SurroundingStep DEF vars
<1>2. ASSUME NEW p \in Threads, Fail(p) PROVE TwapInvariant' /\ Sent
  <2>1. tx' = [tx EXCEPT ![p] = Idle] /\ UNCHANGED <<now, plan, status, slice>>
    BY <1>2 DEF Fail, db
  <2> QED
    BY <2>1, EndStep, NotSent, Zenon
<1>3. ASSUME NEW o \in Owners, cancel_active_for_owner(o) PROVE TwapInvariant' /\ Sent
  BY <1>3, CascadeStep, NotSent DEF cancel_active_for_owner
<1>4. CASE DispatchQuote
  <2>1. /\ status' = LifecycleRun.st /\ slice' = LifecycleRun.ss /\ LifecycleReady
        /\ UNCHANGED <<now, plan, tx>> /\ tx \in [Threads -> Transactions]
    BY <1>4 DEF DispatchQuote, env, TwapInvariant, TwapTypes
  <2> QED
    BY <2>1, LifecycleStep, LifecycleKeeps, CancellingSendsNothing
<1>5. CASE Restart
  <2>1. status' = LifecycleRun.st /\ slice' = LifecycleRun.ss
    BY <1>5 DEF Restart
  <2> QED
    BY <1>5, <2>1, RestartStep, LifecycleKeeps, CancellingSendsNothing
<1>6. CASE CoreUnsubscribe \/ SetHalt \/ ReportZero
  BY <1>0, <1>6, SurroundingStep, NotSent DEF CoreUnsubscribe, SetHalt, ReportZero, db
<1>7. CASE Advance
  <2>1. now' \in Nat /\ UNCHANGED <<plan, status, slice, tx>>
    BY <1>7 DEF Advance, db, TwapAssumption
  <2> QED
    BY <2>1, SurroundingStep, NotSent
<1> QED
  BY <1>1, <1>2, <1>3, <1>4, <1>5, <1>6, <1>7, ApiStep, RunStep DEF Next

\* It starts with empty tables and idle threads.
LEMMA TwapInit == ASSUME TwapAssumption, Init PROVE TwapInvariant
<1>1. TwapTypes
  <2>1. Idle \in Transactions
    BY DEF Idle, Transactions
  <2>2. \A i \in Ids : slice[i] = <<>>
    BY DEF Init
  <2>3. <<>> \in Seq(SoundSlices)
    OBVIOUS
  <2>4. now \in Nat /\ status \in [Ids -> Statuses] /\ slice \in [Ids -> Seq(SoundSlices)]
    BY <2>3 DEF Init, TwapAssumption, Statuses
  <2> QED
    BY <2>1, <2>4 DEF Init, TwapTypes
<1>2. \A i \in Ids : SoundPlan(status[i], slice[i])
  <2>1. <<>> \in Seq(SoundSlices)
    OBVIOUS
  <2> QED
    BY <2>1 DEF Init, SoundPlan, Statuses, CANCELLABLE_STATUSES
<1>3. \A p \in Threads : tx[p] = Idle
  BY DEF Init
<1>4. \A p \in Api : SoundRequest(p) /\ ~ Inserted(p)
  <2>1. Idle.pc = "idle"
    BY DEF Idle
  <2>2. \A p \in Api : tx[p] = Idle
    BY <1>3, Zenon DEF Threads
  <2> QED
    BY <2>1, <2>2, Zenon DEF SoundRequest, Inserted
<1>5. \A w \in Workers : SoundRun(w) /\ tx[w].rows = {}
  <2>1. Idle.pc = "idle" /\ Idle.rows = {}
    BY DEF Idle
  <2>2. \A w \in Workers : tx[w] = Idle
    BY <1>3, Zenon DEF Threads
  <2>3. "idle" # Loaded(Due) /\ "idle" # Loaded(Followups)
    BY DEF Loaded, Due, Followups
  <2> QED
    BY <2>1, <2>2, <2>3, Zenon DEF SoundRun
<1>6. NoCollision /\ RunsApart
  BY <1>4, <1>5 DEF NoCollision, RunsApart, Init, Open, CANCELLABLE_STATUSES
<1> QED
  BY <1>1, <1>2, <1>4, <1>5, <1>6 DEF TwapInvariant

-----------------------------------------------------------------------------
(* What holds always *)

\* The invariant in every reachable state.
LEMMA AlwaysTwapInvariant == ASSUME TwapAssumption PROVE Spec => []TwapInvariant
<1>1. TwapInvariant /\ [Next]_vars => TwapInvariant'
  BY TwapStep
<1> QED
  BY TwapInit, <1>1, PTL DEF Spec

\* An owner never has two open plans on one side and day: the SELECT of the
\* confirmation may miss a plan that is being confirmed, the unique index of the
\* flush does not, and no other command opens a row.
THEOREM OnePlanPerSideAlways == ASSUME TwapAssumption PROVE Spec => []OnePlanPerSide
<1>1. TwapInvariant => OnePlanPerSide
  BY Zenon DEF TwapInvariant, NoCollision, Collide, OnePlanPerSide
<1> QED
  BY AlwaysTwapInvariant, <1>1, PTL

\* A plan is open exactly while slices are left to send: no interleaving of worker
\* runs, expiry and cancellations leaves one open with nothing to do, completes one
\* with a slice unsent, or expires or cancels one with a slice pending.
THEOREM OpenAlwaysMeansWorkLeft ==
    ASSUME TwapAssumption PROVE Spec => [](OpenMeansWorkLeft /\ ClosedHasNoPending)
<1>1. TwapInvariant => OpenMeansWorkLeft /\ ClosedHasNoPending
  BY DEF TwapInvariant, SoundPlan, Open, OpenMeansWorkLeft, ClosedHasNoPending
<1> QED
  BY AlwaysTwapInvariant, <1>1, PTL

\* Every slice has one notification exactly when it is notified, at most one
\* follow-up after at most three attempts, and waits for one only while both are
\* possible, with any number of workers and any batch size.
THEOREM AlwaysNotifiedOnce == ASSUME TwapAssumption PROVE Spec => []NotifiedOnce
<1>1. TwapInvariant => NotifiedOnce
  <2> SUFFICES ASSUME TwapInvariant, NEW r \in Rows PROVE SoundSlice(SliceOf(r))
    BY DEF NotifiedOnce, SoundSlice
  <2>1. r[1] \in Ids /\ r[2] \in 1..Len(slice[r[1]])
    BY RowsIn DEF Rows
  <2>2. slice[r[1]] \in Seq(SoundSlices)
    BY <2>1 DEF TwapInvariant, TwapTypes
  <2> QED
    <3>1. SliceOf(r) \in SoundSlices
      BY <2>1, <2>2, SeqElement, Zenon DEF SliceOf
    <3> QED
      BY <3>1, Zenon DEF SoundSlices
<1> QED
  BY AlwaysTwapInvariant, <1>1, PTL

\* A slice is sent only while its plan is open: the rows a run has locked keep their
\* plan open until it commits.
THEOREM NoSliceIsSentAfterClose == ASSUME TwapAssumption PROVE Spec => NoSliceAfterClose
<1>1. Sent => SentWhileOpen
  <2> SUFFICES ASSUME Sent, NEW r \in Rows, SliceOf(r).st = "pending", slice'[r[1]][r[2]].st = "notified"
               PROVE  Open(r[1])
    BY DEF SentWhileOpen
  <2>1. r[1] \in Ids /\ r[2] \in 1..Len(slice[r[1]])
    BY RowsIn DEF Rows
  <2> QED
    BY <2>1 DEF Sent, SliceOf
<1>2. TwapInvariant /\ [Next]_vars => [SentWhileOpen]_vars
  BY TwapStep, <1>1
<1> QED
  BY AlwaysTwapInvariant, <1>2, PTL DEF Spec, NoSliceAfterClose

====
