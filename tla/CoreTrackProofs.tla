-------------------------- MODULE CoreTrackProofs ---------------------------
(***************************************************************************)
(* The theorems about CoreTrack: types, triggers and their messages, open  *)
(* intents and their subscriptions, the kill switch, terminal statuses and *)
(* the contract of an intent, for any number of concurrent threads.        *)
(***************************************************************************)
EXTENDS CoreTrackInvariant, FiniteSetTheorems

-----------------------------------------------------------------------------
(* Types *)

\* Subscribing below the limit and unsubscribing keep the provider's limit.
LEMMA SubscriptionLimit ==
    ASSUME TypeOK, NEW s \in Symbols
    PROVE  /\ Subscribable(s) => Cardinality(subs \cup {s}) <= MAX_SUBSCRIPTIONS
           /\ Cardinality(subs \ {s}) <= MAX_SUBSCRIPTIONS
           /\ Cardinality({}) <= MAX_SUBSCRIPTIONS
<1>1. IsFiniteSet(subs) /\ Cardinality(subs) \in Nat
  BY CoreAssumption, FS_Subset, FS_CardinalityType DEF TypeOK
<1>2. Cardinality(subs \cup {s}) = IF s \in subs THEN Cardinality(subs) ELSE Cardinality(subs) + 1
  BY <1>1, FS_AddElement
<1>3. Cardinality(subs \ {s}) = IF s \in subs THEN Cardinality(subs) - 1 ELSE Cardinality(subs)
  BY <1>1, FS_RemoveElement
<1>4. Cardinality({}) = 0
  BY FS_EmptySet
<1> QED
  BY <1>1, <1>2, <1>3, <1>4, CoreAssumption DEF TypeOK, Subscribable

\* The places a handler moves to without a change of its data.
Places == {"c_subscribed", "c_armed", "c_ready", "x_read", "x_cancelled", "x_unneeded", "d_swept"}

\* Updates of a handler's record that change several fields keep its type.
LEMMA TxUpdates ==
    ASSUME NEW r \in Tx
    PROVE  /\ \A i \in Intents : \A t \in Instants :
                  [r EXCEPT !.pc = "c_inserted", !.cur = i, !.at = t] \in Tx
           /\ \A S \in SUBSET Intents :
                  /\ [r EXCEPT !.pc = "d_loop", !.todo = S] \in Tx
                  /\ [r EXCEPT !.pc = "c_ready", !.fired = S] \in Tx
                  /\ [r EXCEPT !.todo = S] \in Tx /\ [r EXCEPT !.held = S] \in Tx
           /\ \A S, H, F \in SUBSET Intents : [r EXCEPT !.todo = S, !.held = H, !.fired = F] \in Tx
           /\ \A pc \in Places : [r EXCEPT !.pc = pc] \in Tx
           /\ \A b \in BOOLEAN : [r EXCEPT !.past = b] \in Tx
<1>1. ASSUME NEW i \in Intents, NEW t \in Instants
      PROVE  [r EXCEPT !.pc = "c_inserted", !.cur = i, !.at = t] \in Tx
  BY DEF Tx
<1>2. ASSUME NEW S \in SUBSET Intents
      PROVE  [r EXCEPT !.pc = "d_loop", !.todo = S] \in Tx
  BY DEF Tx
<1>3. ASSUME NEW S \in SUBSET Intents
      PROVE  [r EXCEPT !.pc = "c_ready", !.fired = S] \in Tx
  BY DEF Tx
<1>4. ASSUME NEW S \in SUBSET Intents
      PROVE  [r EXCEPT !.todo = S] \in Tx /\ [r EXCEPT !.held = S] \in Tx
  BY DEF Tx
<1>5. ASSUME NEW S \in SUBSET Intents, NEW H \in SUBSET Intents, NEW F \in SUBSET Intents
      PROVE  [r EXCEPT !.todo = S, !.held = H, !.fired = F] \in Tx
  BY DEF Tx
<1>6. ASSUME NEW pc \in Places PROVE [r EXCEPT !.pc = pc] \in Tx
  BY DEF Tx, Places
<1>7. ASSUME NEW b \in BOOLEAN PROVE [r EXCEPT !.past = b] \in Tx
  BY DEF Tx
<1> QED
  BY <1>1, <1>2, <1>3, <1>4, <1>5, <1>6, <1>7, Zenon

\* A handler takes a step.
LEMMA TxStep ==
    ASSUME TypeOK, NEW p \in Procs, NEW r \in Tx, tx' = [tx EXCEPT ![p] = r]
    PROVE  tx' \in [Procs -> Tx]
BY DEF TypeOK

\* The initial state is well typed.
LEMMA TypeInit == Init => TypeOK
<1> SUFFICES ASSUME Init PROVE TypeOK
  OBVIOUS
<1>1. Cardinality({}) = 0
  BY FS_EmptySet
<1> QED
  <2>1. Idle \in Tx
    BY CoreAssumption DEF Tx, Idle
  <2>2. tx \in [Procs -> Tx]
    BY <2>1 DEF Init
  <2>3. up \in BOOLEAN /\ halt \in BOOLEAN
    BY DEF Init
  <2>4. /\ now \in Instants
        /\ users \in [Owners -> {"active", "disabled"}]
        /\ subs \subseteq Symbols /\ Cardinality(subs) <= MAX_SUBSCRIPTIONS
    BY <1>1, CoreAssumption DEF Init
  <2>5. /\ row \in [Intents -> Rows \cup {None}]
        /\ status \in [Intents -> VALID_STATUSES \cup {"absent"}]
        /\ trigger \in [Intents -> Instants \cup {0, NoTrigger}]
        /\ notes \in [Intents -> Nat]
        /\ sent \in [Intents -> Nat]
        /\ opened \in [Intents -> Instants \cup {NoTrigger}]
        /\ cut \subseteq Symbols
    BY CoreAssumption DEF Init
  <2> QED
    BY <2>2, <2>3, <2>4, <2>5 DEF TypeOK

\* A step that changes handlers and types of nothing else.
LEMMA TypeStep ==
    ASSUME TypeOK, tx' \in [Procs -> Tx], UNCHANGED <<now, up, users, halt, row>>,
           status' \in [Intents -> VALID_STATUSES \cup {"absent"}],
           UNCHANGED <<subs, cut>> \/ (subs' \cup cut' \subseteq Symbols /\ Cardinality(subs') <= MAX_SUBSCRIPTIONS),
           UNCHANGED <<trigger, notes>> \/ \E p \in Procs : Publish(p),
           UNCHANGED sent \/ \E i \in Intents : Announce(i),
           UNCHANGED opened \/ \E i \in Intents : opened' = [opened EXCEPT ![i] = now]
    PROVE  TypeOK'
<1>1. subs' \subseteq Symbols /\ Cardinality(subs') <= MAX_SUBSCRIPTIONS /\ cut' \subseteq Symbols
  BY DEF TypeOK
<1>2. ASSUME NEW p \in Procs, Publish(p)
      PROVE  /\ trigger' \in [Intents -> Instants \cup {0, NoTrigger}]
             /\ notes' \in [Intents -> Nat]
  BY <1>2 DEF Publish, TypeOK, Tx
<1>3. ASSUME NEW i \in Intents, Announce(i) PROVE sent' \in [Intents -> Nat]
  BY <1>3 DEF Announce, TypeOK
<1>4. ASSUME NEW i \in Intents, opened' = [opened EXCEPT ![i] = now]
      PROVE  opened' \in [Intents -> Instants \cup {NoTrigger}]
  BY <1>4 DEF TypeOK
<1>5. /\ trigger' \in [Intents -> Instants \cup {0, NoTrigger}]
      /\ notes' \in [Intents -> Nat]
  BY <1>2 DEF TypeOK
<1>6. sent' \in [Intents -> Nat] /\ opened' \in [Intents -> Instants \cup {NoTrigger}]
  BY <1>3, <1>4 DEF TypeOK
<1>7. /\ now' \in Instants /\ up' \in BOOLEAN /\ users' \in [Owners -> {"active", "disabled"}]
      /\ halt' \in BOOLEAN /\ row' \in [Intents -> Rows \cup {None}]
  BY Zenon DEF TypeOK
<1> QED
  BY <1>1, <1>5, <1>6, <1>7, Zenon DEF TypeOK

\* Every step keeps the types.
LEMMA TypeNext ==
    ASSUME TypeOK, RowsOK, [Next]_vars
    PROVE  TypeOK'
<1>tx. tx \in [Procs -> Tx] /\ \A p \in Procs : tx[p] \in Tx
  BY DEF TypeOK
<1>st. status \in [Intents -> VALID_STATUSES \cup {"absent"}]
  BY DEF TypeOK
<1>lc. LifecycleRun \in [Intents -> VALID_STATUSES \cup {"absent"}]
  BY LifecycleFacts
<1>idle. /\ Idle \in Tx
         /\ \A o \in Owners : [Idle EXCEPT !.pc = "c_auth", !.own = o] \in Tx
         /\ \A i \in Intents : [Idle EXCEPT !.pc = "x_swept", !.cur = i] \in Tx
         /\ \A s \in Symbols : [Idle EXCEPT !.pc = "d_checked", !.sym = s, !.at = now] \in Tx
  BY CoreAssumption DEF TypeOK, Tx, Idle
<1>moves. ASSUME NEW p \in Procs, NEW pc \in Places, tx' = [tx EXCEPT ![p].pc = pc]
          PROVE  tx' \in [Procs -> Tx]
  <2>1. tx' = [tx EXCEPT ![p] = [tx[p] EXCEPT !.pc = pc]]
    BY <1>moves, Zenon
  <2>2. [tx[p] EXCEPT !.pc = pc] \in Tx
    BY <1>tx, TxUpdates
  <2> QED
    BY <2>1, <2>2, TxStep
<1>ends. ASSUME NEW p \in Procs, tx' = [tx EXCEPT ![p] = Idle] PROVE tx' \in [Procs -> Tx]
  BY <1>ends, <1>idle, TxStep
<1>1. ASSUME NEW p \in Procs, ReadIntents(p) PROVE TypeOK'
  BY <1>1, <1>lc, <1>tx, TypeStep DEF ReadIntents, seen
<1>2. ASSUME NEW p \in Procs, NEW o \in Owners, BeginCreate(p, o) PROVE TypeOK'
  <2>1. tx' \in [Procs -> Tx]
    BY <1>2, <1>idle, TxStep DEF BeginCreate
  <2> QED
    BY <1>2, <2>1, <1>st, TypeStep DEF BeginCreate, db, seen
<1>3. ASSUME NEW p \in Procs, NEW i \in Intents, NEW s \in Symbols, NEW k \in Keys,
             CreateInsert(p, i, s, k) PROVE TypeOK'
  <2>1. tx[p].own \in Owners
    BY <1>3, <1>tx DEF CreateInsert, Ready, RowsOK, Tx
  <2>2. now \in Nat /\ now \in Instants
    BY CoreAssumption DEF TypeOK
  <2>3. NewRow(tx[p].own, s, k) \in Rows
    BY <2>1, <2>2, TradingDateNotPast DEF NewRow, Rows
  <2>4. tx' \in [Procs -> Tx]
    <3>1. tx' = [tx EXCEPT ![p] = [tx[p] EXCEPT !.pc = "c_inserted", !.cur = i, !.at = now]]
      BY <1>3 DEF CreateInsert
    <3>2. [tx[p] EXCEPT !.pc = "c_inserted", !.cur = i, !.at = now] \in Tx
      BY <1>tx, <2>2, TxUpdates
    <3> QED
      BY <3>1, <3>2, TxStep
  <2>5. row' \in [Intents -> Rows \cup {None}]
    BY <1>3, <2>3 DEF CreateInsert, TypeOK
  <2>6. UNCHANGED <<now, up, users, halt, subs, status, trigger, notes, sent, opened, cut>>
    BY <1>3, Zenon DEF CreateInsert, seen
  <2> QED
    BY <2>4, <2>5, <2>6, Zenon DEF TypeOK
<1>4. ASSUME NEW p \in Procs, CreateReject(p) PROVE TypeOK'
  BY <1>4, <1>ends, <1>st, TypeStep DEF CreateReject, db, seen
<1>sym. \A p \in Procs : Inserting(p) \/ Cancelling(p) =>
          tx[p].cur \in Intents /\ row[tx[p].cur].symbol \in Symbols
  BY RelyingRows
<1>5. ASSUME NEW p \in Procs, CreateSubscribe(p) PROVE TypeOK'
  <2>1. row[tx[p].cur].symbol \in Symbols
    BY <1>5, <1>sym DEF CreateSubscribe, Ready, Inserting
  <2>2. subs' \cup cut' \subseteq Symbols /\ Cardinality(subs') <= MAX_SUBSCRIPTIONS
    BY <1>5, <2>1, SubscriptionLimit DEF CreateSubscribe, TypeOK
  <2>3. tx' \in [Procs -> Tx]
    BY <1>5, <1>moves DEF CreateSubscribe, Places
  <2> QED
    BY <1>5, <2>2, <2>3, <1>st, TypeStep DEF CreateSubscribe, db
<1>6. ASSUME NEW p \in Procs, CreateCheck(p) PROVE TypeOK'
  <2>1. tx' \in [Procs -> Tx]
    BY <1>6, <1>moves DEF CreateCheck, Places
  <2> QED
    BY <1>6, <2>1, <1>st, TypeStep DEF CreateCheck, db, seen
<1>7. ASSUME NEW p \in Procs, CreateFire(p) PROVE TypeOK'
  <2>1. tx[p].cur \in Intents /\ {tx[p].cur} \in SUBSET Intents
    BY <1>7, <1>sym DEF CreateFire, Ready, Inserting, Subscribing
  <2>2. tx' \in [Procs -> Tx]
    <3>1. PICK r : /\ r \in {[tx[p] EXCEPT !.pc = "c_ready"], [tx[p] EXCEPT !.pc = "c_ready", !.fired = {tx[p].cur}]}
                   /\ tx' = [tx EXCEPT ![p] = r]
      BY <1>7, Zenon DEF CreateFire
    <3>2. [tx[p] EXCEPT !.pc = "c_ready"] \in Tx
      BY <1>tx, TxUpdates DEF Places
    <3>3. [tx[p] EXCEPT !.pc = "c_ready", !.fired = {tx[p].cur}] \in Tx
      BY <1>tx, <2>1, TxUpdates
    <3>4. r \in Tx
      BY ONLY <3>1, <3>2, <3>3, Zenon
    <3> QED
      BY <3>1, <3>4, TxStep
  <2>3. UNCHANGED sent \/ \E i \in Intents : Announce(i)
    BY <1>7, <2>1, Zenon DEF CreateFire
  <2> QED
    BY <1>7, <2>2, <2>3, <1>st, TypeStep DEF CreateFire, db
<1>8. ASSUME NEW p \in Procs, CreateCommit(p) PROVE TypeOK'
  <2>1. status' \in [Intents -> VALID_STATUSES \cup {"absent"}]
    BY <1>8, <1>st DEF CreateCommit, get_initial_day_intent_status, VALID_STATUSES,
                       CANCELLABLE_STATUSES, TERMINAL_STATUSES
  <2>2. tx[p].cur \in Intents
    BY <1>8, <1>sym DEF CreateCommit, Ready, Inserting, Subscribing
  <2> QED
    BY <1>8, <2>1, <2>2, <1>ends, TypeStep DEF CreateCommit
<1>9. ASSUME NEW p \in Procs, NEW i \in Intents, CancelBegin(p, i) PROVE TypeOK'
  <2>1. tx' \in [Procs -> Tx]
    BY <1>9, <1>idle, TxStep DEF CancelBegin
  <2> QED
    BY <1>9, <2>1, <1>lc, TypeStep DEF CancelBegin, seen
<1>10. ASSUME NEW p \in Procs, CancelRead(p) PROVE TypeOK'
  <2>1. tx' \in [Procs -> Tx]
    BY <1>10, <1>ends, <1>moves DEF CancelRead, Places
  <2> QED
    BY <1>10, <2>1, <1>st, TypeStep DEF CancelRead, db, seen
<1>11. ASSUME NEW p \in Procs, CancelWrite(p) PROVE TypeOK'
  <2>1. tx' \in [Procs -> Tx]
    BY <1>11, <1>moves DEF CancelWrite, Places
  <2>2. status' \in [Intents -> VALID_STATUSES \cup {"absent"}]
    BY <1>11, <1>st DEF CancelWrite, VALID_STATUSES, TERMINAL_STATUSES
  <2> QED
    BY <1>11, <2>1, <2>2, TypeStep DEF CancelWrite, seen
<1>12. ASSUME NEW p \in Procs, CancelCount(p) PROVE TypeOK'
  <2>1. tx' \in [Procs -> Tx]
    BY <1>12, <1>ends, <1>moves DEF CancelCount, Places
  <2> QED
    BY <1>12, <2>1, <1>st, TypeStep DEF CancelCount, db, seen
<1>13. ASSUME NEW p \in Procs, CancelUnsubscribe(p) PROVE TypeOK'
  <2>1. row[tx[p].cur].symbol \in Symbols
    BY <1>13, <1>sym DEF CancelUnsubscribe, Ready, Cancelling
  <2>2. subs' \cup cut' \subseteq Symbols /\ Cardinality(subs') <= MAX_SUBSCRIPTIONS
    BY <1>13, <2>1, SubscriptionLimit DEF CancelUnsubscribe, TypeOK
  <2> QED
    BY <1>13, <2>2, <1>ends, <1>st, TypeStep DEF CancelUnsubscribe, db
<1>14. ASSUME NEW p \in Procs, NEW s \in Symbols, DispatchCheck(p, s) PROVE TypeOK'
  <2>1. tx' \in [Procs -> Tx]
    BY <1>14, <1>idle, TxStep DEF DispatchCheck
  <2> QED
    BY <1>14, <2>1, <1>st, TypeStep DEF DispatchCheck, db, seen
<1>15. ASSUME NEW p \in Procs, DispatchLifecycle(p) PROVE TypeOK'
  <2>1. tx' \in [Procs -> Tx]
    BY <1>15, <1>moves DEF DispatchLifecycle, Places
  <2> QED
    BY <1>15, <2>1, <1>lc, TypeStep DEF DispatchLifecycle, seen
<1>16. ASSUME NEW p \in Procs, DispatchList(p) PROVE TypeOK'
  <2>1. tx' \in [Procs -> Tx]
    <3> DEFINE listed == {i \in Intents : status[i] = "active" /\ row[i].symbol = tx[p].sym}
    <3>1. tx' = [tx EXCEPT ![p] = [tx[p] EXCEPT !.pc = "d_loop", !.todo = listed]]
      BY <1>16 DEF DispatchList
    <3>2. listed \in SUBSET Intents
      OBVIOUS
    <3> HIDE DEF listed
    <3>3. [tx[p] EXCEPT !.pc = "d_loop", !.todo = listed] \in Tx
      BY <3>2, <1>tx, TxUpdates
    <3> QED
      BY <3>1, <3>3, TxStep
  <2> QED
    BY <1>16, <2>1, <1>st, TypeStep DEF DispatchList, db, seen
<1>sets. \A p \in Procs, i \in Intents :
           /\ tx[p].todo \ {i} \in SUBSET Intents /\ tx[p].held \cup {i} \in SUBSET Intents
           /\ tx[p].fired \cup {i} \in SUBSET Intents
  BY <1>tx DEF Tx
<1>17. ASSUME NEW p \in Procs, NEW i \in Intents, DispatchSkip(p, i) PROVE TypeOK'
  <2>1. tx' \in [Procs -> Tx]
    <3>1. PICK r : r = [tx[p] EXCEPT !.todo = tx[p].todo \ {i}] /\ tx' = [tx EXCEPT ![p] = r]
      BY <1>17, Zenon DEF DispatchSkip
    <3>2. r \in Tx
      BY <3>1, <1>sets, <1>tx, TxUpdates
    <3> QED
      BY <3>1, <3>2, TxStep
  <2> QED
    BY <1>17, <2>1, <1>st, TypeStep DEF DispatchSkip, db, seen
<1>18. ASSUME NEW p \in Procs, NEW i \in Intents, DispatchBaseline(p, i) PROVE TypeOK'
  <2>1. tx' \in [Procs -> Tx]
    <3>1. PICK r : r = [tx[p] EXCEPT !.held = tx[p].held \cup {i}] /\ tx' = [tx EXCEPT ![p] = r]
      BY <1>18, Zenon DEF DispatchBaseline
    <3>2. r \in Tx
      BY <3>1, <1>sets, <1>tx, TxUpdates
    <3> QED
      BY <3>1, <3>2, TxStep
  <2> QED
    BY <1>18, <2>1, <1>st, TypeStep DEF DispatchBaseline, db, seen
<1>19. ASSUME NEW p \in Procs, NEW i \in Intents, DispatchFire(p, i) PROVE TypeOK'
  <2>1. tx' \in [Procs -> Tx]
    <3>1. PICK r : /\ r \in {[tx[p] EXCEPT !.todo = tx[p].todo \ {i}, !.held = tx[p].held \cup {i},
                                           !.fired = tx[p].fired \cup {i}],
                            [tx[p] EXCEPT !.todo = tx[p].todo \ {i}]}
                   /\ tx' = [tx EXCEPT ![p] = r]
      BY <1>19, Zenon DEF DispatchFire
    <3>2. [tx[p] EXCEPT !.todo = tx[p].todo \ {i}, !.held = tx[p].held \cup {i},
                        !.fired = tx[p].fired \cup {i}] \in Tx
      BY <1>sets, <1>tx, TxUpdates
    <3>3. [tx[p] EXCEPT !.todo = tx[p].todo \ {i}] \in Tx
      BY <1>sets, <1>tx, TxUpdates
    <3>4. r \in Tx
      BY ONLY <3>1, <3>2, <3>3, Zenon
    <3> QED
      BY <3>1, <3>4, TxStep
  <2>2. UNCHANGED sent \/ \E j \in Intents : Announce(j)
    BY <1>19, Zenon DEF DispatchFire
  <2> QED
    BY <1>19, <2>1, <2>2, <1>st, TypeStep DEF DispatchFire, db
<1>20. ASSUME NEW p \in Procs, DispatchCommit(p) PROVE TypeOK'
  <2>1. status' \in [Intents -> VALID_STATUSES \cup {"absent"}]
    BY <1>20, <1>st DEF DispatchCommit, VALID_STATUSES, TERMINAL_STATUSES
  <2> QED
    BY <1>20, <2>1, <1>ends, TypeStep DEF DispatchCommit, seen
<1>21. ASSUME NEW p \in Procs, Abort(p) PROVE TypeOK'
  <2>1. tx' \in [Procs -> Tx]
    BY <1>21, <1>ends DEF Abort
  <2>2. row' \in [Intents -> Rows \cup {None}] /\ sent' \in [Intents -> Nat]
    BY <1>21 DEF Abort, TypeOK
  <2>3. UNCHANGED <<now, up, users, halt, subs, status, trigger, notes, opened, cut>>
    BY <1>21, Zenon DEF Abort
  <2> QED
    BY <2>1, <2>2, <2>3, Zenon DEF TypeOK
<1>22. CASE Crash
  <2>1. tx' \in [Procs -> Tx]
    BY <1>22, <1>idle DEF Crash
  <2>2. row' \in [Intents -> Rows \cup {None}] /\ sent' \in [Intents -> Nat]
    BY <1>22 DEF Crash, TypeOK
  <2>3. subs' \subseteq Symbols /\ Cardinality(subs') <= MAX_SUBSCRIPTIONS
    BY <1>22, FS_EmptySet, CoreAssumption DEF Crash
  <2>4. cut' \subseteq Symbols /\ up' \in BOOLEAN
    BY <1>22 DEF Crash
  <2>5. UNCHANGED <<now, users, halt, status, trigger, notes, opened>>
    BY <1>22, Zenon DEF Crash
  <2> QED
    BY <2>1, <2>2, <2>3, <2>4, <2>5, Zenon DEF TypeOK
<1>23. CASE Boot
  <2> DEFINE needed == {row[i].symbol : i \in {j \in Intents : LifecycleRun[j] \in CANCELLABLE_STATUSES}}
  <2>1. Cardinality({}) <= MAX_SUBSCRIPTIONS
    BY FS_EmptySet, CoreAssumption
  <2>2. needed \subseteq Symbols
    <3>1. \A j \in Intents : LifecycleRun[j] \in CANCELLABLE_STATUSES => Open(j)
      BY LifecycleFacts
    <3>2. \A j \in Intents : Open(j) => row[j].symbol \in Symbols
      BY RelyingRows
    <3> QED
      BY ONLY <3>1, <3>2, Zenon
  <2>3. /\ status' = LifecycleRun
        /\ UNCHANGED <<now, users, halt, row, trigger, notes, sent, opened, cut, tx>>
        /\ up' = (Cardinality(needed) <= MAX_SUBSCRIPTIONS)
        /\ subs' = IF up' THEN needed ELSE {}
    BY <1>23, Zenon DEF Boot, seen
  <2> HIDE DEF needed
  <2>4. up' \in BOOLEAN /\ Cardinality(subs') <= MAX_SUBSCRIPTIONS
    <3>1. PICK n : n = Cardinality(needed) /\ up' = (n <= MAX_SUBSCRIPTIONS)
      BY ONLY <2>3, Zenon
    <3>2. up' \in BOOLEAN
      BY ONLY <3>1, SMT
    <3>3. CASE up'
      BY ONLY <2>3, <3>3, Zenon
    <3>4. CASE ~ up'
      BY ONLY <2>1, <2>3, <3>2, <3>4, Zenon
    <3> QED
      BY <3>2, <3>3, <3>4, Zenon
  <2>5. subs' \in SUBSET Symbols
    BY ONLY <2>2, <2>3, Zenon
  <2> QED
    BY <2>3, <2>4, <2>5, <1>lc, Zenon DEF TypeOK
<1>24. ASSUME NEW p \in Procs, NEW o \in Owners, DisableUser(p, o) PROVE TypeOK'
  <2>1. status' \in [Intents -> VALID_STATUSES \cup {"absent"}] /\ users' \in [Owners -> {"active", "disabled"}]
    BY <1>24 DEF DisableUser, TypeOK, VALID_STATUSES, TERMINAL_STATUSES
  <2>2. UNCHANGED <<now, up, halt, subs, row, trigger, notes, sent, opened, cut, tx>>
    BY <1>24, Zenon DEF DisableUser, seen
  <2> QED
    BY <2>1, <2>2, Zenon DEF TypeOK
<1>25. ASSUME NEW p \in Procs, NEW o \in Owners, ReactivateUser(p, o) PROVE TypeOK'
  <2>1. users' \in [Owners -> {"active", "disabled"}]
    BY <1>25 DEF ReactivateUser, TypeOK
  <2>2. UNCHANGED <<now, up, halt, subs, row, status, trigger, notes, sent, opened, cut, tx>>
    BY <1>25, Zenon DEF ReactivateUser, db, seen
  <2> QED
    BY <2>1, <2>2, Zenon DEF TypeOK
<1>26. ASSUME NEW p \in Procs, SetKillSwitch(p) PROVE TypeOK'
  <2>1. ASSUME NEW q \in Procs, NEW b \in BOOLEAN PROVE [tx[q] EXCEPT !.past = b] \in Tx
    BY <1>tx, TxUpdates
  <2>2. tx' = [q \in Procs |-> [tx[q] EXCEPT !.past = ~ halt /\ Armed(q)]]
    BY <1>26, Zenon DEF SetKillSwitch
  <2>3. \A q \in Procs : [tx[q] EXCEPT !.past = ~ halt /\ Armed(q)] \in Tx
    <3>1. \A q \in Procs : (~ halt /\ Armed(q)) \in BOOLEAN
      BY Zenon
    <3> QED
      BY <2>1, <3>1, Zenon
  <2>4. tx' \in [Procs -> Tx]
    BY ONLY <2>2, <2>3, Zenon
  <2>5. halt' \in BOOLEAN /\ UNCHANGED <<now, up, users, subs, row, status, trigger, notes, sent, opened, cut>>
    BY <1>26, Zenon DEF SetKillSwitch, TypeOK, db, seen
  <2> QED
    BY <2>4, <2>5, Zenon DEF TypeOK
<1>27. CASE Tick
  <2>1. now' \in Instants /\ UNCHANGED <<up, users, halt, subs, row, status, trigger, notes, sent, opened, cut, tx>>
    BY <1>27, Zenon DEF Tick, db, seen
  <2> QED
    BY <2>1, Zenon DEF TypeOK
<1>28. CASE UNCHANGED vars
  BY <1>28, Zenon DEF vars, TypeOK
<1> QED
  BY <1>1, <1>2, <1>3, <1>4, <1>5, <1>6, <1>7, <1>8, <1>9, <1>10, <1>11, <1>12, <1>13,
     <1>14, <1>15, <1>16, <1>17, <1>18, <1>19, <1>20, <1>21, <1>22, <1>23, <1>24, <1>25,
     <1>26, <1>27, <1>28, Zenon
  DEF Next, Create, Cancel, Dispatch, Admin

-----------------------------------------------------------------------------
(* The invariant and the theorems *)

\* The initial states satisfy the inductive invariant: no rows, no handlers.
LEMMA InitIInv == Init => IInv
<1> SUFFICES ASSUME Init PROVE IInv
  OBVIOUS
<1>1. TypeOK
  BY TypeInit
<1>2. \A p \in Procs : /\ tx[p].pc = "idle" /\ tx[p].todo = {} /\ tx[p].held = {}
                       /\ tx[p].fired = {}
  BY DEF Init, Idle
<1>3. \A p \in Procs : /\ ~ Inserting(p) /\ ~ Subscribing(p) /\ ~ Cancelling(p) /\ ~ Timed(p)
                       /\ ~ Armed(p)
  BY <1>2 DEF Inserting, Subscribing, Cancelling, Timed, Dispatching, Armed
<1>4. \A i \in Intents : status[i] = "absent" /\ ~ Open(i) /\ ~ Fired(i)
  BY DEF Init, Open, Fired, CANCELLABLE_STATUSES
<1>5. RowsOK
  BY <1>2, <1>3, <1>4 DEF RowsOK
<1>6. HandlersOK
  BY <1>2, <1>3 DEF Init, HandlersOK, LocksOK, ThreadOK
<1>7. UniqueOK
  BY <1>3, <1>4, Zenon DEF UniqueOK, Live
<1>8. Safety
  BY <1>4 DEF Init, Safety, FiredIsClosed, TriggerIsRecordedOnce, FiredByItsTradingDate
<1>9. MessageStandsForOneTrigger
  BY DEF Init, MessageStandsForOneTrigger
<1>10. SubsOK
  BY <1>3, <1>4, Zenon DEF SubsOK
<1> QED
  BY <1>1, <1>5, <1>6, <1>7, <1>8, <1>9, <1>10, Zenon DEF IInv

\* The invariant is inductive.
LEMMA NextIInv == IInv /\ [Next]_vars => IInv'
<1> SUFFICES ASSUME IInv, [Next]_vars PROVE IInv'
  OBVIOUS
<1>1. /\ TypeOK /\ RowsOK /\ HandlersOK /\ UniqueOK /\ Safety
      /\ MessageStandsForOneTrigger /\ SubsOK
  BY Zenon DEF IInv
<1>2. TypeOK' /\ RowsOK' /\ HandlersOK' /\ UniqueOK' /\ Safety'
  BY <1>1, TypeNext, RowsNext, HandlersNext, UniqueNext, SafetyNext
<1>3. MessageStandsForOneTrigger' /\ SubsOK'
  BY <1>1, MessagesNext, SubsNext
<1> QED
  BY <1>2, <1>3, Zenon DEF IInv

\* Every reachable state satisfies the inductive invariant: rows, locks, pending
\* triggers and handler clocks are consistent whatever the interleaving.
THEOREM Invariance == Spec => []IInv
  BY InitIInv, NextIInv, PTL DEF Spec

\* Types hold, and the provider's subscription limit with them.
THEOREM TypeCorrect == Spec => []TypeOK
<1>1. IInv => TypeOK
  BY DEF IInv
<1> QED
  BY <1>1, Invariance, PTL

\* A trigger row is final for the intent: dispatchers that listed it earlier and
\* the activation of scheduled intents never make it open again.
THEOREM FiredStaysClosed == Spec => []FiredIsClosed
<1>1. IInv => FiredIsClosed
  BY DEF IInv, Safety
<1> QED
  BY <1>1, Invariance, PTL

\* Trigger row, notification row and status are committed together and once.
THEOREM TriggerOnce == Spec => []TriggerIsRecordedOnce
<1>1. IInv => TriggerIsRecordedOnce
  BY DEF IInv, Safety
<1> QED
  BY <1>1, Invariance, PTL

\* Whatever dispatchers listed the same intent, and whatever was rolled back in
\* between, at most one message stands for its trigger and none for no trigger.
THEOREM AnnouncedAtMostOnce == Spec => []MessageStandsForOneTrigger
<1>1. IInv => MessageStandsForOneTrigger
  BY DEF IInv
<1> QED
  BY <1>1, Invariance, PTL

\* No intent fires outside a session, nor by a dispatch that began after both its
\* trading_date and its commit, for any clock.
THEOREM FiredOnTime == Spec => []FiredByItsTradingDate
<1>1. IInv => FiredByItsTradingDate
  BY DEF IInv, Safety
<1> QED
  BY <1>1, Invariance, PTL

\* The duplicate check and the partial unique index keep open intents distinct
\* for any number of concurrent creations.
THEOREM OpenIntentsDistinct == Spec => []NoDuplicateOpen
<1>1. IInv => NoDuplicateOpen
  BY DEF IInv, UniqueOK, NoDuplicateOpen, Live
<1> QED
  BY <1>1, Invariance, PTL

\* An open intent has a subscribed symbol unless a cancellation that had counted
\* too early took it away, for any interleaving of creations and cancellations.
THEOREM OpenIntentsSubscribed == Spec => []SubscribedUnlessCut
<1>1. IInv => SubscribedUnlessCut
  BY Zenon DEF IInv, SubsOK, SubscribedUnlessCut
<1> QED
  BY <1>1, Invariance, PTL

\* A step that sends a message is taken by a handler that has passed its check.
LEMMA SenderIsArmed ==
    ASSUME IInv, [Next]_vars, NEW i \in Intents, sent'[i] > sent[i]
    PROVE  \E p \in Procs : Armed(p) /\ tx'[p] # tx[p]
<1>1. TypeOK /\ RowsOK /\ HandlersOK
  BY Zenon DEF IInv
<1>2. sent' # sent /\ sent'[i] # 0 /\ sent'[i] # sent[i]
  BY <1>1 DEF TypeOK
<1>3. ASSUME NEW p \in Procs, CreateFire(p) PROVE Armed(p) /\ tx'[p] # tx[p]
  <2>1. tx[p].pc = "c_armed"
    BY <1>3, Zenon DEF CreateFire, Ready
  <2>2. tx'[p].pc = "c_ready"
    BY <1>1, <1>3, CreateFires
  <2> QED
    BY <2>1, <2>2 DEF Armed
<1>4. ASSUME NEW p \in Procs, NEW j \in Intents, DispatchFire(p, j) PROVE Armed(p) /\ tx'[p] # tx[p]
  <2>1. tx[p].pc = "d_loop" /\ j \in tx[p].todo
    BY <1>4, Zenon DEF DispatchFire, Ready
  <2>2. tx'[p].todo = tx[p].todo \ {j}
    BY <1>1, <1>4 DEF DispatchFire, TypeOK, Tx
  <2> QED
    BY <2>1, <2>2 DEF Armed
<1>5. ASSUME NEW p \in Procs, Abort(p) PROVE FALSE
  <2>1. sent'[i] = IF i \in tx[p].fired THEN 0 ELSE sent[i]
    BY <1>5 DEF Abort
  <2> QED
    BY <1>2, <2>1
<1>6. CASE Crash
  <2>1. sent'[i] = IF \E p \in Procs : i \in tx[p].fired THEN 0 ELSE sent[i]
    BY <1>6 DEF Crash
  <2> QED
    BY <1>2, <2>1
<1>7. CASE UNCHANGED sent
  BY <1>2, <1>7
<1>8. Calm => UNCHANGED sent
  BY Zenon DEF Calm
<1>9. ASSUME NEW p \in Procs, NEW j \in Intents, NEW s \in Symbols, NEW k \in Keys,
             CreateInsert(p, j, s, k) PROVE UNCHANGED sent
  BY <1>9, Zenon DEF CreateInsert, seen
<1>10. ASSUME NEW p \in Procs,
              CreateSubscribe(p) \/ CreateCommit(p) \/ CancelUnsubscribe(p) \/ DispatchCommit(p)
       PROVE  UNCHANGED sent
  BY <1>10, Zenon DEF CreateSubscribe, CreateCommit, CancelUnsubscribe, DispatchCommit, seen
<1>11. Boot => UNCHANGED sent
  BY Zenon DEF Boot, seen
<1>12. Calm \/ Special
  BY <1>1, CalmOrSpecial
<1> QED
  BY <1>3, <1>4, <1>5, <1>6, <1>7, <1>8, <1>9, <1>10, <1>11, <1>12, Zenon DEF Special

\* While the switch is on, only handlers that were past their check when it was
\* turned on still send.
THEOREM HaltIsSilent == Spec => HaltSilences
<1>1. ASSUME IInv, [Next]_vars, halt, NEW i \in Intents, sent'[i] > sent[i]
      PROVE  \E p \in Procs : tx[p].past /\ tx'[p] # tx[p]
  <2>1. PICK p \in Procs : Armed(p) /\ tx'[p] # tx[p]
    BY <1>1, SenderIsArmed
  <2>2. tx[p].past
    BY <1>1, <2>1, Zenon DEF IInv, HandlersOK, ThreadOK
  <2> QED
    BY <2>1, <2>2
<1>2. IInv /\ [Next]_vars =>
        [halt /\ (\E i \in Intents : sent'[i] > sent[i]) =>
           \E p \in Procs : tx[p].past /\ tx'[p] # tx[p]]_vars
  BY <1>1, Zenon
<1> QED
  BY <1>2, Invariance, PTL DEF Spec, HaltSilences

\* Nothing but a cancellation that had read the intent open rewrites a terminal
\* status, whatever the other handlers read earlier.
THEOREM OnlyCancelRewrites == Spec => RewrittenByStaleCancel
<1>1. ASSUME IInv, [Next]_vars, NEW i \in Intents,
             status[i] \in TERMINAL_STATUSES, status'[i] # status[i]
      PROVE  /\ status'[i] = "cancelled"
             /\ \E p \in Procs : tx[p].pc = "x_read" /\ tx[p].cur = i /\ tx'[p].pc = "x_cancelled"
  <2>1. TypeOK /\ RowsOK /\ HandlersOK
    BY <1>1, Zenon DEF IInv
  <2>2. ~ Open(i) /\ status[i] \notin {"absent", "active"}
    BY <1>1 DEF Open, CANCELLABLE_STATUSES, TERMINAL_STATUSES
  <2>3. CASE Quiet
    <3>1. \/ status'[i] = status[i] \/ Open(i)
          \/ status'[i] = "cancelled" /\ Cancels(i)
      BY <2>3, Zenon DEF Quiet
    <3> QED
      BY <1>1, <2>2, <3>1, Zenon DEF Cancels
  <2>4. ASSUME NEW p \in Procs, Commits(p) PROVE FALSE
    BY <1>1, <2>2, <2>4 DEF Commits
  <2> QED
    BY <1>1, <2>1, <2>3, <2>4, StepShape
<1>2. IInv /\ [Next]_vars =>
        [\A i \in Intents :
           status[i] \in TERMINAL_STATUSES /\ status'[i] # status[i] =>
               /\ status'[i] = "cancelled"
               /\ \E p \in Procs : /\ tx[p].pc = "x_read" /\ tx[p].cur = i
                                  /\ tx'[p].pc = "x_cancelled"]_vars
  BY <1>1, Zenon
<1> QED
  BY <1>2, Invariance, PTL DEF Spec, RewrittenByStaleCancel

-----------------------------------------------------------------------------
(* The contract *)

\* A step of the track is a step of the contract or leaves it alone.
LEMMA ContractStep ==
    ASSUME IInv, IInv', [Next]_vars
    PROVE  Contract!ContractNext
<1>1. /\ TypeOK /\ RowsOK /\ HandlersOK /\ TriggerIsRecordedOnce
      /\ TypeOK' /\ TriggerIsRecordedOnce'
  BY DEF IInv, HandlersOK, Safety
<1> DEFINE life == [i \in Intents |-> Life(i)]
<1>2. \A i \in Intents :
        /\ Life(i) \in {"absent", "open", "closed"}
        /\ Life(i)' \in {"absent", "open", "closed"}
        /\ notes'[i] \in 0..1
  BY <1>1 DEF Life, TriggerIsRecordedOnce
<1>3. ASSUME NEW i \in Intents
      PROVE  \/ Life(i)' = Life(i) /\ notes'[i] = notes[i]
             \/ Life(i) = "absent" /\ Life(i)' = "open" /\ notes'[i] = notes[i]
             \/ Life(i) = "open" /\ Life(i)' = "closed" /\ notes'[i] = notes[i]
             \/ /\ Life(i) \in {"absent", "open"} /\ Life(i)' = "closed"
                /\ notes[i] = 0 /\ notes'[i] = 1
  <2>1. CASE Quiet
    BY <2>1, <1>1 DEF Quiet, Life, Open, TypeOK, VALID_STATUSES, CANCELLABLE_STATUSES,
                     TERMINAL_STATUSES
  <2>2. ASSUME NEW p \in Procs, Commits(p) PROVE <1>3!2
    <3>1. CASE i \in tx[p].fired
      <4>1. status[i] \in {"absent", "active"} /\ status'[i] = "triggered"
        BY <2>2, <3>1 DEF Commits
      <4>2. notes[i] = 0
        BY <4>1, <1>1 DEF IInv, Safety, FiredIsClosed, TriggerIsRecordedOnce,
                          TERMINAL_STATUSES
      <4>3. notes'[i] = 1
        BY <4>2, <2>2, <3>1 DEF Commits, Publish
      <4> QED
        BY <4>1, <4>2, <4>3 DEF Life, Open, CANCELLABLE_STATUSES
    <3>2. CASE i \notin tx[p].fired
      BY <2>2, <3>2, <1>1 DEF Commits, Publish, Life, Open, CANCELLABLE_STATUSES
    <3> QED
      BY <3>1, <3>2
  <2> QED
    BY <2>1, <2>2, <1>1, StepShape
<1>4. notes' \in [Intents -> 0..1]
  BY <1>1, <1>2 DEF TypeOK
<1> QED
  BY <1>2, <1>3, <1>4 DEF Contract!ContractNext, Contract!Stays, Contract!Opens,
         Contract!Closes, Contract!Fires, Contract!Lives

\* The track implements the contract of an intent: opened once, closed once,
\* notified by the transaction that closes it, never reopened.
THEOREM ImplementsContract == Spec => KeepsContract
<1>1. Init => Contract!ContractInit
  BY DEF Init, Contract!ContractInit, Life
<1>2. IInv /\ IInv' /\ [Next]_vars =>
        [Contract!ContractNext]_<<[i \in Intents |-> Life(i)], notes>>
  BY ContractStep
<1> QED
  BY <1>1, <1>2, Invariance, PTL DEF Spec, KeepsContract, Contract!ContractSpec

=============================================================================
