---------------------------- MODULE RequestProofs ----------------------------
(***************************************************************************)
(* Proofs about requests that overlap: the kill switch behind its cache,    *)
(* idempotency keys, and notifications that are marked as read.  Every       *)
(* theorem is about one instance, for any value of its constants; instances *)
(* use the same variable for what has the same name in their modules.       *)
(***************************************************************************)
EXTENDS Naturals, FiniteSets, FiniteSetTheorems, TLAPS

CONSTANTS
    None, Procs, MAX_TIME,                                        \* of several
    Readers, Admins, TTL, MAX_FLIPS, DirectFlips,                 \* KillSwitch
    Keys, Payloads, RECORD_TTL, MAX_EFFECTS, MAX_FAULTS,          \* Idempotency
    MAX_NOTIFICATIONS, UNREAD_ONLY, PAGE_SIZE, LAG, MAX_CLOCK     \* Inbox

VARIABLES
    tx,                                                                       \* of several
    mono, flag, cached, until, lock, at, value, admin, answer, seen, flips,   \* KillSwitch
    now, rec, open, effects, replies, faults,                                 \* Idempotency
    clock, inbox, answered, walk                                              \* Inbox

Switch == INSTANCE KillSwitch
Idem == INSTANCE Idempotency
Mail == INSTANCE Inbox

-----------------------------------------------------------------------------
(* The kill switch *)

\* A value read or cached, or none.
Reading == BOOLEAN \cup {None}

SwitchTypes ==
    /\ admin \in [Admins -> {"idle", "committed"}]
    /\ mono \in Nat /\ until \in Nat /\ at \in Nat
    /\ flag \in BOOLEAN /\ cached \in Reading /\ value \in Reading
    /\ seen \in [BOOLEAN -> Nat]
    /\ answer \in [value : BOOLEAN, at : Nat]

\* The flag was seen with a value not before the clock reading that dates it.
SwitchAges ==
    /\ seen[flag] = mono /\ at <= mono
    /\ \A v \in BOOLEAN : seen[v] <= mono
    /\ value # None => at <= seen[value]
    /\ cached # None => until <= seen[cached] + TTL
    /\ answer.at < seen[answer.value] + TTL

\* Only the holder of the lock has read the flag.
SwitchLock == lock = None => value = None

SwitchInvariant ==
    /\ SwitchTypes /\ SwitchAges /\ SwitchLock
    /\ ~ DirectFlips => Switch!ToggleTakesEffect

\* Every step of toggles, readers, clock and direct flips keeps the invariant.
LEMMA SwitchStep ==
    ASSUME Switch!KillSwitchAssumption, SwitchInvariant, [Switch!Next]_(Switch!vars)
    PROVE  SwitchInvariant'
<1> USE DEF Switch!KillSwitchAssumption, SwitchInvariant, SwitchTypes, SwitchAges, SwitchLock, Reading
<1>1. ASSUME NEW a \in Admins, Switch!invalidate(a) PROVE SwitchInvariant'
  <2>1. SwitchTypes' /\ SwitchAges' /\ SwitchLock'
    BY <1>1 DEF Switch!invalidate
  <2>2. ASSUME ~ DirectFlips PROVE Switch!ToggleTakesEffect'
    BY <1>1, <2>2 DEF Switch!invalidate, Switch!ToggleTakesEffect
  <2> QED
    BY <2>1, <2>2
<1>2. ASSUME NEW a \in Admins, NEW v \in BOOLEAN, Switch!CommitToggle(a, v) PROVE SwitchInvariant'
  <2>1. SwitchTypes' /\ SwitchAges' /\ SwitchLock'
    BY <1>2 DEF Switch!CommitToggle, Switch!Upsert
  <2>2. ASSUME ~ DirectFlips PROVE Switch!ToggleTakesEffect'
    BY <1>2, <2>2 DEF Switch!CommitToggle, Switch!Upsert, Switch!ToggleTakesEffect
  <2> QED
    BY <2>1, <2>2
<1>3. ASSUME NEW v \in BOOLEAN, Switch!FlipInDatabase(v) PROVE SwitchInvariant'
  <2>1. SwitchTypes' /\ SwitchAges' /\ SwitchLock'
    BY <1>3 DEF Switch!FlipInDatabase, Switch!Upsert
  <2>2. ASSUME ~ DirectFlips PROVE Switch!ToggleTakesEffect'
    BY <1>3, <2>2 DEF Switch!FlipInDatabase, Switch!Upsert, Switch!ToggleTakesEffect
  <2> QED
    BY <2>1, <2>2
<1>4. ASSUME NEW r \in Readers, Switch!AnswerFromCache(r) PROVE SwitchInvariant'
  <2>1. SwitchTypes' /\ SwitchAges' /\ SwitchLock'
    BY <1>4 DEF Switch!AnswerFromCache, Switch!Fresh, Switch!Answer
  <2>2. ASSUME ~ DirectFlips PROVE Switch!ToggleTakesEffect'
    BY <1>4, <2>2 DEF Switch!AnswerFromCache, Switch!Fresh, Switch!Answer, Switch!ToggleTakesEffect
  <2> QED
    BY <2>1, <2>2
<1>5. ASSUME NEW r \in Readers, Switch!BeginRead(r) PROVE SwitchInvariant'
  <2>1. SwitchTypes' /\ SwitchAges' /\ SwitchLock'
    BY <1>5 DEF Switch!BeginRead
  <2>2. ASSUME ~ DirectFlips PROVE Switch!ToggleTakesEffect'
    BY <1>5, <2>2 DEF Switch!BeginRead, Switch!ToggleTakesEffect
  <2> QED
    BY <2>1, <2>2
<1>6. ASSUME NEW r \in Readers, Switch!is_enabled(r) PROVE SwitchInvariant'
  <2>1. SwitchTypes' /\ SwitchAges' /\ SwitchLock'
    BY <1>6 DEF Switch!is_enabled
  <2>2. ASSUME ~ DirectFlips PROVE Switch!ToggleTakesEffect'
    BY <1>6, <2>2 DEF Switch!is_enabled, Switch!ToggleTakesEffect
  <2> QED
    BY <2>1, <2>2
<1>7. ASSUME NEW r \in Readers, Switch!StoreAndAnswer(r) PROVE SwitchInvariant'
  <2>1. SwitchTypes' /\ SwitchAges' /\ SwitchLock'
    BY <1>7 DEF Switch!StoreAndAnswer
  <2>2. ASSUME ~ DirectFlips PROVE Switch!ToggleTakesEffect'
    BY <1>7, <2>2 DEF Switch!StoreAndAnswer, Switch!ToggleTakesEffect
  <2> QED
    BY <2>1, <2>2
<1>8. ASSUME NEW r \in Readers, Switch!ReadFails(r) PROVE SwitchInvariant'
  <2>1. SwitchTypes' /\ SwitchAges' /\ SwitchLock'
    BY <1>8 DEF Switch!ReadFails
  <2>2. ASSUME ~ DirectFlips PROVE Switch!ToggleTakesEffect'
    BY <1>8, <2>2 DEF Switch!ReadFails, Switch!ToggleTakesEffect
  <2> QED
    BY <2>1, <2>2
<1>9. ASSUME Switch!Tick PROVE SwitchInvariant'
  <2>1. SwitchTypes' /\ SwitchAges' /\ SwitchLock'
    BY <1>9 DEF Switch!Tick
  <2>2. ASSUME ~ DirectFlips PROVE Switch!ToggleTakesEffect'
    BY <1>9, <2>2 DEF Switch!Tick, Switch!ToggleTakesEffect
  <2> QED
    BY <2>1, <2>2
<1>10. CASE UNCHANGED Switch!vars
  BY <1>10 DEF Switch!vars, Switch!ToggleTakesEffect
<1> HIDE DEF Switch!KillSwitchAssumption, SwitchInvariant
<1> QED
  BY <1>1, <1>2, <1>3, <1>4, <1>5, <1>6, <1>7, <1>8, <1>9, <1>10 DEF Switch!Next

\* is_halted answers what the flag is as soon as the last toggle has returned,
\* when nobody flips the flag behind the toggle, and otherwise a value the flag
\* had less than the TTL before: for any number of admins and readers, any TTL
\* and any number of flips (CachedKillSwitch, SetKillSwitchCommand).
THEOREM HaltIsAlwaysCurrent ==
    ASSUME Switch!KillSwitchAssumption
    PROVE  Switch!Spec => []Switch!HaltIsCurrent
<1>1. Switch!Init => SwitchInvariant
  <2> SUFFICES ASSUME Switch!Init PROVE SwitchInvariant
    OBVIOUS
  <2> USE DEF Switch!Init
  <2>1. flag \in BOOLEAN /\ answer \in [value : BOOLEAN, at : Nat] /\ seen \in [BOOLEAN -> Nat]
    BY Zenon
  <2>2. SwitchTypes
    BY <2>1 DEF SwitchTypes, Reading
  <2>3. SwitchAges
    <3>1. answer.value \in BOOLEAN /\ answer.at = 0
      OBVIOUS
    <3> QED
      BY <2>1, <3>1 DEF SwitchAges, Switch!KillSwitchAssumption
  <2> QED
    BY <2>2, <2>3 DEF SwitchInvariant, SwitchLock, Switch!ToggleTakesEffect
<1>2. SwitchInvariant /\ [Switch!Next]_(Switch!vars) => SwitchInvariant'
  BY SwitchStep
<1>3. SwitchInvariant => Switch!HaltIsCurrent
  BY DEF Switch!KillSwitchAssumption, Switch!HaltIsCurrent, Switch!StaleLessThanTTL,
         SwitchInvariant, SwitchTypes, SwitchAges
<1> QED
  BY <1>1, <1>2, <1>3, PTL DEF Switch!Spec

-----------------------------------------------------------------------------
(* Idempotency keys *)

IdemRecord == [payload : Payloads, resp : Nat, expires : Nat]

IdemTx ==
    [pc : {"idle", "expired", "execute", "record"}, key : Keys \cup {None},
     payload : Payloads \cup {None}, at : Nat, del : BOOLEAN, resp : Nat]

IdemTypes ==
    /\ now \in Nat /\ now <= MAX_TIME /\ faults \in Nat
    /\ rec \in [Keys -> IdemRecord \cup {None}]
    /\ effects \subseteq [n : Nat, key : Keys, payload : Payloads, at : Nat]
    /\ replies \subseteq [key : Keys, payload : Payloads, resp : Nat, at : Nat, until : Nat]
    /\ tx \in [Procs -> IdemTx]
    /\ \A p \in Procs : tx[p].pc # "idle" => tx[p].key \in Keys /\ tx[p].payload \in Payloads
    /\ \A p \in Procs : tx[p].at <= now

\* Executions are numbered.
IdemNumbers ==
    /\ IsFiniteSet(effects)
    /\ \A e \in effects : e.n <= Cardinality(effects)

\* While no record can have expired, none is deleted, and every reply is the
\* record of its key.
IdemFresh ==
    /\ \A k \in Keys : rec[k] # None => rec[k].expires > MAX_TIME
    /\ \A p \in Procs : tx[p].pc # "expired" /\ ~ tx[p].del
    /\ \A r \in replies : /\ rec[r.key] # None
                          /\ rec[r.key].resp = r.resp /\ rec[r.key].payload = r.payload

\* One request at a time: a request that executes found no record, and no
\* execution within the TTL.
IdemClear ==
    \A p \in Procs :
        /\ tx[p].pc = "record" => rec[tx[p].key] = None
        /\ tx[p].pc = "execute" /\ ~ tx[p].del => rec[tx[p].key] = None
        /\ \A e \in effects : tx[p].pc \in {"expired", "execute"} /\ e.key = tx[p].key =>
               e.at + RECORD_TTL <= tx[p].at

\* An execution is over for its TTL, or its record is there or about to be inserted.
IdemCovered ==
    \A e \in effects :
        \/ e.at + RECORD_TTL <= now
        \/ rec[e.key] # None /\ e.at + RECORD_TTL <= rec[e.key].expires
        \/ \E p \in Procs : tx[p].pc = "record" /\ tx[p].key = e.key /\ e.at <= tx[p].at

IdemApart == \A a, b \in effects : a.key = b.key /\ a.n < b.n => a.at + RECORD_TTL <= b.at

IdemOnce == IdemClear /\ IdemCovered /\ IdemApart

OneByOne == (\E p \in Procs : Procs = {p}) /\ MAX_FAULTS = 0

IdemInvariant ==
    /\ IdemTypes /\ IdemNumbers
    /\ MAX_TIME < RECORD_TTL => IdemFresh
    /\ OneByOne => IdemOnce

\* The instance counts as this module does.
LEMMA IdemCardinality == \A S : Idem!Cardinality(S) = Cardinality(S)
BY DEF Idem!Cardinality, Cardinality

\* The record that a request in progress would insert.
LEMMA IdemMine ==
    ASSUME Idem!IdempotencyAssumption, IdemTypes, NEW p \in Procs, tx[p].pc = "record"
    PROVE  LET m == [payload |-> tx[p].payload, resp |-> tx[p].resp, expires |-> tx[p].at + RECORD_TTL]
           IN  /\ tx[p].key \in Keys /\ tx[p].at \in Nat
               /\ m \in IdemRecord /\ m # None /\ m.expires = tx[p].at + RECORD_TTL
<1>1. /\ tx[p].key \in Keys /\ tx[p].payload \in Payloads
      /\ tx[p].resp \in Nat /\ tx[p].at \in Nat
  BY DEF IdemTypes, IdemTx
<1>2. RECORD_TTL \in Nat /\ None \notin IdemRecord
  BY DEF Idem!IdempotencyAssumption, IdemRecord
<1> QED
  BY <1>1, <1>2 DEF IdemRecord

\* The steps of a request, of the cleanup, of the clock and of failures have
\* the types they should.
LEMMA IdemTypesStep ==
    ASSUME Idem!IdempotencyAssumption, IdemTypes, IdemNumbers, [Idem!Next]_(Idem!vars)
    PROVE  IdemTypes'
<1> USE DEF Idem!IdempotencyAssumption, IdemTypes, IdemRecord, IdemTx
<1>1. ASSUME NEW p \in Procs, NEW k \in Keys, NEW q \in Payloads, Idem!Replay(p, k, q) PROVE IdemTypes'
  BY <1>1 DEF Idem!Replay, Idem!Live, Idem!Reply
<1>2. ASSUME NEW p \in Procs, NEW k \in Keys, NEW q \in Payloads, Idem!Miss(p, k, q) PROVE IdemTypes'
  <2>1. PICK x \in IdemTx :
            /\ tx' = [tx EXCEPT ![p] = x]
            /\ x.key = k /\ x.payload = q /\ x.at = now
    <3> DEFINE x == [Idem!Idle EXCEPT !.key = k, !.payload = q, !.at = now,
                        !.pc = IF rec[k] = None THEN "execute" ELSE "expired"]
    <3>1. tx' = [tx EXCEPT ![p] = x]
      BY <1>2 DEF Idem!Miss
    <3>2. x \in IdemTx /\ x.key = k /\ x.payload = q /\ x.at = now
      BY Zenon DEF Idem!Idle
    <3> QED
      BY <3>1, <3>2, Zenon
  <2>2. UNCHANGED <<now, rec, effects, replies, faults>>
    BY <1>2 DEF Idem!Miss
  <2> QED
    BY <2>1, <2>2
<1>3. ASSUME NEW p \in Procs, Idem!delete(p) PROVE IdemTypes'
  <2>1. PICK d \in BOOLEAN : d = (rec[tx[p].key] # None)
    BY Zenon
  <2>2. /\ tx' = [tx EXCEPT ![p].pc = "execute", ![p].del = d]
        /\ UNCHANGED <<now, rec, effects, replies, faults>> /\ tx[p].pc = "expired"
    BY <1>3, <2>1 DEF Idem!delete
  <2>3. tx'[p] \in IdemTx /\ tx'[p].key = tx[p].key /\ tx'[p].payload = tx[p].payload /\ tx'[p].at = tx[p].at
    <3>1. DOMAIN tx = Procs /\ tx[p] \in IdemTx
      BY Zenon
    <3> HIDE DEF IdemTypes, IdemRecord, Idem!IdempotencyAssumption
    <3> QED
      BY <2>1, <2>2, <3>1, Zenon
  <2> QED
    BY <2>2, <2>3
<1>4. ASSUME NEW p \in Procs, Idem!Execute(p) PROVE IdemTypes'
  <2>1. PICK n \in Nat : n = Cardinality(effects) + 1
    BY FS_CardinalityType DEF IdemNumbers
  <2>2. /\ effects' = effects \cup {[n |-> n, key |-> tx[p].key, payload |-> tx[p].payload, at |-> tx[p].at]}
        /\ tx' = [tx EXCEPT ![p].pc = "record", ![p].del = FALSE, ![p].resp = n]
        /\ rec' = IF tx[p].del THEN [rec EXCEPT ![tx[p].key] = None] ELSE rec
        /\ tx[p].pc = "execute" /\ UNCHANGED <<now, replies, faults>>
    BY <1>4, <2>1, IdemCardinality, Zenon DEF Idem!Execute
  <2>3. tx'[p] \in IdemTx /\ tx'[p].key = tx[p].key /\ tx'[p].payload = tx[p].payload /\ tx'[p].at = tx[p].at
    <3>1. DOMAIN tx = Procs /\ tx[p] \in IdemTx
      BY Zenon
    <3> HIDE DEF IdemTypes, IdemRecord, Idem!IdempotencyAssumption
    <3> QED
      BY <2>1, <2>2, <3>1, Zenon
  <2> QED
    BY <2>2, <2>3
<1>5. ASSUME NEW p \in Procs, Idem!ExecuteFails(p) PROVE IdemTypes'
  BY <1>5 DEF Idem!ExecuteFails, Idem!Idle
<1>6. ASSUME NEW p \in Procs, Idem!Record(p) PROVE IdemTypes'
  <2> HIDE DEF Idem!IdempotencyAssumption, IdemTypes, IdemRecord, IdemTx
  <2>1. PICK k \in Keys, mine \in IdemRecord :
            /\ tx[p].key = k
            /\ \/ rec' = [rec EXCEPT ![k] = mine] /\ Idem!Reply(k, mine, now)
               \/ rec' = rec /\ (UNCHANGED replies \/ (rec[k] # None /\ Idem!Reply(k, rec[k], now)))
    <3> DEFINE m == [payload |-> tx[p].payload, resp |-> tx[p].resp, expires |-> tx[p].at + RECORD_TTL]
    <3>0. tx[p].pc = "record"
      BY <1>6, Zenon DEF Idem!Record
    <3>1. tx[p].key \in Keys /\ m \in IdemRecord
      BY <3>0, IdemMine
    <3>2. \/ rec' = [rec EXCEPT ![tx[p].key] = m] /\ Idem!Reply(tx[p].key, m, now)
          \/ /\ rec' = rec
             /\ UNCHANGED replies \/ (rec[tx[p].key] # None /\ Idem!Reply(tx[p].key, rec[tx[p].key], now))
      BY <1>6, Zenon DEF Idem!Record
    <3> HIDE DEF m
    <3> QED
      BY <3>1, <3>2
  <2>2. tx' = [tx EXCEPT ![p] = Idem!Idle] /\ UNCHANGED <<now, effects, faults>>
    BY <1>6 DEF Idem!Record
  <2>3. rec' \in [Keys -> IdemRecord \cup {None}]
    BY <2>1 DEF IdemTypes
  <2>4. replies' \subseteq [key : Keys, payload : Payloads, resp : Nat, at : Nat, until : Nat]
    <3>1. ASSUME NEW r \in IdemRecord, Idem!Reply(k, r, now)
          PROVE  replies' \subseteq [key : Keys, payload : Payloads, resp : Nat, at : Nat, until : Nat]
      BY <3>1 DEF Idem!Reply, IdemTypes, IdemRecord
    <3>2. rec[k] # None => rec[k] \in IdemRecord
      BY DEF IdemTypes
    <3> QED
      BY <2>1, <3>1, <3>2 DEF IdemTypes
  <2>5. /\ tx' \in [Procs -> IdemTx]
        /\ \A o \in Procs : tx'[o].pc # "idle" => tx'[o].key \in Keys /\ tx'[o].payload \in Payloads
        /\ \A o \in Procs : tx'[o].at <= now
    <3>1. Idem!Idle \in IdemTx /\ Idem!Idle.pc = "idle" /\ Idem!Idle.at = 0
      BY Zenon DEF Idem!Idle, IdemTx
    <3>2. \A o \in Procs : tx'[o] = IF o = p THEN Idem!Idle ELSE tx[o]
      BY <2>2 DEF IdemTypes
    <3>3. tx' \in [Procs -> IdemTx]
      BY <2>2, <3>1 DEF IdemTypes
    <3> QED
      BY <3>1, <3>2, <3>3 DEF IdemTypes
  <2> QED
    BY <2>2, <2>3, <2>4, <2>5 DEF IdemTypes
<1>7. CASE Idem!delete_expired
  BY <1>7 DEF Idem!delete_expired
<1>8. CASE Idem!Stop
  BY <1>8 DEF Idem!Stop, Idem!Idle
<1>9. CASE Idem!Tick
  BY <1>9 DEF Idem!Tick
<1>10. CASE UNCHANGED <<now, rec, effects, replies, tx, faults>>
  BY <1>10
<1> QED
  BY <1>1, <1>2, <1>3, <1>4, <1>5, <1>6, <1>7, <1>8, <1>9, <1>10
  DEF Idem!Next, Idem!vars, Idem!CloseIntent

\* Only an execution adds to the executions, one that has the next number.
LEMMA IdemNumbersStep ==
    ASSUME IdemTypes, IdemNumbers, [Idem!Next]_(Idem!vars)
    PROVE  /\ IdemNumbers'
           /\ \/ UNCHANGED effects
              \/ \E p \in Procs :
                    /\ Idem!Execute(p)
                    /\ effects' = effects \cup {[n |-> Cardinality(effects) + 1, key |-> tx[p].key,
                                                 payload |-> tx[p].payload, at |-> tx[p].at]}
<1>1. CASE UNCHANGED effects
  BY <1>1 DEF IdemNumbers
<1>2. ASSUME NEW p \in Procs, Idem!Execute(p)
      PROVE  /\ IdemNumbers'
             /\ effects' = effects \cup {[n |-> Cardinality(effects) + 1, key |-> tx[p].key,
                                          payload |-> tx[p].payload, at |-> tx[p].at]}
  <2> DEFINE e == [n |-> Cardinality(effects) + 1, key |-> tx[p].key,
                   payload |-> tx[p].payload, at |-> tx[p].at]
  <2>1. effects' = effects \cup {e}
    BY <1>2, IdemCardinality DEF Idem!Execute
  <2>2. Cardinality(effects) \in Nat
    BY FS_CardinalityType DEF IdemNumbers
  <2>3. e \notin effects
    BY <2>2 DEF IdemNumbers, IdemTypes
  <2> HIDE DEF e
  <2>4. IsFiniteSet(effects') /\ Cardinality(effects') = Cardinality(effects) + 1
    BY <2>1, <2>3, FS_AddElement DEF IdemNumbers
  <2>5. e.n = Cardinality(effects) + 1
    BY DEF e
  <2>6. \A f \in effects : f.n \in Nat
    BY DEF IdemTypes
  <2>7. IdemNumbers'
    <3>1. ASSUME NEW f \in effects PROVE f.n <= Cardinality(effects')
      <4>1. f.n <= Cardinality(effects)
        BY DEF IdemNumbers
      <4> QED
        BY <4>1, <2>2, <2>4, <2>6
    <3>2. e.n <= Cardinality(effects')
      BY <2>2, <2>4, <2>5
    <3> QED
      BY <2>1, <2>4, <3>1, <3>2, Zenon DEF IdemNumbers
  <2> QED
    BY <2>1, <2>7 DEF e
<1> QED
  BY <1>1, <1>2, Zenon
  DEF Idem!Next, Idem!vars, Idem!Replay, Idem!Miss, Idem!delete, Idem!ExecuteFails, Idem!Record,
      Idem!delete_expired, Idem!CloseIntent, Idem!Stop, Idem!Tick

\* No record expires within the time considered: records stay.
LEMMA IdemFreshStep ==
    ASSUME Idem!IdempotencyAssumption, MAX_TIME < RECORD_TTL, IdemTypes, IdemTypes', IdemFresh,
           [Idem!Next]_(Idem!vars)
    PROVE  IdemFresh'
<1> USE DEF Idem!IdempotencyAssumption, IdemTypes, IdemRecord, IdemTx, IdemFresh
<1>1. ASSUME NEW p \in Procs, NEW k \in Keys, NEW q \in Payloads, Idem!Replay(p, k, q) PROVE IdemFresh'
  <2> HIDE DEF Idem!IdempotencyAssumption, IdemTypes, IdemRecord, IdemTx, IdemFresh
  <2>1. rec[k] # None /\ UNCHANGED <<now, rec, tx>>
    BY <1>1 DEF Idem!Replay, Idem!Live
  <2>2. replies' = replies \cup {[key |-> k, payload |-> rec[k].payload, resp |-> rec[k].resp,
                                  at |-> now, until |-> rec[k].expires]}
    BY <1>1 DEF Idem!Replay, Idem!Reply
  <2>3. \A r \in replies' : r \in replies \/ (r.key = k /\ r.resp = rec[k].resp /\ r.payload = rec[k].payload)
    BY <2>2
  <2> QED
    BY <2>1, <2>3, Zenon DEF IdemFresh
<1>2. ASSUME NEW p \in Procs, NEW k \in Keys, NEW q \in Payloads, Idem!Miss(p, k, q) PROVE IdemFresh'
  BY <1>2 DEF Idem!Miss, Idem!Idle, Idem!Live
<1>3. ASSUME NEW p \in Procs, Idem!delete(p) PROVE IdemFresh'
  BY <1>3 DEF Idem!delete
<1>4. ASSUME NEW p \in Procs, Idem!Execute(p) PROVE IdemFresh'
  <2> HIDE DEF Idem!IdempotencyAssumption, IdemTypes, IdemRecord, IdemTx, IdemFresh
  <2>1. ~ tx[p].del /\ DOMAIN tx = Procs /\ tx[p] \in IdemTx
    BY DEF IdemFresh, IdemTypes
  <2>2. UNCHANGED <<rec, replies>> /\ tx'[p].pc = "record" /\ ~ tx'[p].del
    BY <1>4, <2>1 DEF Idem!Execute, IdemTx
  <2>3. \A o \in Procs : o # p => tx'[o] = tx[o]
    BY <1>4, <2>1 DEF Idem!Execute
  <2> QED
    BY <2>2, <2>3 DEF IdemFresh
<1>5. ASSUME NEW p \in Procs, Idem!ExecuteFails(p) PROVE IdemFresh'
  BY <1>5 DEF Idem!ExecuteFails, Idem!Idle
<1>6. ASSUME NEW p \in Procs, Idem!Record(p) PROVE IdemFresh'
  <2> DEFINE k == tx[p].key
             m == [payload |-> tx[p].payload, resp |-> tx[p].resp, expires |-> tx[p].at + RECORD_TTL]
  <2> HIDE DEF Idem!IdempotencyAssumption, IdemTypes, IdemRecord, IdemTx, IdemFresh
  <2>1. /\ k \in Keys /\ m # None /\ m.expires > MAX_TIME
        /\ DOMAIN rec = Keys /\ DOMAIN tx = Procs
    <3>1. tx[p].pc = "record"
      BY <1>6, Zenon DEF Idem!Record
    <3>2. k \in Keys /\ tx[p].at \in Nat /\ m # None /\ m.expires = tx[p].at + RECORD_TTL
      BY <3>1, IdemMine
    <3>3. MAX_TIME \in Nat /\ RECORD_TTL \in Nat
      BY DEF Idem!IdempotencyAssumption
    <3>4. DOMAIN rec = Keys /\ DOMAIN tx = Procs
      BY DEF IdemTypes
    <3> HIDE DEF m, k
    <3> QED
      BY <3>2, <3>3, <3>4
  <2>2. tx' = [tx EXCEPT ![p] = Idem!Idle]
    BY <1>6 DEF Idem!Record
  <2>3. \A o \in Procs : tx'[o].pc # "expired" /\ ~ tx'[o].del
    BY <2>1, <2>2, Zenon DEF IdemFresh, Idem!Idle
  <2>4. \/ rec[k] = None /\ rec' = [rec EXCEPT ![k] = m] /\ Idem!Reply(k, m, now)
        \/ rec[k] # None /\ rec' = rec /\ (UNCHANGED replies \/ Idem!Reply(k, rec[k], now))
    BY <1>6, Zenon DEF Idem!Record
  <2>5. ASSUME rec[k] = None, rec' = [rec EXCEPT ![k] = m], Idem!Reply(k, m, now) PROVE IdemFresh'
    <3>1. rec'[k] = m /\ \A j \in Keys : j # k => rec'[j] = rec[j]
      BY <2>1, <2>5
    <3>2. replies' = replies \cup {[key |-> k, payload |-> m.payload, resp |-> m.resp,
                                    at |-> now, until |-> m.expires]}
      BY <2>5 DEF Idem!Reply
    <3>3. \A r \in replies : r.key \in Keys /\ r.key # k
      BY <2>5 DEF IdemFresh, IdemTypes
    <3> HIDE DEF k, m
    <3>4. \A j \in Keys : rec'[j] # None => rec'[j].expires > MAX_TIME
      BY <2>1, <3>1 DEF IdemFresh
    <3>5. \A r \in replies' : /\ rec'[r.key] # None
                              /\ rec'[r.key].resp = r.resp /\ rec'[r.key].payload = r.payload
      <4>1. ASSUME NEW r \in replies
            PROVE  rec'[r.key] # None /\ rec'[r.key].resp = r.resp /\ rec'[r.key].payload = r.payload
        BY <3>1, <3>3, Zenon DEF IdemFresh
      <4>2. \A r \in replies' : r \in replies \/ (r.key = k /\ r.resp = m.resp /\ r.payload = m.payload)
        BY <3>2
      <4> QED
        BY <2>1, <3>1, <4>1, <4>2, Zenon
    <3> QED
      BY <2>3, <3>4, <3>5 DEF IdemFresh
  <2>6. ASSUME rec[k] # None, rec' = rec, UNCHANGED replies \/ Idem!Reply(k, rec[k], now) PROVE IdemFresh'
    <3> HIDE DEF k, m
    <3>1. \A r \in replies' : r \in replies \/ (r.key = k /\ r.resp = rec[k].resp /\ r.payload = rec[k].payload)
      <4>1. CASE UNCHANGED replies
        BY <4>1
      <4>2. CASE Idem!Reply(k, rec[k], now)
        BY <4>2 DEF Idem!Reply
      <4> QED
        BY <2>6, <4>1, <4>2
    <3> QED
      BY <2>3, <2>6, <3>1, Zenon DEF IdemFresh
  <2> QED
    BY <2>4, <2>5, <2>6
<1>7. CASE Idem!delete_expired
  <2> HIDE DEF Idem!IdempotencyAssumption, IdemTypes, IdemRecord, IdemTx, IdemFresh
  <2>1. UNCHANGED <<replies, tx>>
    BY <1>7 DEF Idem!delete_expired
  <2>2. \A k \in Keys : rec'[k] = rec[k]
    <3>1. now \in Nat /\ MAX_TIME \in Nat /\ now <= MAX_TIME
      BY DEF IdemTypes, Idem!IdempotencyAssumption
    <3>2. \A k \in Keys : rec[k] # None => rec[k].expires \in Nat /\ rec[k].expires > MAX_TIME
      BY DEF IdemTypes, IdemRecord, IdemFresh
    <3> QED
      BY <1>7, <3>1, <3>2 DEF Idem!delete_expired
  <2>3. \A r \in replies : r.key \in Keys
    BY DEF IdemTypes
  <2> QED
    BY <2>1, <2>2, <2>3, Zenon DEF IdemFresh
<1>8. CASE Idem!Stop
  BY <1>8 DEF Idem!Stop, Idem!Idle
<1>9. CASE UNCHANGED <<rec, replies, tx>>
  BY <1>9
<1> QED
  BY <1>1, <1>2, <1>3, <1>4, <1>5, <1>6, <1>7, <1>8, <1>9, Zenon
  DEF Idem!Next, Idem!vars, Idem!CloseIntent, Idem!Tick

\* What the types say of the numbers and keys that IdemOnce compares.
LEMMA IdemSorts ==
    ASSUME Idem!IdempotencyAssumption, IdemTypes
    PROVE  /\ now \in Nat /\ RECORD_TTL \in Nat
           /\ \A e \in effects : e.at \in Nat /\ e.n \in Nat /\ e.key \in Keys
           /\ \A p \in Procs : /\ tx[p].at \in Nat /\ tx[p].at <= now
                               /\ tx[p].pc # "idle" => tx[p].key \in Keys
           /\ \A k \in Keys : rec[k] # None => rec[k].expires \in Nat
BY DEF Idem!IdempotencyAssumption, IdemTypes, IdemRecord, IdemTx

\* One request at a time and no failure: the record is there when it is needed.
LEMMA IdemOnceStep ==
    ASSUME Idem!IdempotencyAssumption, OneByOne, IdemTypes, IdemTypes', IdemNumbers, IdemOnce,
           [Idem!Next]_(Idem!vars)
    PROVE  IdemOnce'
<1>one. PICK self \in Procs : Procs = {self}
  BY DEF OneByOne
<1>sorts. /\ now \in Nat /\ RECORD_TTL \in Nat
          /\ \A e \in effects : e.at \in Nat /\ e.n \in Nat /\ e.key \in Keys
          /\ tx[self].at \in Nat /\ tx[self].at <= now
          /\ tx[self].pc # "idle" => tx[self].key \in Keys
          /\ \A k \in Keys : rec[k] # None => rec[k].expires \in Nat
  BY IdemSorts, Zenon
<1>txs. DOMAIN tx = Procs /\ DOMAIN rec = Keys /\ DOMAIN tx[self] = {"pc", "key", "payload", "at", "del", "resp"}
  BY DEF IdemTypes, IdemTx
<1>1. ASSUME NEW k \in Keys, NEW q \in Payloads, Idem!Replay(self, k, q) PROVE IdemOnce'
  BY <1>1 DEF Idem!Replay, IdemOnce, IdemClear, IdemCovered, IdemApart
<1>2. ASSUME NEW k \in Keys, NEW q \in Payloads, Idem!Miss(self, k, q) PROVE IdemOnce'
  <2>1. /\ tx[self].pc = "idle" /\ ~ Idem!Live(rec[k], now) /\ UNCHANGED <<now, rec, effects>>
        /\ tx'[self].key = k /\ tx'[self].at = now
        /\ tx'[self].pc = IF rec[k] = None THEN "execute" ELSE "expired"
    BY <1>2, <1>txs DEF Idem!Miss, Idem!Idle
  <2>2. \A e \in effects : e.key = k => e.at + RECORD_TTL <= now
    <3> SUFFICES ASSUME NEW e \in effects, e.key = k PROVE e.at + RECORD_TTL <= now
      OBVIOUS
    <3>1. \/ e.at + RECORD_TTL <= now
          \/ rec[k] # None /\ e.at + RECORD_TTL <= rec[k].expires
      BY <2>1, <1>one, Zenon DEF IdemOnce, IdemCovered
    <3>2. rec[k] # None => rec[k].expires <= now /\ rec[k].expires \in Nat
      BY <2>1, <1>sorts DEF Idem!Live
    <3> QED
      BY <3>1, <3>2, <1>sorts
  <2>3. IdemClear'
    BY <2>1, <2>2, <1>one DEF IdemClear
  <2>4. IdemCovered' /\ IdemApart'
    BY <2>1, <1>one DEF IdemOnce, IdemCovered, IdemApart
  <2> QED
    BY <2>3, <2>4 DEF IdemOnce
<1>3. CASE Idem!delete(self)
  <2>1. /\ tx[self].pc = "expired" /\ tx'[self].pc = "execute" /\ tx'[self].key = tx[self].key
        /\ tx'[self].at = tx[self].at /\ UNCHANGED <<now, rec, effects>>
        /\ rec[tx[self].key] # None => tx'[self].del
    BY <1>3, <1>txs, Zenon DEF Idem!delete
  <2>2. \A f \in effects : f.key = tx[self].key => f.at + RECORD_TTL <= tx[self].at
    BY <2>1, Zenon DEF IdemOnce, IdemClear
  <2>3. IdemClear'
    <3>1. \A f \in effects' : f.key = tx'[self].key => f.at + RECORD_TTL <= tx'[self].at
      BY <2>1, <2>2
    <3>2. rec'[tx'[self].key] # None => tx'[self].del
      BY <2>1
    <3> QED
      BY <1>one, <2>1, <3>1, <3>2, Zenon DEF IdemClear
  <2>4. IdemCovered' /\ IdemApart'
    BY <2>1, <1>one DEF IdemOnce, IdemCovered, IdemApart
  <2> QED
    BY <2>3, <2>4 DEF IdemOnce
<1>4. CASE Idem!Execute(self)
  <2> DEFINE e == [n |-> Cardinality(effects) + 1, key |-> tx[self].key,
                   payload |-> tx[self].payload, at |-> tx[self].at]
  <2>1. effects' = effects \cup {e}
    BY <1>4, IdemCardinality DEF Idem!Execute
  <2>2. /\ e.n = Cardinality(effects) + 1 /\ e.key = tx[self].key /\ e.at = tx[self].at
        /\ Cardinality(effects) \in Nat
        /\ \A f \in effects : f.n <= Cardinality(effects)
    BY FS_CardinalityType DEF IdemNumbers
  <2> HIDE DEF e
  <2>3. /\ tx'[self].pc = "record" /\ tx'[self].key = tx[self].key /\ tx'[self].at = tx[self].at
        /\ tx[self].pc = "execute" /\ UNCHANGED now
        /\ rec' = IF tx[self].del THEN [rec EXCEPT ![tx[self].key] = None] ELSE rec
    BY <1>4, <1>txs DEF Idem!Execute
  <2>4. rec'[tx[self].key] = None /\ \A k \in Keys : k # tx[self].key => rec'[k] = rec[k]
    BY <2>3, <1>sorts, <1>txs DEF IdemOnce, IdemClear
  <2>5. \A f \in effects : f.key = tx[self].key => f.at + RECORD_TTL <= tx[self].at
    BY <2>3, Zenon DEF IdemOnce, IdemClear
  <2>6. IdemApart'
    <3>1. ASSUME NEW a \in effects, NEW b \in effects, a.key = b.key, a.n < b.n
          PROVE  a.at + RECORD_TTL <= b.at
      BY <3>1, Zenon DEF IdemOnce, IdemApart
    <3>2. ASSUME NEW a \in effects, a.key = e.key PROVE a.at + RECORD_TTL <= e.at
      BY <3>2, <2>2, <2>5
    <3>3. ASSUME NEW b \in effects PROVE ~ (e.n < b.n)
      BY <2>2, <1>sorts
    <3>4. ~ (e.n < e.n)
      BY <2>2
    <3> QED
      BY <2>1, <3>1, <3>2, <3>3, <3>4, Zenon DEF IdemApart
  <2>7. IdemCovered'
    <3>1. ASSUME NEW f \in effects, f.key = tx[self].key PROVE f.at + RECORD_TTL <= now'
      BY <3>1, <2>3, <2>5, <1>sorts
    <3>2. ASSUME NEW f \in effects, f.key # tx[self].key
          PROVE  \/ f.at + RECORD_TTL <= now'
                 \/ rec'[f.key] # None /\ f.at + RECORD_TTL <= rec'[f.key].expires
      <4>1. f.at + RECORD_TTL <= now \/ (rec[f.key] # None /\ f.at + RECORD_TTL <= rec[f.key].expires)
        BY <3>2, <2>3, <1>one, Zenon DEF IdemOnce, IdemCovered
      <4>2. now' = now /\ rec'[f.key] = rec[f.key]
        BY <3>2, <2>3, <2>4, <1>sorts
      <4> QED
        BY <4>1, <4>2, Zenon
    <3>3. tx'[self].pc = "record" /\ tx'[self].key = e.key /\ e.at <= tx'[self].at
      <4>1. e.key = tx[self].key /\ e.at = tx[self].at /\ tx[self].at \in Nat
        BY <2>2, <1>sorts, Zenon
      <4>2. tx'[self].pc = "record" /\ tx'[self].key = tx[self].key /\ tx'[self].at = tx[self].at
        BY <2>3, Zenon
      <4> QED
        BY <4>1, <4>2
    <3> QED
      BY <2>1, <3>1, <3>2, <3>3, Zenon DEF IdemCovered
  <2>8. IdemClear'
    BY <1>one, <2>3, <2>4 DEF IdemClear
  <2> QED
    BY <2>6, <2>7, <2>8 DEF IdemOnce
<1>5. CASE Idem!ExecuteFails(self)
  <2>1. /\ tx[self].pc = "execute" /\ tx'[self].pc = "idle" /\ UNCHANGED <<now, rec, effects>>
    BY <1>5, <1>txs DEF Idem!ExecuteFails, Idem!Idle
  <2>2. IdemClear'
    BY <2>1, <1>one DEF IdemClear
  <2>3. IdemCovered' /\ IdemApart'
    BY <2>1, <1>one DEF IdemOnce, IdemCovered, IdemApart
  <2> QED
    BY <2>2, <2>3 DEF IdemOnce
<1>6. CASE Idem!Record(self)
  <2>1. tx[self].pc = "record" /\ tx'[self].pc = "idle" /\ UNCHANGED <<now, effects>>
    BY <1>6, <1>txs DEF Idem!Record, Idem!Idle
  <2>2. rec[tx[self].key] = None /\ tx[self].key \in Keys
    BY <2>1, <1>sorts DEF IdemOnce, IdemClear
  <2>3. PICK mine : /\ rec' = [rec EXCEPT ![tx[self].key] = mine]
                    /\ mine = [payload |-> tx[self].payload, resp |-> tx[self].resp,
                               expires |-> tx[self].at + RECORD_TTL]
    BY <1>6, <2>2, Zenon DEF Idem!Record
  <2>4. mine # None /\ mine.expires = tx[self].at + RECORD_TTL
    BY <2>1, <2>3, IdemMine, Zenon
  <2>5. IdemClear'
    BY <2>1, <1>one DEF IdemClear
  <2>6. ASSUME NEW f \in effects
        PROVE  \/ f.at + RECORD_TTL <= now
               \/ rec'[f.key] # None /\ f.at + RECORD_TTL <= rec'[f.key].expires
    <3>1. CASE f.key = tx[self].key
      <4>1. f.at + RECORD_TTL <= now \/ f.at <= tx[self].at
        BY <3>1, <2>2, <1>one, Zenon DEF IdemOnce, IdemCovered
      <4>2. rec'[f.key] = mine
        BY <3>1, <2>2, <2>3, <1>txs
      <4> QED
        BY <4>1, <4>2, <2>4, <1>sorts
    <3>2. CASE f.key # tx[self].key
      <4>1. f.at + RECORD_TTL <= now \/ (rec[f.key] # None /\ f.at + RECORD_TTL <= rec[f.key].expires)
        BY <3>2, <1>one, Zenon DEF IdemOnce, IdemCovered
      <4>2. rec'[f.key] = rec[f.key]
        BY <3>2, <2>3, <1>sorts, <1>txs
      <4> QED
        BY <4>1, <4>2, Zenon
    <3> QED
      BY <3>1, <3>2
  <2>7. IdemCovered'
    BY <2>1, <2>6, Zenon DEF IdemCovered
  <2>8. IdemApart'
    BY <2>1 DEF IdemOnce, IdemApart
  <2> QED
    BY <2>5, <2>7, <2>8 DEF IdemOnce
<1>7. CASE Idem!delete_expired
  <2>1. /\ \A k \in Keys : rec'[k] = IF rec[k] # None /\ rec[k].expires < now THEN None ELSE rec[k]
        /\ UNCHANGED <<now, effects, tx>>
    BY <1>7 DEF Idem!delete_expired
  <2>2. \A k \in Keys : rec'[k] = rec[k] \/ (rec[k].expires < now /\ rec[k] # None /\ rec'[k] = None)
    BY <2>1
  <2>3. IdemClear'
    BY <2>1, <2>2, <1>sorts, <1>one, Zenon DEF IdemOnce, IdemClear
  <2>4. ASSUME NEW f \in effects, rec[f.key] # None, f.at + RECORD_TTL <= rec[f.key].expires
        PROVE  \/ f.at + RECORD_TTL <= now
               \/ rec'[f.key] # None /\ f.at + RECORD_TTL <= rec'[f.key].expires
    BY <2>2, <2>4, <1>sorts
  <2>5. IdemCovered'
    BY <2>1, <2>4, Zenon DEF IdemOnce, IdemCovered
  <2>6. IdemApart'
    BY <2>1 DEF IdemOnce, IdemApart
  <2> QED
    BY <2>3, <2>5, <2>6 DEF IdemOnce
<1>8. ~ Idem!Stop
  BY DEF Idem!Stop, OneByOne, IdemTypes
<1>9. CASE Idem!Tick
  <2>1. now' = now + 1 /\ UNCHANGED <<rec, effects, tx>>
    BY <1>9 DEF Idem!Tick
  <2>2. IdemClear' /\ IdemApart'
    BY <2>1 DEF IdemOnce, IdemClear, IdemApart
  <2>3. \A f \in effects : f.at + RECORD_TTL <= now => f.at + RECORD_TTL <= now'
    BY <2>1, <1>sorts
  <2>4. IdemCovered'
    BY <2>1, <2>3, Zenon DEF IdemOnce, IdemCovered
  <2> QED
    BY <2>2, <2>4 DEF IdemOnce
<1>10. CASE UNCHANGED <<now, rec, effects, tx>>
  BY <1>10 DEF IdemOnce, IdemClear, IdemCovered, IdemApart
<1>11. \A p \in Procs : p = self
  BY <1>one, Zenon
<1> QED
  BY <1>1, <1>2, <1>3, <1>4, <1>5, <1>6, <1>7, <1>8, <1>9, <1>10, <1>11, Zenon
  DEF Idem!Next, Idem!vars, Idem!CloseIntent

\* A key has one answer: the loser of a race replays the winner's record, as long
\* as no record has expired; and a client that repeats its requests one after the
\* other, none of which fails, has each of them run once within the TTL of its
\* record (IdempotencyManager.run), for any number of requests, keys and payloads.
THEOREM OneAnswerPerKeyAlways ==
    ASSUME Idem!IdempotencyAssumption
    PROVE  Idem!Spec => []Idem!OneAnswerPerKey
<1>1. Idem!Init => IdemInvariant
  <2> SUFFICES ASSUME Idem!Init PROVE IdemInvariant
    OBVIOUS
  <2>1. /\ now = 0 /\ faults = 0 /\ effects = {} /\ replies = {}
        /\ rec = [k \in Keys |-> None] /\ tx = [p \in Procs |-> Idem!Idle]
    BY DEF Idem!Init
  <2>2. /\ Idem!Idle \in IdemTx /\ Idem!Idle.pc = "idle" /\ Idem!Idle.at = 0 /\ ~ Idem!Idle.del
    BY Zenon DEF Idem!Idle, IdemTx
  <2>3. IdemTypes
    BY <2>1, <2>2 DEF IdemTypes, Idem!IdempotencyAssumption
  <2>4. IdemNumbers
    BY <2>1, FS_EmptySet DEF IdemNumbers
  <2>5. IdemFresh
    BY <2>1, <2>2 DEF IdemFresh
  <2>6. IdemOnce
    BY <2>1, <2>2 DEF IdemOnce, IdemClear, IdemCovered, IdemApart
  <2> QED
    BY <2>3, <2>4, <2>5, <2>6 DEF IdemInvariant
<1>2. IdemInvariant /\ [Idem!Next]_(Idem!vars) => IdemInvariant'
  BY IdemTypesStep, IdemNumbersStep, IdemFreshStep, IdemOnceStep DEF IdemInvariant
<1>3. IdemInvariant => Idem!OneAnswerPerKey
  <2>1. ASSUME IdemFresh, IdemTypes PROVE Idem!RepliesAgree
    BY <2>1 DEF IdemFresh, Idem!RepliesAgree
  <2>2. ASSUME IdemOnce, IdemTypes PROVE Idem!RunsOnce
    BY <2>2, IdemSorts DEF IdemOnce, IdemApart, Idem!RunsOnce
  <2> QED
    BY <2>1, <2>2 DEF IdemInvariant, Idem!OneAnswerPerKey, OneByOne
<1> QED
  BY <1>1, <1>2, <1>3, PTL DEF Idem!Spec

-----------------------------------------------------------------------------
(* Notifications marked as read *)

MailRow == [created : Nat, read : Nat \cup {None}]

MailTypes ==
    /\ clock \in Nat
    /\ inbox \in [Mail!Notifications -> MailRow \cup {None}]
    /\ answered \in [Mail!Notifications -> SUBSET (Nat \cup {None})]
    /\ tx \in [Procs -> [id : Mail!Notifications, at : Nat, unread : BOOLEAN] \cup {None}]

\* A request that found the notification read finds it so when it writes.
MailReads ==
    \A p \in Procs : tx[p] # None =>
        /\ inbox[tx[p].id] # None
        /\ ~ tx[p].unread => inbox[tx[p].id].read # None

\* What was answered is the time in the row.
MailAnswers ==
    \A n \in Mail!Notifications : answered[n] # {} =>
        inbox[n] # None /\ inbox[n].read # None /\ answered[n] = {inbox[n].read}

MailInvariant == MailTypes /\ MailReads /\ MailAnswers

\* The instance counts as this module does.
LEMMA MailCardinality == \A S : Mail!Cardinality(S) = Cardinality(S)
BY DEF Mail!Cardinality, Cardinality

\* Arriving notifications, requests and walks keep the invariant.
LEMMA MailStep ==
    ASSUME Mail!InboxAssumption, MailInvariant, [Mail!Next]_(Mail!vars)
    PROVE  MailInvariant'
<1> USE DEF Mail!InboxAssumption, MailInvariant, MailTypes, MailReads, MailAnswers, MailRow
<1>1. ASSUME NEW n \in Mail!Notifications, Mail!Notify(n) PROVE MailInvariant'
  BY <1>1 DEF Mail!Notify, Mail!Store
<1>2. ASSUME NEW n \in Mail!Notifications, NEW p \in Procs, Mail!mark_notification_read(p, n)
      PROVE  MailInvariant'
  BY <1>2, Zenon DEF Mail!mark_notification_read
<1>3. ASSUME NEW p \in Procs, Mail!MarkNotificationRead(p) PROVE MailInvariant'
  <2> HIDE DEF Mail!InboxAssumption, MailInvariant, MailTypes, MailReads, MailAnswers, MailRow
  <2> DEFINE n == tx[p].id
  <2>1. /\ tx[p] # None /\ UNCHANGED clock
        /\ inbox' = Mail!mark_read(n, tx[p].at, tx[p].unread)
        /\ answered' = [answered EXCEPT ![n] = answered[n] \cup {inbox'[n].read}]
        /\ tx' = [tx EXCEPT ![p] = None]
    BY <1>3 DEF Mail!MarkNotificationRead, Mail!Store
  <2>2. /\ n \in Mail!Notifications /\ tx[p].at \in Nat /\ inbox[n] \in MailRow /\ inbox[n] # None
        /\ inbox[n].read # None \/ tx[p].unread
        /\ DOMAIN inbox = Mail!Notifications
    BY <2>1 DEF MailInvariant, MailTypes, MailReads
  <2>3. \/ inbox[n].read # None /\ inbox' = inbox
        \/ inbox[n].read = None /\ inbox' = [inbox EXCEPT ![n].read = tx[p].at]
    BY <2>1, <2>2, Zenon DEF Mail!mark_read
  <2> HIDE DEF n
  <2>4. /\ inbox'[n] \in MailRow /\ inbox'[n] # None /\ inbox'[n].read # None
        /\ inbox[n].read # None => inbox'[n].read = inbox[n].read
        /\ \A m \in Mail!Notifications : m # n => inbox'[m] = inbox[m]
        /\ inbox' \in [Mail!Notifications -> MailRow \cup {None}]
    <3>1. None \notin MailRow /\ None \notin Nat
      BY DEF Mail!InboxAssumption, MailRow
    <3>2. inbox \in [Mail!Notifications -> MailRow \cup {None}]
      BY DEF MailInvariant, MailTypes
    <3> QED
      BY <2>2, <2>3, <3>1, <3>2 DEF MailRow
  <2>5. inbox'[n].read \in Nat \cup {None}
    BY <2>4 DEF MailRow
  <2>6. MailTypes'
    <3>1. clock' \in Nat
      BY <2>1 DEF MailInvariant, MailTypes
    <3>2. answered' \in [Mail!Notifications -> SUBSET (Nat \cup {None})]
      BY <2>1, <2>2, <2>5 DEF MailInvariant, MailTypes
    <3>3. tx' \in [Procs -> [id : Mail!Notifications, at : Nat, unread : BOOLEAN] \cup {None}]
      BY <2>1 DEF MailInvariant, MailTypes
    <3> QED
      BY <2>4, <3>1, <3>2, <3>3, Zenon DEF MailTypes
  <2>7. MailReads'
    <3>1. ASSUME NEW o \in Procs, tx'[o] # None
          PROVE  o # p /\ tx'[o] = tx[o] /\ tx[o].id \in Mail!Notifications
      BY <2>1, <3>1 DEF MailInvariant, MailTypes
    <3>2. ASSUME NEW o \in Procs, tx'[o] # None
          PROVE  inbox'[tx'[o].id] # None /\ (~ tx'[o].unread => inbox'[tx'[o].id].read # None)
      <4>1. inbox[tx[o].id] # None /\ (~ tx[o].unread => inbox[tx[o].id].read # None)
        BY <3>1, <3>2, Zenon DEF MailInvariant, MailReads
      <4>2. inbox'[tx[o].id] = inbox[tx[o].id] \/ tx[o].id = n
        BY <2>4, <3>1, <3>2, Zenon
      <4> QED
        BY <2>4, <3>1, <3>2, <4>1, <4>2, Zenon
    <3> QED
      BY <3>2, Zenon DEF MailReads
  <2>8. MailAnswers'
    <3>1. answered[n] \subseteq {inbox'[n].read}
      BY <2>2, <2>4 DEF MailInvariant, MailAnswers
    <3>2. /\ answered'[n] = {inbox'[n].read}
          /\ \A m \in Mail!Notifications : m # n => answered'[m] = answered[m]
      BY <2>1, <2>2, <3>1 DEF MailInvariant, MailTypes
    <3> QED
      BY <2>4, <3>2 DEF MailInvariant, MailAnswers
  <2> QED
    BY <2>6, <2>7, <2>8 DEF MailInvariant
<1>4. ASSUME NEW p \in Procs, Mail!Rollback(p) PROVE MailInvariant'
  BY <1>4 DEF Mail!Rollback
<1>5. CASE Mail!Tick
  <2> HIDE DEF Mail!InboxAssumption, MailInvariant, MailTypes, MailReads, MailAnswers, MailRow
  <2>1. clock' = clock + 1 /\ UNCHANGED <<inbox, tx, answered>>
    BY <1>5 DEF Mail!Tick
  <2>2. MailTypes'
    <3>1. clock' \in Nat
      BY <2>1 DEF MailInvariant, MailTypes
    <3> QED
      BY <2>1, <3>1, Zenon DEF MailInvariant, MailTypes
  <2>3. MailReads' /\ MailAnswers'
    BY <2>1 DEF MailInvariant, MailReads, MailAnswers
  <2> QED
    BY <2>2, <2>3 DEF MailInvariant
<1>6. CASE UNCHANGED <<clock, inbox, tx, answered>>
  BY <1>6
<1> QED
  BY <1>1, <1>2, <1>3, <1>4, <1>5, <1>6
  DEF Mail!Next, Mail!vars, Mail!list_notifications, Mail!StartOver

\* All requests that mark a notification as read are answered with one and the
\* same time, for any number of requests and notifications: an unread one is
\* written once (mark_read, WHERE read_at IS NULL).
THEOREM ReadersAlwaysAgree ==
    ASSUME Mail!InboxAssumption
    PROVE  Mail!Spec => []Mail!ReadersAgree
<1>1. Mail!Init => MailInvariant
  BY DEF Mail!Init, MailInvariant, MailTypes, MailReads, MailAnswers
<1>2. MailInvariant /\ [Mail!Next]_(Mail!vars) => MailInvariant'
  BY MailStep
<1>3. MailInvariant => Mail!ReadersAgree
  <2> SUFFICES ASSUME MailInvariant, NEW n \in Mail!Notifications
               PROVE  Cardinality(answered[n]) <= 1
    BY MailCardinality DEF Mail!ReadersAgree
  <2>1. answered[n] = {} \/ answered[n] = {inbox[n].read}
    BY DEF MailInvariant, MailAnswers
  <2>2. Cardinality({}) = 0 /\ Cardinality({inbox[n].read}) = 1
    BY FS_EmptySet, FS_Singleton, Zenon
  <2> QED
    BY <2>1, <2>2
<1> QED
  BY <1>1, <1>2, <1>3, PTL DEF Mail!Spec

=============================================================================
