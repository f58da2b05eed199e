---------------------------- MODULE Idempotency ------------------------------
(***************************************************************************)
(* IdempotencyManager: the response of a mutating request is memoised under *)
(* the client's key for RECORD_TTL.  The record is stored after the command *)
(* has committed its own effect, in a second transaction; the unique index  *)
(* on (user, key) decides between concurrent requests.  One user; the       *)
(* command is a creation, which an equal open intent refuses.               *)
(***************************************************************************)
EXTENDS Naturals, FiniteSets

CONSTANTS
    Procs,       \* request threads
    Keys,        \* Idempotency-Key values
    Payloads,    \* request bodies
    RECORD_TTL,
    MAX_TIME,    \* bound on the clock
    MAX_EFFECTS, \* once there are so many executions no new request is taken
    MAX_FAULTS,  \* bound on failed commands and stops of the process
    None

\* What an instance has to respect.
IdempotencyAssumption ==
    /\ RECORD_TTL \in Nat \ {0} /\ MAX_TIME \in Nat /\ MAX_EFFECTS \in Nat /\ MAX_FAULTS \in Nat
    /\ None \notin [payload : Payloads, resp : Nat, expires : Nat]

VARIABLES
    now,
    rec,      \* idempotency_keys: payload, response and expiry of a key, or None
    open,     \* payloads whose intent is open
    effects,  \* committed executions: key, payload, instant of the request
    replies,  \* successful replies: key, response, instants of request and expiry
    tx,       \* per thread, the request it serves
    faults

vars == <<now, rec, open, effects, replies, tx, faults>>

Idle == [pc |-> "idle", key |-> None, payload |-> None, at |-> 0, del |-> FALSE, resp |-> 0]

\* The test expires_at > now of run.
Live(r, t) == r # None /\ r.expires > t

\* An uncommitted DELETE holds the row, and with it the index entry.
Locked(p, k) == \E q \in Procs \ {p} : tx[q].key = k /\ tx[q].del

Reply(k, r, t) ==
    replies' = replies \cup {[key |-> k, payload |-> r.payload, resp |-> r.resp, at |-> t, until |-> r.expires]}

-----------------------------------------------------------------------------
(* IdempotencyManager.run *)

Replay(p, k, q) ==
    /\ tx[p].pc = "idle"
    /\ Live(rec[k], now) /\ rec[k].payload = q
    /\ Reply(k, rec[k], now)
    /\ UNCHANGED <<now, rec, open, effects, tx, faults>>

\* No live record: the request goes on, after clearing an expired one.
Miss(p, k, q) ==
    /\ tx[p].pc = "idle"
    /\ ~ Live(rec[k], now)
    /\ Cardinality(effects) < MAX_EFFECTS
    /\ tx' = [tx EXCEPT ![p] = [Idle EXCEPT !.key = k, !.payload = q, !.at = now,
                 !.pc = IF rec[k] = None THEN "execute" ELSE "expired"]]
    /\ UNCHANGED <<now, rec, open, effects, replies, faults>>

\* DELETE by user and key: of whatever record is there by then.
delete(p) ==
    /\ tx[p].pc = "expired"
    /\ ~ Locked(p, tx[p].key)
    /\ tx' = [tx EXCEPT ![p].pc = "execute", ![p].del = rec[tx[p].key] # None]
    /\ UNCHANGED <<now, rec, open, effects, replies, faults>>

\* The command's commit also commits the deletion.
Execute(p) ==
    LET n == Cardinality(effects) + 1
        k == tx[p].key
    IN  /\ tx[p].pc = "execute"
        /\ tx[p].payload \notin open
        /\ open' = open \cup {tx[p].payload}
        /\ effects' = effects \cup {[n |-> n, key |-> k, payload |-> tx[p].payload, at |-> tx[p].at]}
        /\ rec' = IF tx[p].del THEN [rec EXCEPT ![k] = None] ELSE rec
        /\ tx' = [tx EXCEPT ![p].pc = "record", ![p].del = FALSE, ![p].resp = n]
        /\ UNCHANGED <<now, replies, faults>>

\* DuplicateIntentError or any other error: rollback, and no record.
ExecuteFails(p) ==
    /\ tx[p].pc = "execute"
    /\ \/ tx[p].payload \in open /\ UNCHANGED faults
       \/ faults < MAX_FAULTS /\ faults' = faults + 1
    /\ tx' = [tx EXCEPT ![p] = Idle]
    /\ UNCHANGED <<now, rec, open, effects, replies>>

\* Mutant: the loser of the insert answers with its own snapshot.
LoserKeepsItsSnapshot(p) ==
    LET k == tx[p].key
        mine == [payload |-> tx[p].payload, resp |-> tx[p].resp, expires |-> tx[p].at + RECORD_TTL]
    IN  /\ tx[p].pc = "record" /\ ~ Locked(p, k)
        /\ rec' = IF rec[k] = None THEN [rec EXCEPT ![k] = mine] ELSE rec
        /\ Reply(k, mine, now)
        /\ tx' = [tx EXCEPT ![p] = Idle]
        /\ UNCHANGED <<now, open, effects, faults>>

\* The insert and its commit; on the unique violation the winner's record
\* answers if it is live and for the same payload, else the reply is a conflict.
Record(p) ==
    LET k == tx[p].key
        mine == [payload |-> tx[p].payload, resp |-> tx[p].resp, expires |-> tx[p].at + RECORD_TTL]
    IN  /\ tx[p].pc = "record" /\ ~ Locked(p, k)
        /\ \/ /\ rec[k] = None
              /\ rec' = [rec EXCEPT ![k] = mine]
              /\ Reply(k, mine, now)
           \/ /\ rec[k] # None
              /\ IF Live(rec[k], tx[p].at) /\ rec[k].payload = mine.payload
                 THEN Reply(k, rec[k], now) ELSE UNCHANGED replies
              /\ UNCHANGED rec
        /\ tx' = [tx EXCEPT ![p] = Idle]
        /\ UNCHANGED <<now, open, effects, faults>>

-----------------------------------------------------------------------------
\* IdempotencyCleanupScheduler.run_once
delete_expired ==
    /\ \A k \in Keys, p \in Procs : ~ (tx[p].del /\ tx[p].key = k)
    /\ rec' = [k \in Keys |-> IF rec[k] # None /\ rec[k].expires < now THEN None ELSE rec[k]]
    /\ UNCHANGED <<now, open, effects, replies, tx, faults>>

\* The intent of a payload is triggered, cancelled or expires.
CloseIntent(q) ==
    /\ q \in open
    /\ open' = open \ {q}
    /\ UNCHANGED <<now, rec, effects, replies, tx, faults>>

\* The process stops; transactions under way are rolled back.
Stop ==
    /\ faults < MAX_FAULTS
    /\ faults' = faults + 1
    /\ tx' = [p \in Procs |-> Idle]
    /\ UNCHANGED <<now, rec, open, effects, replies>>

Tick ==
    /\ now < MAX_TIME
    /\ now' = now + 1
    /\ UNCHANGED <<rec, open, effects, replies, tx, faults>>

Init ==
    /\ now = 0 /\ faults = 0
    /\ rec = [k \in Keys |-> None]
    /\ open = {} /\ effects = {} /\ replies = {}
    /\ tx = [p \in Procs |-> Idle]

Next ==
    \/ \E p \in Procs :
           \/ \E k \in Keys, q \in Payloads : Replay(p, k, q) \/ Miss(p, k, q)
           \/ delete(p) \/ Execute(p) \/ ExecuteFails(p) \/ Record(p)
    \/ delete_expired \/ (\E q \in Payloads : CloseIntent(q)) \/ Stop \/ Tick

Spec == Init /\ [][Next]_vars

-----------------------------------------------------------------------------
\* While a record that answered a request is live, every successful reply to its
\* key is that answer: the loser of a race replays the winner's snapshot, and a
\* retry after a stop of the process does not contradict an earlier reply.
RepliesAgree ==
    \A a, b \in replies :
        a.key = b.key /\ a.at <= b.at /\ b.at < a.until => a.resp = b.resp /\ a.payload = b.payload

\* A client that repeats a request with its key runs it once within the TTL: "same
\* (user, key) + same request: return the stored response, no re-execution".
RunsOnce ==
    \A a, b \in effects :
        a.key = b.key /\ a.payload = b.payload /\ a.n < b.n => b.at >= a.at + RECORD_TTL

\* Both: replies agree whatever requests race, as long as no record has expired;
\* and requests that follow one another, none of which fails, run once.
OneAnswerPerKey ==
    /\ MAX_TIME < RECORD_TTL => RepliesAgree
    /\ (\E p \in Procs : Procs = {p}) /\ MAX_FAULTS = 0 => RunsOnce

=============================================================================
