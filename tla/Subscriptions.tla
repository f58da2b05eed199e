---------------------------- MODULE Subscriptions ----------------------------
(***************************************************************************)
(* The quote subscriptions shared by the two intent tables.  TWAP plans are *)
(* rows of trade_intents, the other intents rows of trade_intent_core; both *)
(* need their symbol streamed by the one provider, which admits an allowlist *)
(* of symbols up to a quota.  Creations subscribe, a cancellation may       *)
(* unsubscribe, and the startup of the process subscribes what is open.     *)
(***************************************************************************)
EXTENDS Naturals, FiniteSets

CONSTANTS
    Procs,             \* request threads
    Plans,             \* ids of rows of trade_intents
    Intents,           \* ids of rows of trade_intent_core
    Symbols, Allowed,  \* the symbol master and the demo allowlist
    MAX_SUBSCRIPTIONS, \* quota of the provider
    MAX_FAULTS,        \* bound on failures of the broker
    None

\* What an instance has to respect.
SubscriptionAssumption ==
    /\ Plans \cap Intents = {} /\ Allowed \subseteq Symbols
    /\ MAX_SUBSCRIPTIONS \in Nat /\ MAX_FAULTS \in Nat
    /\ None \notin Symbols

Rows == Plans \cup Intents

VARIABLES
    phase,   \* "down", "legacy" and "core" while the lifespan subscribes, "serving"
    seed,    \* symbols the running startup loop has still to subscribe
    subs,    \* _subscribed of the provider
    cut,     \* history: symbols a cancellation unsubscribed while they were needed
    sym,     \* symbol of a row, None while it does not exist
    status,  \* "absent", "open" (scheduled or active), "closed"; committed
    tx,      \* per thread, the request it serves
    faults

vars == <<phase, seed, subs, cut, sym, status, tx, faults>>

Idle == [pc |-> "idle", row |-> None]

active_or_scheduled_symbols(R) == {sym[i] : i \in {j \in R : status[j] = "open"}}

\* Open rows need their symbol, and so does a creation that has subscribed it.
Needed(s) ==
    \/ s \in active_or_scheduled_symbols(Rows)
    \/ \E p \in Procs : tx[p].pc = "subscribed" /\ sym[tx[p].row] = s

\* Mutant: subscribe refuses a symbol it already streams.
RefusesRepeats(s) ==
    /\ s \in Allowed \ subs
    /\ Cardinality(subs) < MAX_SUBSCRIPTIONS

\* ShioajiQuoteProvider.subscribe: allowlist, no-op when subscribed, quota.
Admits(s) ==
    /\ s \in Allowed
    /\ s \in subs \/ Cardinality(subs) < MAX_SUBSCRIPTIONS

-----------------------------------------------------------------------------
(* Requests *)

\* Insert and flush: the row is seen by no other session.
Insert(p, i, s) ==
    /\ phase = "serving" /\ tx[p].pc = "idle"
    /\ sym[i] = None
    /\ sym' = [sym EXCEPT ![i] = s]
    /\ tx' = [tx EXCEPT ![p] = [pc |-> "inserted", row |-> i]]
    /\ UNCHANGED <<phase, seed, subs, cut, status, faults>>

\* Mutant: the subscription is left to the next start.
NoSubscription(p) ==
    /\ tx[p].pc = "inserted"
    /\ tx' = [tx EXCEPT ![p].pc = "subscribed"]
    /\ UNCHANGED <<phase, seed, subs, cut, sym, status, faults>>

reconcile_on_create(p) ==
    /\ tx[p].pc = "inserted"
    /\ sym[tx[p].row] \in subs \/ Admits(sym[tx[p].row])
    /\ subs' = subs \cup {sym[tx[p].row]}
    /\ cut' = cut \ {sym[tx[p].row]}
    /\ tx' = [tx EXCEPT ![p].pc = "subscribed"]
    /\ UNCHANGED <<phase, seed, sym, status, faults>>

CommitCreate(p) ==
    /\ tx[p].pc = "subscribed"
    /\ status' = [status EXCEPT ![tx[p].row] = "open"]
    /\ tx' = [tx EXCEPT ![p] = Idle]
    /\ UNCHANGED <<phase, seed, subs, cut, sym, faults>>

\* The provider refuses, or the broker or the database fails: rollback.  A
\* subscription made before stays.
RollbackCreate(p) ==
    /\ tx[p].pc \in {"inserted", "subscribed"}
    /\ \/ tx[p].pc = "inserted" /\ sym[tx[p].row] \notin subs /\ ~ Admits(sym[tx[p].row]) /\ UNCHANGED faults
       \/ faults < MAX_FAULTS /\ faults' = faults + 1
    /\ sym' = [sym EXCEPT ![tx[p].row] = None]
    /\ tx' = [tx EXCEPT ![p] = Idle]
    /\ UNCHANGED <<phase, seed, subs, cut, status>>

\* POST /trade-intents/{id}/cancel looks the id up in trade_intent_core only, and
\* finds it open ...
ReadForCancel(p, i) ==
    /\ i \in Intents
    /\ phase = "serving" /\ tx[p].pc = "idle"
    /\ status[i] = "open"
    /\ tx' = [tx EXCEPT ![p] = [pc |-> "cancelling", row |-> i]]
    /\ UNCHANGED <<phase, seed, subs, cut, sym, status, faults>>

\* ... then updates it by its id.
CommitCancel(p) ==
    /\ tx[p].pc = "cancelling"
    /\ status' = [status EXCEPT ![tx[p].row] = "closed"]
    /\ tx' = [tx EXCEPT ![p].pc = "cancelled"]
    /\ UNCHANGED <<phase, seed, subs, cut, sym, faults>>

\* reconcile_after_terminal_transition: the count is of the table of the
\* cancelled intent.
CountRemaining(p) ==
    /\ tx[p].pc = "cancelled"
    /\ tx' = IF sym[tx[p].row] \in active_or_scheduled_symbols(Intents)
             THEN [tx EXCEPT ![p] = Idle] ELSE [tx EXCEPT ![p].pc = "unsubscribing"]
    /\ UNCHANGED <<phase, seed, subs, cut, sym, status, faults>>

reconcile_on_terminal(p) ==
    /\ tx[p].pc = "unsubscribing"
    /\ subs' = subs \ {sym[tx[p].row]}
    /\ cut' = cut \cup {s \in {sym[tx[p].row]} : Needed(s)}
    /\ tx' = [tx EXCEPT ![p] = Idle]
    /\ UNCHANGED <<phase, seed, sym, status, faults>>

\* Trigger, expiry, completed plan or disabled account: nothing unsubscribes.
Close(i) ==
    /\ phase = "serving"
    /\ status[i] = "open"
    /\ status' = [status EXCEPT ![i] = "closed"]
    /\ UNCHANGED <<phase, seed, subs, cut, sym, tx, faults>>

-----------------------------------------------------------------------------
(* lifespan *)

\* provider.startup (a failed login leaves the process down), and the legacy
\* lifecycle, which may expire rows.
BeginLegacySeed ==
    /\ phase = "down"
    /\ phase' = "legacy"
    /\ \E E \in SUBSET {i \in Plans : status[i] = "open"} :
           /\ status' = [i \in Rows |-> IF i \in E THEN "closed" ELSE status[i]]
           /\ seed' = {sym[i] : i \in {j \in Plans : status[j] = "open"} \ E}
    /\ UNCHANGED <<subs, cut, sym, tx, faults>>

SeedOne ==
    /\ phase \in {"legacy", "core"}
    /\ \E s \in seed : /\ Admits(s)
                       /\ subs' = subs \cup {s}
                       /\ seed' = seed \ {s}
    /\ UNCHANGED <<phase, cut, sym, status, tx, faults>>

BeginCoreSeed ==
    /\ phase = "legacy" /\ seed = {}
    /\ phase' = "core"
    /\ \E E \in SUBSET {i \in Intents : status[i] = "open"} :
           /\ status' = [i \in Rows |-> IF i \in E THEN "closed" ELSE status[i]]
           /\ seed' = {sym[i] : i \in {j \in Intents : status[j] = "open"} \ E}
    /\ UNCHANGED <<subs, cut, sym, tx, faults>>

Serve ==
    /\ phase = "core" /\ seed = {}
    /\ phase' = "serving"
    /\ cut' = {}
    /\ UNCHANGED <<seed, subs, sym, status, tx, faults>>

\* What is left of a process that stops: the committed rows.
Stopped ==
    /\ phase' = "down"
    /\ seed' = {}
    /\ subs' = {}
    /\ sym' = [i \in Rows |-> IF status[i] = "absent" THEN None ELSE sym[i]]
    /\ tx' = [p \in Procs |-> Idle]
    /\ UNCHANGED <<cut, status>>

\* An error of subscribe leaves the lifespan and ends the process.
StartupAborts ==
    /\ phase \in {"legacy", "core"}
    /\ \/ \E s \in seed : ~ Admits(s) /\ UNCHANGED faults
       \/ seed # {} /\ faults < MAX_FAULTS /\ faults' = faults + 1
    /\ Stopped

\* provider.shutdown, or a crash.
Shutdown ==
    /\ phase = "serving"
    /\ faults < MAX_FAULTS /\ faults' = faults + 1
    /\ Stopped

Init ==
    /\ phase = "down" /\ seed = {} /\ subs = {} /\ cut = {} /\ faults = 0
    /\ sym = [i \in Rows |-> None]
    /\ status = [i \in Rows |-> "absent"]
    /\ tx = [p \in Procs |-> Idle]

Lifespan == BeginLegacySeed \/ SeedOne \/ BeginCoreSeed \/ Serve

Next ==
    \/ \E p \in Procs :
           \/ \E i \in Rows : ReadForCancel(p, i) \/ \E s \in Symbols : Insert(p, i, s)
           \/ reconcile_on_create(p) \/ CommitCreate(p) \/ RollbackCreate(p)
           \/ CommitCancel(p) \/ CountRemaining(p) \/ reconcile_on_terminal(p)
    \/ \E i \in Rows : Close(i)
    \/ Lifespan \/ StartupAborts \/ Shutdown

Spec == Init /\ [][Next]_vars

\* The container runtime restarts a stopped process, and a startup runs on.
FairSpec == Spec /\ WF_vars(Lifespan)

-----------------------------------------------------------------------------
\* Every open intent of either table is streamed while the process serves, as
\* the startup loop and reconcile_on_create intend; unless a cancellation has
\* unsubscribed its symbol while it was needed.
OpenIsStreamed ==
    phase = "serving" => active_or_scheduled_symbols(Rows) \subseteq subs \cup cut

\* What count_active_or_scheduled_for_symbol promises: no unsubscribe while an
\* open intent, here a TWAP plan, wants the symbol.
OpenPlanIsStreamed ==
    phase = "serving" => active_or_scheduled_symbols(Plans) \subseteq subs

\* The startup loop is not refused: what it has still to subscribe is allowed, and
\* together with what is open it fits the quota, although leftover subscriptions
\* fill it too; unless a cancellation has freed the place of a symbol in need.
SeedIsAdmitted ==
    cut = {} =>
        /\ Cardinality(subs \cup seed \cup active_or_scheduled_symbols(Rows)) <= MAX_SUBSCRIPTIONS
        /\ \A s \in seed : Admits(s)

\* What the lifespan says of its loop, without the proviso.
SeedIsAlwaysAdmitted == \A s \in seed : Admits(s)

\* A process that goes down serves again.
RestartServes == phase # "serving" ~> phase = "serving"

=============================================================================
