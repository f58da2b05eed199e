-------------------------------- MODULE Pages --------------------------------
(***************************************************************************)
(* GET /trade-intents: a client walks the list of an owner's intents page by *)
(* page while intents are created, closed and activated.  Two writers update *)
(* a row by its id some time after they read it, whatever its status is by   *)
(* then: the dispatcher, which writes the baselines of trailing stops, and   *)
(* cancel().  The cursor is the last row of the page before; its columns are *)
(* read again for every page.                                                *)
(* Timestamps are those of the beginning of a transaction, at most LAG ticks *)
(* before its commit.  Rows of other owners, which the query filters, are    *)
(* left out, and with them cursors that are not the owner's.                 *)
(***************************************************************************)
EXTENDS Naturals, FiniteSets

CONSTANTS
    MAX_INTENTS, \* bound on the intents
    Trailing,    \* those of them that are trailing stops
    Leaving,     \* those of them their owner may cancel
    Filter,      \* the statuses asked for
    Closings,    \* the statuses intents are closed with, cancellations apart
    PAGE_SIZE,
    LAG,         \* bound on the ticks a transaction lasts
    MAX_CLOCK,   \* bound on the clock
    None

CANCELLABLE_STATUSES == {"scheduled", "active"}
TERMINAL_STATUSES == {"triggered", "expired", "cancelled", "cancelled_by_account_disabled"}
VALID_STATUSES == CANCELLABLE_STATUSES \cup TERMINAL_STATUSES

Intents == 1..MAX_INTENTS

\* What an instance has to respect.
PagesAssumption ==
    /\ MAX_INTENTS \in Nat /\ Trailing \subseteq Intents /\ Leaving \subseteq Intents
    /\ Closings \subseteq {"triggered", "cancelled_by_account_disabled"}
    /\ PAGE_SIZE \in Nat \ {0} /\ LAG \in Nat /\ MAX_CLOCK \in Nat

VARIABLES
    clock,
    today,  \* the trading day; the days before it are over
    row,    \* trade_intent_core: status, trading_date, created_at, updated_at
    robot,  \* the dispatcher: the trailing stop it read and when it began
    caller, \* a cancellation: the intent it read and when it began
    walk    \* the client: cursor, times every intent was shown, and the history of the walk

vars == <<clock, today, row, robot, caller, walk>>

\* func.now() of a transaction that commits now.
Began == {t \in 0..clock : t + LAG >= clock}

\* listed are the intents that matched throughout the walk, moved those whose place
\* in the order changed meanwhile; astray once a cursor's own row was moved.
NoWalk ==
    [on |-> FALSE, cursor |-> None, shown |-> [i \in Intents |-> 0],
     listed |-> {}, moved |-> {}, astray |-> FALSE]

-----------------------------------------------------------------------------
(* The query *)

is_terminal_only == Filter \subseteq TERMINAL_STATUSES

Matching(r) == {i \in Intents : r[i] # None /\ r[i].status \in Filter}

\* ORDER BY updated_at DESC, id ASC, or trading_date ASC, created_at DESC, id ASC.
Before(r, i, j) ==
    IF is_terminal_only
    THEN r[i].updated > r[j].updated \/ (r[i].updated = r[j].updated /\ i < j)
    ELSE \/ r[i].date < r[j].date
         \/ r[i].date = r[j].date /\ r[i].created > r[j].created
         \/ r[i].date = r[j].date /\ r[i].created = r[j].created /\ i < j

\* Mutant: ties are not broken by the id.
NoTieBreak(r, anchor, i) ==
    IF is_terminal_only
    THEN r[i].updated < r[anchor].updated
    ELSE r[i].date > r[anchor].date \/ (r[i].date = r[anchor].date /\ r[i].created < r[anchor].created)

\* The keyset condition, on the columns the anchor has now.
Keyset(r, anchor, i) == Before(r, anchor, i)

\* Up to PAGE_SIZE rows, and the last of them if one more was found.
list_by_owner(r, cursor) ==
    LET rest == {i \in Matching(r) : cursor # None => Keyset(r, cursor, i)}
        page == {i \in rest : Cardinality({j \in rest : Before(r, j, i)}) < PAGE_SIZE}
    IN  [page |-> page,
         next |-> IF rest = page THEN None
                  ELSE CHOOSE i \in page : \A j \in page \ {i} : Before(r, j, i)]

\* _validate_statuses; an empty list asks for all of them.
validate_statuses == Filter # {} /\ Filter \subseteq VALID_STATUSES

-----------------------------------------------------------------------------
(* The writers *)

\* The rows that a write moves in the list: closed ones, ordered by their last change.
Moving(r) == {i \in Intents : is_terminal_only /\ row[i] # None /\ row[i].updated # r[i].updated}

Keeps(r) ==
    [walk EXCEPT !.listed = @ \cap Matching(r),
                 !.moved = @ \cup (walk.listed \cap Moving(r)),
                 !.astray = @ \/ walk.cursor \in Moving(r)]

Write(r) == row' = r /\ walk' = Keeps(r)

Create(i) ==
    /\ row[i] = None
    /\ \E at \in Began, date \in {today, today + 1}, status \in CANCELLABLE_STATUSES :
           /\ status = "active" => date = today
           /\ Write([row EXCEPT ![i] = [status |-> status, date |-> date, created |-> at, updated |-> at]])
    /\ UNCHANGED <<clock, today, robot, caller>>

\* A trigger or a disabled owner; both updates ask for the status.
Close(i) ==
    /\ row[i] # None /\ row[i].status \in CANCELLABLE_STATUSES
    /\ \E at \in Began, status \in Closings :
           /\ status = "triggered" => row[i].status = "active"
           /\ Write([row EXCEPT ![i].status = status, ![i].updated = at])
    /\ UNCHANGED <<clock, today, robot, caller>>

\* The dispatcher lists the active intents of a symbol ...
ListActive(i) ==
    /\ robot = None
    /\ i \in Trailing /\ row[i] # None /\ row[i].status = "active"
    /\ robot' = [intent |-> i, at |-> clock]
    /\ UNCHANGED <<clock, today, row, caller, walk>>

\* ... and writes the baseline, whatever the status is by then.
system_update_trailing_baseline ==
    /\ robot # None
    /\ Write([row EXCEPT ![robot.intent].updated = robot.at])
    /\ robot' = None
    /\ UNCHANGED <<clock, today, caller>>

\* No new baseline, or the transaction failed.
DispatchEnds ==
    /\ robot # None
    /\ robot' = None
    /\ UNCHANGED <<clock, today, row, caller, walk>>

\* cancel() reads an intent that may be cancelled ...
CancelReads(i) ==
    /\ caller = None
    /\ i \in Leaving /\ row[i] # None /\ row[i].status \in CANCELLABLE_STATUSES
    /\ caller' = [intent |-> i, at |-> clock]
    /\ UNCHANGED <<clock, today, row, robot, walk>>

\* ... and updates it by its id, whatever the status is by then; or its commit fails.
CancelWrites ==
    /\ caller # None
    /\ \/ Write([row EXCEPT ![caller.intent].status = "cancelled", ![caller.intent].updated = caller.at])
       \/ UNCHANGED <<row, walk>>
    /\ caller' = None
    /\ UNCHANGED <<clock, today, robot>>

\* IntentLifecycleCommand.run in a phase of the day.
Lifecycle(phase) ==
    LET over(i) == row[i].date < today \/ (row[i].date = today /\ phase = "after_close") IN
    [i \in Intents |->
        IF row[i] = None THEN None
        ELSE IF row[i].status \in CANCELLABLE_STATUSES /\ over(i)
        THEN [row[i] EXCEPT !.status = "expired", !.updated = clock]
        ELSE IF row[i].status = "scheduled" /\ row[i].date = today /\ phase = "regular_session"
        THEN [row[i] EXCEPT !.status = "active", !.updated = clock]
        ELSE row[i]]

-----------------------------------------------------------------------------
(* The client *)

\* The first page, or the page after the cursor.
list_intents ==
    \E phase \in {"before_open", "regular_session", "after_close"} :
        LET r == Lifecycle(phase)
            answer == list_by_owner(r, walk.cursor)
            before == IF walk.on THEN Keeps(r) ELSE [NoWalk EXCEPT !.on = TRUE, !.listed = Matching(r)]
        IN
        /\ validate_statuses
        /\ walk.on => walk.cursor # None
        /\ row' = r
        /\ walk' = [before EXCEPT !.cursor = answer.next,
                                  !.shown = [i \in Intents |-> IF i \in answer.page THEN @[i] + 1 ELSE @[i]]]
        /\ UNCHANGED <<clock, today, robot, caller>>

\* After the last page the client may begin again; it may also give up.
StartOver ==
    /\ walk.on
    /\ walk' = NoWalk
    /\ UNCHANGED <<clock, today, row, robot, caller>>

Tick ==
    /\ clock < MAX_CLOCK
    /\ clock' = clock + 1
    /\ today' \in {today, today + 1}
    /\ UNCHANGED <<row, robot, caller, walk>>

Init ==
    /\ clock = 0 /\ today = 0
    /\ row = [i \in Intents |-> None]
    /\ robot = None /\ caller = None
    /\ walk = NoWalk

Next ==
    \/ \E i \in Intents : Create(i) \/ Close(i) \/ ListActive(i) \/ CancelReads(i)
    \/ system_update_trailing_baseline \/ DispatchEnds \/ CancelWrites
    \/ list_intents \/ StartOver \/ Tick

Spec == Init /\ [][Next]_vars

-----------------------------------------------------------------------------
\* A walk that reached the last page showed every intent that was listed from its
\* first page on, and kept its place, whatever was created and closed meanwhile;
\* unless the row of one of its cursors was moved by a late write.
NothingSkipped ==
    walk.on /\ walk.cursor = None /\ ~walk.astray =>
        \A i \in walk.listed \ walk.moved : walk.shown[i] > 0

\* Under the same provisos no intent is shown twice by one walk.
NothingRepeated == ~walk.astray => \A i \in walk.listed \ walk.moved : walk.shown[i] <= 1

\* What the list is meant to do without provisos.  A baseline or a cancellation
\* written after the intent was closed moves it, and the walk misses it or others.
EverythingShown == walk.on /\ walk.cursor = None => \A i \in walk.listed : walk.shown[i] > 0

=============================================================================
