-------------------------------- MODULE Inbox --------------------------------
(***************************************************************************)
(* The inbox of one owner: notifications arrive from both tracks, a client   *)
(* walks the list page by page and marks notifications as read, from several *)
(* windows at once.  The list may be restricted to unread ones, whose set     *)
(* shrinks while it is walked.  created_at and read_at are the times at which *)
(* a transaction began, at most LAG ticks before its commit.                 *)
(***************************************************************************)
EXTENDS Naturals, FiniteSets

CONSTANTS
    Procs,             \* requests that mark as read at the same time
    MAX_NOTIFICATIONS, \* bound on the notifications
    UNREAD_ONLY,       \* the client's query
    PAGE_SIZE,
    LAG,               \* bound on the ticks a transaction lasts
    MAX_CLOCK,         \* bound on the clock
    None

Notifications == 1..MAX_NOTIFICATIONS

\* What an instance has to respect.
InboxAssumption ==
    /\ MAX_NOTIFICATIONS \in Nat /\ UNREAD_ONLY \in BOOLEAN
    /\ PAGE_SIZE \in Nat \ {0} /\ LAG \in Nat /\ MAX_CLOCK \in Nat
    /\ None \notin Nat /\ None \notin [created : Nat, read : Nat \cup {None}]

VARIABLES
    clock,
    inbox,    \* notifications: created_at, read_at
    tx,       \* per process: the notification, when it began, whether it was unread
    answered, \* per notification, the values of read_at its requests were answered
    walk      \* the client: cursor, times each was shown, those listed throughout

vars == <<clock, inbox, tx, answered, walk>>

NoWalk == [on |-> FALSE, cursor |-> None, shown |-> [n \in Notifications |-> 0], listed |-> {}]

Matching(s) == {n \in Notifications : s[n] # None /\ (UNREAD_ONLY => s[n].read = None)}

\* ORDER BY created_at DESC, id ASC.
Before(m, n) == inbox[m].created > inbox[n].created \/ (inbox[m].created = inbox[n].created /\ m < n)

\* The anchor is found although it does not match any more.
Keyset(anchor, n) == Before(anchor, n)

list_by_owner(cursor) ==
    LET rest == {n \in Matching(inbox) : cursor # None => Keyset(cursor, n)}
        page == {n \in rest : Cardinality({m \in rest : Before(m, n)}) < PAGE_SIZE}
    IN  [page |-> page,
         next |-> IF rest = page THEN None ELSE CHOOSE n \in page : \A m \in page \ {n} : Before(m, n)]

\* The first page, or the page after the cursor.
list_notifications ==
    LET answer == list_by_owner(walk.cursor)
        before == IF walk.on THEN walk ELSE [NoWalk EXCEPT !.on = TRUE, !.listed = Matching(inbox)]
    IN
    /\ walk.on => walk.cursor # None
    /\ walk' = [before EXCEPT !.cursor = answer.next,
                              !.shown = [n \in Notifications |-> IF n \in answer.page THEN @[n] + 1 ELSE @[n]]]
    /\ UNCHANGED <<clock, inbox, tx, answered>>

StartOver ==
    /\ walk.on
    /\ walk' = NoWalk
    /\ UNCHANGED <<clock, inbox, tx, answered>>

-----------------------------------------------------------------------------
Store(s) == inbox' = s /\ walk' = [walk EXCEPT !.listed = @ \cap Matching(s)]

\* A trigger commits its notification.
Notify(n) ==
    /\ inbox[n] = None
    /\ \E at \in {t \in 0..clock : t + LAG >= clock} : Store([inbox EXCEPT ![n] = [created |-> at, read |-> None]])
    /\ UNCHANGED <<clock, tx, answered>>

\* mark_read begins with an unlocked SELECT.
mark_notification_read(p, n) ==
    /\ tx[p] = None /\ inbox[n] # None
    /\ tx' = [tx EXCEPT ![p] = [id |-> n, at |-> clock, unread |-> inbox[n].read = None]]
    /\ UNCHANGED <<clock, inbox, answered, walk>>

\* Mutant: the UPDATE trusts the SELECT.
MarkAgain(n, at, unread) == IF unread THEN [inbox EXCEPT ![n].read = at] ELSE inbox

\* UPDATE ... WHERE read_at IS NULL, if the SELECT found it unread.
mark_read(n, at, unread) == IF unread /\ inbox[n].read = None THEN [inbox EXCEPT ![n].read = at] ELSE inbox

\* The command commits and answers with the row as it is then.
MarkNotificationRead(p) ==
    /\ tx[p] # None
    /\ Store(mark_read(tx[p].id, tx[p].at, tx[p].unread))
    /\ answered' = [answered EXCEPT ![tx[p].id] = @ \cup {inbox'[tx[p].id].read}]
    /\ tx' = [tx EXCEPT ![p] = None]
    /\ UNCHANGED clock

Rollback(p) ==
    /\ tx[p] # None
    /\ tx' = [tx EXCEPT ![p] = None]
    /\ UNCHANGED <<clock, inbox, answered, walk>>

Tick ==
    /\ clock < MAX_CLOCK
    /\ clock' = clock + 1
    /\ UNCHANGED <<inbox, tx, answered, walk>>

Init ==
    /\ clock = 0
    /\ inbox = [n \in Notifications |-> None]
    /\ tx = [p \in Procs |-> None]
    /\ answered = [n \in Notifications |-> {}]
    /\ walk = NoWalk

Next ==
    \/ \E n \in Notifications : Notify(n) \/ \E p \in Procs : mark_notification_read(p, n)
    \/ \E p \in Procs : MarkNotificationRead(p) \/ Rollback(p)
    \/ list_notifications \/ StartOver \/ Tick

Spec == Init /\ [][Next]_vars

-----------------------------------------------------------------------------
\* A walk that reached the last page showed every notification that was listed
\* from its first page on, also when the one the cursor names was read meanwhile.
NothingSkipped == walk.on /\ walk.cursor = None => \A n \in walk.listed : walk.shown[n] > 0

\* All requests that mark a notification as read are answered with one and the
\* same time, which mark_read never replaces.
ReadersAgree == \A n \in Notifications : Cardinality(answered[n]) <= 1

=============================================================================
