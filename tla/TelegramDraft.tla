---------------------------- MODULE TelegramDraft ----------------------------
(***************************************************************************)
(* The Telegram conversation: text messages are classified by a language    *)
(* model into clarifications and drafts, kept in telegram_intent_interactions *)
(* and shown in a bot message whose buttons confirm or cancel; a            *)
(* confirmation creates an intent of the core track.  One chat, one active  *)
(* owner.  The webhook of a message holds the row lock of the open          *)
(* interaction from its first read to its commit; the confirmation loses    *)
(* it when the creation command commits.                                    *)
(***************************************************************************)
EXTENDS Naturals, Sequences, FiniteSets

CONSTANTS
    Procs,        \* webhook requests served at the same time
    Drafts,       \* ids of interactions
    Capabilities, \* subset of limit_buy, limit_sell, market_buy, market_sell
    Symbols, Quantities, Prices, \* field values
    MAX_MESSAGES, \* bound on the messages the bot sends
    COMMIT_FAILS, \* whether the commit after a delivered reply may fail
    MAX_FAULTS,   \* bound on failures: of the bot, of a commit, of the creation
    None

\* What an instance has to respect.
TelegramAssumption == MAX_MESSAGES \in Nat /\ MAX_FAULTS \in Nat /\ COMMIT_FAILS \in BOOLEAN

VARIABLES
    row,     \* interactions: status, kind, capability, payload, bot message, freshness
    shown,   \* the bot's messages: interaction, payload, whether "confirm" is there; None without buttons
    presses, \* button presses, which Telegram may deliver late and repeatedly
    made,    \* per interaction, the intents created: payload, and what was shown
    tx,      \* per thread, the webhook it serves
    faults

vars == <<row, shown, presses, made, tx, faults>>

MARKET_CAPABILITIES == {"market_buy", "market_sell"}
LIMIT_CAPABILITIES == {"limit_buy", "limit_sell"}

Idle == [pc |-> "idle", draft |-> None, pending |-> FALSE, stale |-> None, new |-> None, press |-> None]

\* find_pending_for_chat: the unique index admits one open interaction.
find_pending_for_chat == {d \in Drafts : row[d] # None /\ row[d].status \in {"pending", "confirming"}}
Locked(p, d) ==
    \E q \in Procs \ {p} : tx[q].pc \in {"deciding", "commit", "creating"} /\ d \in {tx[q].draft, tx[q].stale}
Inserting(p) == \E q \in Procs \ {p} : tx[q].pc = "commit" /\ row[tx[q].draft] = None
\* n calls of the bot, commits or commands fail.
Fails(n) == faults + n <= MAX_FAULTS /\ faults' = faults + n

-----------------------------------------------------------------------------
(* The classifier *)

Required(c) == {"symbol", "quantityLots"} \cup (IF c \in LIMIT_CAPABILITIES THEN {"targetPrice"} ELSE {})
Supplied(f) == {x \in DOMAIN f : f[x] # None}

FieldValues ==
    [symbol : Symbols \cup {None}, quantityLots : Quantities \cup {None}, targetPrice : Prices \cup {None}]

\* _DecisionPayload._validate_shape, for the decisions about an intent.
ValidShape(d) ==
    /\ (d.decision = "draft_intent") <=> (Required(d.capability) \subseteq Supplied(d.fields))
    /\ d.capability \in MARKET_CAPABILITIES => d.fields.targetPrice = None

\* The answers of the model that _parse_response accepts; every other one is an
\* error, which changes nothing, as do "unsupported" and an "ambiguous" answer
\* without an open interaction.
Decisions ==
    {d \in [decision : {"draft_intent", "needs_clarification"}, capability : Capabilities, fields : FieldValues] :
        ValidShape(d)}

-----------------------------------------------------------------------------
(* handle_message *)

is_different_request(r, d) ==
    \/ d.capability # r.capability
    \/ /\ r.payload.symbol # None /\ d.fields.symbol # None
       /\ r.payload.symbol # d.fields.symbol
    \/ /\ r.kind = "draft"
       /\ \/ d.decision # "draft_intent"
          \/ d.fields.quantityLots # None /\ d.fields.quantityLots # r.payload.quantityLots
          \/ d.fields.targetPrice # None /\ d.fields.targetPrice # r.payload.targetPrice

NoFields == [symbol |-> None, quantityLots |-> None, targetPrice |-> None]

\* The new values over the previous ones; a market request drops the price.
payload_from_decision(d, previous) ==
    [x \in DOMAIN NoFields |->
        IF d.fields[x] # None THEN d.fields[x]
        ELSE IF x = "targetPrice" /\ d.capability \in MARKET_CAPABILITIES THEN None
        ELSE previous[x]]

\* find_pending_for_chat FOR UPDATE; without an open interaction nothing is locked.
ReceiveMessage(p) ==
    /\ tx[p].pc = "idle"
    /\ \/ /\ find_pending_for_chat = {}
          /\ tx' = [tx EXCEPT ![p] = [Idle EXCEPT !.pc = "deciding"]]
       \/ \E d \in find_pending_for_chat :
              /\ ~ Locked(p, d)
              /\ row[d].status = "pending"
              /\ tx' = [tx EXCEPT ![p] =
                     IF row[d].fresh THEN [Idle EXCEPT !.pc = "deciding", !.draft = d, !.pending = TRUE]
                     ELSE [Idle EXCEPT !.pc = "deciding", !.stale = d]]
    /\ UNCHANGED <<row, shown, presses, made, faults>>

\* The text names the values; an interaction's message also has its buttons.
confirmation_text(r) == r.payload
Content(d, r) == [draft |-> d, payload |-> confirmation_text(r), confirm |-> r.kind = "draft"]

\* send_message: a new message, its id attached to the interaction.
send_message(c) == Len(shown) < MAX_MESSAGES /\ shown' = Append(shown, c)
attach_bot_message_id(r) == [r EXCEPT !.msg = Len(shown) + 1]
edit_message_text(m, c) == shown' = [shown EXCEPT ![m] = c]

\* _deliver_message_reply: edit the known message, else send one; either may
\* fail.  The interaction is flushed, not committed.
deliver_message_reply(p, d, r, c) ==
    LET edits == IF r.msg = None THEN 0 ELSE 1
        Written(x) == tx' = [tx EXCEPT ![p].pc = "commit", ![p].draft = d, ![p].new = x]
    IN  /\ \/ r.msg # None /\ edit_message_text(r.msg, c) /\ Written(r) /\ UNCHANGED faults
           \/ send_message(c) /\ Written(attach_bot_message_id(r)) /\ Fails(edits)
           \/ UNCHANGED shown /\ Written(r) /\ Fails(edits + 1)
        /\ UNCHANGED <<row, presses, made>>

\* A confirmation is under way: its message loses the buttons.
MessageWhileConfirming(p) ==
    /\ tx[p].pc = "idle"
    /\ \E d \in find_pending_for_chat :
           /\ ~ Locked(p, d) /\ row[d].status = "confirming"
           /\ deliver_message_reply(p, d, row[d], None)

\* A different request or an ambiguous one, which always is possible: the open
\* interaction is shown again.
current_draft_reply(p) ==
    /\ tx[p].pc = "deciding" /\ tx[p].pending
    /\ LET d == tx[p].draft IN deliver_message_reply(p, d, row[d], Content(d, row[d]))

Kind(x) == IF x.decision = "draft_intent" THEN "draft" ELSE "clarification"

update_pending(r, x) ==
    [r EXCEPT !.kind = Kind(x), !.payload = payload_from_decision(x, r.payload), !.fresh = TRUE]

create(x) ==
    [status |-> "pending", kind |-> Kind(x), capability |-> x.capability,
     payload |-> payload_from_decision(x, NoFields), msg |-> None, fresh |-> TRUE]

\* _save_interaction on the open interaction ...
SaveOpen(p) ==
    /\ tx[p].pc = "deciding" /\ tx[p].pending
    /\ \E x \in Decisions :
           LET d == tx[p].draft
               r == update_pending(row[d], x)
           IN  ~ is_different_request(row[d], x) /\ deliver_message_reply(p, d, r, Content(d, r))

\* ... or on a new one, unless the unique index refuses it.
SaveNew(p) ==
    /\ tx[p].pc = "deciding" /\ ~ tx[p].pending
    /\ find_pending_for_chat \subseteq {tx[p].stale} /\ ~ Inserting(p)
    /\ \E d \in Drafts, x \in Decisions :
           /\ row[d] = None
           /\ \A q \in Procs \ {p} : tx[q].draft # d
           /\ deliver_message_reply(p, d, create(x), Content(d, create(x)))

\* mark_status, on a pending interaction only.
mark_status(d, status) ==
    IF row[d].status = "pending" THEN [row EXCEPT ![d].status = status] ELSE row

Expiry(p) == IF tx[p].stale = None THEN row ELSE mark_status(tx[p].stale, "expired")

\* The commit: the interaction of the reply, and the expiry of a stale one.
CommitMessage(p) ==
    /\ tx[p].pc = "commit"
    /\ row' = [Expiry(p) EXCEPT ![tx[p].draft] = tx[p].new]
    /\ tx' = [tx EXCEPT ![p] = Idle]
    /\ UNCHANGED <<shown, presses, made, faults>>

CommitExpiry(p) ==
    /\ row' = Expiry(p)
    /\ tx' = [tx EXCEPT ![p] = Idle]
    /\ UNCHANGED <<shown, presses, made, faults>>

\* Ordinary conversation or an error of the classifier: a plain message at most.
NoInteraction(p) == tx[p].pc = "deciding" /\ CommitExpiry(p)

\* _validate_decision refuses a complete draft: unknown symbol or illegal price.
validate_decision(p) ==
    /\ tx[p].pc = "deciding"
    /\ \E x \in Decisions :
           /\ x.decision = "draft_intent"
           /\ tx[p].pending => ~ is_different_request(row[tx[p].draft], x)
    /\ CommitExpiry(p)

-----------------------------------------------------------------------------
(* handle_callback *)

\* A member of the chat presses a button.
Press(m, a) ==
    /\ shown[m] # None
    /\ a = "confirm" => shown[m].confirm
    /\ presses' = presses \cup {[msg |-> m, action |-> a, draft |-> shown[m].draft, saw |-> shown[m].payload]}
    /\ UNCHANGED <<row, shown, made, tx, faults>>

\* find_by_id FOR UPDATE, and the message id of the press is the row's.
Found(p, b) ==
    /\ tx[p].pc = "idle"
    /\ row[b.draft] # None /\ ~ Locked(p, b.draft)
    /\ row[b.draft].msg = b.msg

\* edit_message_text after the commit takes the buttons away, or fails.
edit_callback_message(m) ==
    \/ edit_message_text(m, None) /\ UNCHANGED faults
    \/ UNCHANGED shown /\ Fails(1)

\* _create_input_from_payload accepts the payload.
create_input_from_payload(r) ==
    /\ Required(r.capability) \subseteq Supplied(r.payload)
    /\ r.capability \in MARKET_CAPABILITIES => r.payload.targetPrice = None

\* Never committed, not pending any more, or not to be confirmed: only the
\* message changes.
AnswerPress(p, b) ==
    /\ \/ tx[p].pc = "idle" /\ row[b.draft] = None
       \/ Found(p, b) /\ row[b.draft].status # "pending"
       \/ /\ Found(p, b) /\ row[b.draft].fresh /\ b.action = "confirm"
          /\ row[b.draft].kind # "draft" \/ ~ create_input_from_payload(row[b.draft])
    /\ edit_callback_message(b.msg)
    /\ UNCHANGED <<row, presses, made, tx>>

\* Expired, or cancelled by its button.
ClosePressed(p, b) ==
    /\ Found(p, b)
    /\ row[b.draft].status = "pending"
    /\ ~ row[b.draft].fresh \/ b.action = "cancel"
    /\ row' = mark_status(b.draft, IF row[b.draft].fresh THEN "cancelled" ELSE "expired")
    /\ edit_callback_message(b.msg)
    /\ UNCHANGED <<presses, made, tx>>

\* Mutant: the confirmation relies on the row lock alone.
ClaimNothing == "pending"

\* The status claim_confirming writes, uncommitted until the command commits.
claim_confirming == "confirming"

BeginConfirm(p, b) ==
    /\ Found(p, b)
    /\ row[b.draft].status = "pending" /\ row[b.draft].fresh
    /\ b.action = "confirm" /\ row[b.draft].kind = "draft"
    /\ create_input_from_payload(row[b.draft])
    /\ tx' = [tx EXCEPT ![p] = [Idle EXCEPT !.pc = "creating", !.draft = b.draft, !.press = b]]
    /\ UNCHANGED <<row, shown, presses, made, faults>>

\* CreateTradeIntentCommand commits the intent and with it the claim; reading
\* the intent back may fail, and then nothing marks the interaction.
CreateCommits(p) ==
    LET d == tx[p].draft IN
    /\ tx[p].pc = "creating"
    /\ made' = [made EXCEPT ![d] = Append(@, [payload |-> row[d].payload, saw |-> tx[p].press.saw])]
    /\ row' = [row EXCEPT ![d].status = claim_confirming]
    /\ \/ tx' = [tx EXCEPT ![p].pc = "created"] /\ UNCHANGED faults
       \/ tx' = [tx EXCEPT ![p] = Idle] /\ Fails(1)
    /\ UNCHANGED <<shown, presses>>

\* The command rolls back, and with it the claim: an error leaves the
\* interaction pending, a duplicate is left to be closed.
CreateFails(p) ==
    /\ tx[p].pc = "creating"
    /\ \/ tx' = [tx EXCEPT ![p].pc = "duplicate"] /\ UNCHANGED <<shown, faults>>
       \/ /\ tx' = [tx EXCEPT ![p] = Idle] /\ Fails(1)
          /\ edit_message_text(tx[p].press.msg, None)
    /\ UNCHANGED <<row, presses, made>>

CloseDuplicate(p) ==
    LET d == tx[p].draft IN
    /\ tx[p].pc = "duplicate" /\ ~ Locked(p, d)
    /\ row' = mark_status(d, "cancelled")
    /\ tx' = [tx EXCEPT ![p] = Idle]
    /\ edit_callback_message(tx[p].press.msg)
    /\ UNCHANGED <<presses, made>>

\* Mutant: the final update looks for a pending interaction.
MarkPendingConfirmed(d) ==
    IF row[d].status = "pending" THEN [row EXCEPT ![d].status = "confirmed"] ELSE row

mark_confirmed(d) ==
    IF row[d].status = "confirming" THEN [row EXCEPT ![d].status = "confirmed"] ELSE row

FinishConfirm(p) ==
    /\ tx[p].pc = "created" /\ ~ Locked(p, tx[p].draft)
    /\ row' = mark_confirmed(tx[p].draft)
    /\ tx' = [tx EXCEPT ![p] = Idle]
    /\ edit_callback_message(tx[p].press.msg)
    /\ UNCHANGED <<presses, made>>

-----------------------------------------------------------------------------
\* INTERACTION_TTL passes for the open interaction, not between a reply and its
\* commit.
TimePasses ==
    /\ \A p \in Procs : tx[p].pc # "commit"
    /\ \E d \in Drafts : row[d] # None /\ row[d].status = "pending" /\ row[d].fresh
    /\ row' = [d \in Drafts |-> IF row[d] # None /\ row[d].status = "pending" THEN [row[d] EXCEPT !.fresh = FALSE] ELSE row[d]]
    /\ UNCHANGED <<shown, presses, made, tx, faults>>

\* An error or a stop rolls the open transaction of a webhook back; what the bot
\* sent stays.
Rollback(p) ==
    /\ tx[p].pc # "idle"
    /\ tx[p].pc = "commit" => COMMIT_FAILS
    /\ Fails(1)
    /\ tx' = [tx EXCEPT ![p] = Idle]
    /\ UNCHANGED <<row, shown, presses, made>>

Init ==
    /\ row = [d \in Drafts |-> None]
    /\ shown = <<>>
    /\ presses = {}
    /\ made = [d \in Drafts |-> <<>>]
    /\ tx = [p \in Procs |-> Idle]
    /\ faults = 0

Confirmation(p) == CreateCommits(p) \/ CreateFails(p) \/ CloseDuplicate(p) \/ FinishConfirm(p)

Next ==
    \/ \E p \in Procs :
           \/ ReceiveMessage(p) \/ MessageWhileConfirming(p) \/ current_draft_reply(p) \/ SaveOpen(p)
           \/ SaveNew(p) \/ CommitMessage(p) \/ NoInteraction(p) \/ validate_decision(p)
           \/ \E b \in presses : AnswerPress(p, b) \/ ClosePressed(p, b) \/ BeginConfirm(p, b)
           \/ Confirmation(p) \/ Rollback(p)
    \/ \E m \in DOMAIN shown, a \in {"confirm", "cancel"} : Press(m, a)
    \/ TimePasses

Spec == Init /\ [][Next]_vars

\* A webhook request that runs goes on running, and the database grants a row
\* lock in the order of the requests for it: the last update of a confirmation
\* is not overtaken for ever by messages that lock the same row.
FairSpec ==
    /\ Spec
    /\ \A p \in Procs : SF_vars(Confirmation(p)) /\ WF_vars(CommitMessage(p)) /\ WF_vars(NoInteraction(p))

-----------------------------------------------------------------------------
\* A confirmed intent is the one the pressed message showed, although messages
\* are edited before the commit and presses are delivered late.
CreatedAsShown ==
    \A d \in Drafts : \A n \in 1..Len(made[d]) : made[d][n].payload = made[d][n].saw

\* Double presses, repeated deliveries, failures of the command and rollbacks
\* create at most one intent per interaction.
OneIntentPerDraft == \A d \in Drafts : Len(made[d]) <= 1

\* A draft with a confirm button holds every value the creation needs, however
\* many clarifications it was merged from.
DraftIsConfirmable ==
    \A d \in Drafts : row[d] # None /\ row[d].kind = "draft" => create_input_from_payload(row[d])

\* A claimed confirmation is resolved.
Is(d, st) == row[d] # None /\ row[d].status = st
ConfirmingIsResolved == \A d \in Drafts : Is(d, "confirming") ~> Is(d, "confirmed")

\* A failed confirmation leaves the interaction pending or closed, so that the
\* user can retry: none is "confirming" while no webhook works on it.
FailedCreateKeepsPending ==
    \A d \in Drafts : row[d] # None /\ row[d].status = "confirming" =>
        \E p \in Procs : tx[p].pc = "created" /\ tx[p].draft = d

=============================================================================
