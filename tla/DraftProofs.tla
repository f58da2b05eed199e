----------------------------- MODULE DraftProofs -----------------------------
(***************************************************************************)
(* Proofs about module TelegramDraft: whatever messages, presses, failures  *)
(* and rollbacks interleave, an interaction creates at most one intent, a   *)
(* draft that can be confirmed is complete, and the intent is the one the   *)
(* pressed message showed as long as a commit after a delivered reply does  *)
(* not fail.                                                                *)
(***************************************************************************)
EXTENDS TelegramDraft, TLAPS

-----------------------------------------------------------------------------
(* Shapes of the values *)

IsFun(f, S) == f = [x \in S |-> f[x]]
IsSeq(s) == \E S : s \in Seq(S)
Update(f, a, v) == [f EXCEPT ![a] = v]
Extended(s, e) == Append(s, e)
SetStatus(r, s) == [r EXCEPT !.status = s]
Aged(r) == [r EXCEPT !.fresh = FALSE]
Answered(r, k, f) == [r EXCEPT !.kind = k, !.payload = f, !.fresh = TRUE]
Moved(w, c) == [w EXCEPT !.pc = c]
Opened(w, d) == [w EXCEPT !.pc = "deciding", !.draft = d, !.pending = TRUE]
Outdated(w, d) == [w EXCEPT !.pc = "deciding", !.stale = d]
Creating(w, d, b) == [w EXCEPT !.pc = "creating", !.draft = d, !.press = b]
Replied(w, d, x) == [w EXCEPT !.pc = "commit", !.draft = d, !.new = x]

IsRow(r) ==
    r = [status |-> r.status, kind |-> r.kind, capability |-> r.capability,
         payload |-> r.payload, msg |-> r.msg, fresh |-> r.fresh]

IsWebhook(w) ==
    w = [pc |-> w.pc, draft |-> w.draft, pending |-> w.pending,
         stale |-> w.stale, new |-> w.new, press |-> w.press]

\* None is neither the id of an interaction nor an interaction.
NoneAssumption == None \notin Drafts /\ ~ IsRow(None)

-----------------------------------------------------------------------------
(* The invariant *)

\* The webhook holds the row lock of interaction d, as Locked sees it.
Holds(p, d) == tx[p].pc \in {"deciding", "commit", "creating"} /\ d \in {tx[p].draft, tx[p].stale}

\* A reply may complete a clarification; a draft keeps its values, and only the
\* transitions of the confirmation leave "confirming" and "confirmed".
Claimed == {"confirming", "confirmed"}
KeepsDraft(x, r) == r.kind = "draft" => x.kind = "draft" /\ x.payload = r.payload
Follows(x, r) == KeepsDraft(x, r) /\ (r.status \in Claimed => x.status \in Claimed)
FieldNames == {"symbol", "quantityLots", "targetPrice"}
Sound(r) == IsFun(r.payload, FieldNames) /\ (r.kind = "draft" => create_input_from_payload(r))

\* What a webhook knows of the rows it works on while it holds their locks.
WebhookOK(p) ==
    /\ tx[p].pc = "idle" => tx[p] = Idle
    /\ tx[p].stale # None => tx[p].stale \in Drafts /\ row[tx[p].stale] # None
    /\ tx[p].pc = "deciding" =>
           IF tx[p].pending THEN tx[p].draft \in Drafts /\ row[tx[p].draft] # None /\ tx[p].stale = None
           ELSE tx[p].draft = None
    /\ tx[p].pc = "commit" =>
           /\ tx[p].draft \in Drafts /\ tx[p].stale # tx[p].draft
           /\ IsRow(tx[p].new) /\ Sound(tx[p].new)
           /\ row[tx[p].draft] # None =>
                  KeepsDraft(tx[p].new, row[tx[p].draft]) /\ tx[p].new.status = row[tx[p].draft].status
    /\ tx[p].pc \in {"creating", "created", "duplicate"} => tx[p].draft \in Drafts /\ row[tx[p].draft] # None
    /\ tx[p].pc = "creating" =>
           /\ row[tx[p].draft].status = "pending" /\ row[tx[p].draft].kind = "draft"
           /\ tx[p].press \in presses /\ tx[p].press.action = "confirm" /\ tx[p].press.draft = tx[p].draft

\* No two webhooks hold the lock of one interaction.
LocksOK == \A p \in Procs, q \in Procs : \A d \in Drafts : Holds(p, d) /\ Holds(q, d) => p = q

\* A draft holds every value the creation needs.
RowsOK == IsFun(row, Drafts) /\ \A d \in Drafts : row[d] # None => IsRow(row[d]) /\ Sound(row[d])

\* An interaction that created an intent was claimed, and stays so.
MadeOK ==
    /\ IsFun(made, Drafts)
    /\ \A d \in Drafts :
           made[d] = <<>> \/ (row[d] # None /\ row[d].status \in Claimed /\ \E e : made[d] = <<e>>)

\* Messages and presses belong to interactions.
ShownOK ==
    /\ IsSeq(shown)
    /\ \A m \in 1..Len(shown) : shown[m] # None => shown[m].draft \in Drafts
    /\ \A b \in presses : b.draft \in Drafts

WebhooksOK == IsFun(tx, Procs) /\ \A p \in Procs : IsWebhook(tx[p]) /\ WebhookOK(p)

DraftInvariant == WebhooksOK /\ LocksOK /\ RowsOK /\ MadeOK /\ ShownOK

\* The values v of a message with a confirm button are those of interaction d, or
\* of the reply about to be committed to it.
Backed(d, v) ==
    \/ row[d] # None /\ row[d].kind = "draft" /\ row[d].payload = v
    \/ \E p \in Procs : /\ tx[p].pc = "commit" /\ tx[p].draft = d
                        /\ tx[p].new.kind = "draft" /\ tx[p].new.payload = v

\* What can be confirmed, now or by a press under way, is what was shown.
ShownInvariant ==
    /\ \A m \in 1..Len(shown) : shown[m] # None /\ shown[m].confirm => Backed(shown[m].draft, shown[m].payload)
    /\ \A b \in presses : b.action = "confirm" => Backed(b.draft, b.saw)
    /\ CreatedAsShown

-----------------------------------------------------------------------------
(* What a step of one webhook does *)

\* f is what p may make of the rows: it writes only rows no other webhook holds.
Writes(p, f) ==
    /\ IsFun(f, Drafts)
    /\ \A d \in Drafts : f[d] # row[d] =>
           /\ ~ Locked(p, d)
           /\ IsRow(f[d]) /\ Sound(f[d])
           /\ row[d] # None => Follows(f[d], row[d])

\* w is the webhook p goes on as; the rows it holds no other webhook holds.
Becomes(p, w) ==
    /\ tx' = Update(tx, p, w) /\ IsWebhook(w)
    /\ \A d \in Drafts : Holds(p, d)' => ~ Locked(p, d)

\* The messages of the bot change only by a reply of p, not committed yet, or by
\* losing their buttons.
Sends(p) ==
    /\ IsSeq(shown')
    /\ \A m \in 1..Len(shown') :
           \/ shown'[m] = None
           \/ m \in 1..Len(shown) /\ shown'[m] = shown[m]
           \/ /\ shown'[m].draft \in Drafts
              /\ shown'[m].confirm =>
                     /\ tx'[p].pc = "commit" /\ tx'[p].draft = shown'[m].draft
                     /\ tx'[p].new.kind = "draft" /\ tx'[p].new.payload = shown'[m].payload

\* An intent is created from the row p holds for a confirmation.
Creates(p) ==
    /\ tx[p].pc = "creating" /\ row'[tx[p].draft].status \in Claimed
    /\ made' = [made EXCEPT ![tx[p].draft] =
                    Append(made[tx[p].draft], [payload |-> row[tx[p].draft].payload, saw |-> tx[p].press.saw])]

WebhookStep(p) ==
    /\ Writes(p, row')
    /\ \E w : Becomes(p, w)
    /\ WebhookOK(p)'
    /\ Sends(p)
    /\ presses' = presses
    /\ made' = made \/ Creates(p)
    /\ tx[p].pc = "commit" => COMMIT_FAILS \/ row'[tx[p].draft] = tx[p].new

-----------------------------------------------------------------------------
(* Lemmas about the values *)

\* Updating one entry of a function sets it and keeps the others.
LEMMA FunUpdate ==
    ASSUME NEW S, NEW f, IsFun(f, S), NEW a \in S, NEW v
    PROVE  /\ IsFun(Update(f, a, v), S) /\ Update(f, a, v)[a] = v
           /\ \A x \in S : x # a => Update(f, a, v)[x] = f[x]
BY Zenon DEF IsFun, Update

\* An extended sequence has the entries it had, and the new one.
LEMMA SeqAppend ==
    ASSUME NEW s, IsSeq(s), NEW e, NEW t, t = Extended(s, e)
    PROVE  IsSeq(t) /\ \A m \in 1..Len(t) : t[m] = e \/ (m \in 1..Len(s) /\ t[m] = s[m])
<1>1. PICK S : s \in Seq(S)
  BY DEF IsSeq
<1>2. PICK T : T = S \cup {e}
  OBVIOUS
<1>3. s \in Seq(T) /\ e \in T
  BY <1>1, <1>2
<1>4. t \in Seq(T) /\ \A m \in 1..Len(t) : t[m] = e \/ (m \in 1..Len(s) /\ t[m] = s[m])
  BY <1>3 DEF Extended
<1> QED
  BY <1>4 DEF IsSeq

\* A function on 1..n is a sequence of length n.
LEMMA SeqMade ==
    ASSUME NEW T, NEW n \in Nat, NEW f \in [1..n -> T] PROVE f \in Seq(T) /\ Len(f) = n
<1>1. f \in Seq(T)
  OBVIOUS
<1>2. DOMAIN f = 1..Len(f) /\ Len(f) \in Nat
  BY <1>1
<1> QED
  BY <1>1, <1>2

\* A sequence with one entry replaced has the entries it had, and the new one.
LEMMA SeqEdit ==
    ASSUME NEW s, IsSeq(s), NEW k, NEW e, NEW t, t = Update(s, k, e)
    PROVE  IsSeq(t) /\ \A m \in 1..Len(t) : t[m] = e \/ (m \in 1..Len(s) /\ t[m] = s[m])
<1>1. PICK S : s \in Seq(S)
  BY DEF IsSeq
<1>2. PICK T : T = S \cup {e}
  OBVIOUS
<1>3. s \in Seq(T) /\ e \in T
  BY <1>1, <1>2
<1>4. PICK n \in Nat : n = Len(s) /\ s \in [1..n -> T]
  BY <1>3
<1>5. t \in [1..n -> T] /\ \A m \in 1..n : t[m] = e \/ t[m] = s[m]
  BY <1>3, <1>4, Zenon DEF Update
<1>6. t \in Seq(T) /\ Len(t) = n
  BY <1>5, SeqMade
<1> QED
  BY <1>4, <1>5, <1>6, Zenon DEF IsSeq

\* The positions of a sequence.
LEMMA SeqDomain == ASSUME NEW s, IsSeq(s) PROVE DOMAIN s = 1..Len(s)
<1>1. PICK S : s \in Seq(S)
  BY DEF IsSeq
<1> QED
  BY <1>1

\* A sequence of one entry.
LEMMA SeqOne ==
    ASSUME NEW e
    PROVE  Append(<<>>, e) = <<e>> /\ Len(<<e>>) = 1 /\ <<e>>[1] = e /\ Len(<<>>) = 0 /\ IsSeq(<<>>) /\ <<e>> # <<>>
<1>1. <<>> \in Seq({e})
  OBVIOUS
<1> QED
  BY <1>1 DEF IsSeq

\* The first intent an interaction creates is the only one it has.
LEMMA FirstMade ==
    ASSUME NEW d \in Drafts, NEW e, IsFun(made, Drafts), made[d] = <<>>, made' = Update(made, d, Append(made[d], e))
    PROVE  IsFun(made', Drafts) /\ made'[d] = <<e>> /\ \A c \in Drafts : c # d => made'[c] = made[c]
<1>1. made' = Update(made, d, <<e>>)
  BY SeqOne, Zenon
<1> QED
  BY ONLY d \in Drafts, IsFun(made, Drafts), <1>1, FunUpdate

\* If that intent has the values shown, all the created ones do.
LEMMA FirstShown ==
    ASSUME NEW d \in Drafts, NEW e, e.payload = e.saw, made'[d] = <<e>>,
           \A c \in Drafts : c # d => made'[c] = made[c], CreatedAsShown
    PROVE  CreatedAsShown'
<1>1. ASSUME NEW c \in Drafts, c # d, NEW n \in 1..Len(made'[c]) PROVE made'[c][n].payload = made'[c][n].saw
  <2>1. made'[c] = made[c]
    BY <1>1, Zenon
  <2> QED
    BY <1>1, <2>1, Zenon DEF CreatedAsShown
<1>2. Len(made'[d]) = 1 /\ made'[d][1] = e
  BY SeqOne, Zenon
<1>3. ASSUME NEW n \in 1..Len(made'[d]) PROVE made'[d][n].payload = made'[d][n].saw
  <2>1. n = 1
    BY ONLY <1>2, n \in 1..Len(made'[d])
  <2> QED
    BY <1>2, <2>1, Zenon
<1> QED
  BY <1>1, <1>3, Zenon DEF CreatedAsShown

\* The idle webhook holds nothing.
LEMMA IdleFacts ==
    /\ IsWebhook(Idle) /\ Idle.pc = "idle" /\ Idle.draft = None /\ Idle.stale = None
    /\ ~ Idle.pending /\ Idle.new = None /\ Idle.press = None
BY Zenon DEF Idle, IsWebhook

\* Updates of a webhook and of an interaction.
LEMMA WebhookMoves ==
    ASSUME NEW w, IsWebhook(w), NEW c, NEW v, v = Moved(w, c)
    PROVE  /\ IsWebhook(v) /\ v.pc = c /\ v.draft = w.draft /\ v.stale = w.stale /\ v.new = w.new
           /\ v.press = w.press /\ v.pending = w.pending
BY DEF IsWebhook, Moved

\* What the webhook holds once _deliver_message_reply flushed the interaction.
LEMMA WebhookReplies ==
    ASSUME NEW w, IsWebhook(w), NEW d, NEW x, NEW v, v = Replied(w, d, x)
    PROVE  IsWebhook(v) /\ v.pc = "commit" /\ v.draft = d /\ v.stale = w.stale /\ v.new = x
BY DEF IsWebhook, Replied

\* What the webhook holds once it opened the pending interaction of the chat.
LEMMA WebhookOpens ==
    ASSUME NEW w, IsWebhook(w), NEW d, NEW v, v = Opened(w, d)
    PROVE  IsWebhook(v) /\ v.pc = "deciding" /\ v.draft = d /\ v.pending /\ v.stale = w.stale
<1>1. PICK b : b = TRUE
  OBVIOUS
<1>2. v = [w EXCEPT !.pc = "deciding", !.draft = d, !.pending = b]
  BY <1>1, Zenon DEF Opened
<1>3. IsWebhook(v) /\ v.pc = "deciding" /\ v.draft = d /\ v.pending = b /\ v.stale = w.stale
  BY ONLY IsWebhook(w), <1>2 DEF IsWebhook
<1> QED
  BY <1>1, <1>3, Zenon

\* What the webhook holds once it found an interaction past its expiry.
LEMMA WebhookOutdated ==
    ASSUME NEW w, IsWebhook(w), NEW d, NEW v, v = Outdated(w, d)
    PROVE  IsWebhook(v) /\ v.pc = "deciding" /\ v.draft = w.draft /\ v.pending = w.pending /\ v.stale = d
BY DEF Outdated, IsWebhook

\* What the webhook holds between its claim and the creation of the intent.
LEMMA WebhookCreates ==
    ASSUME NEW w, IsWebhook(w), NEW d, NEW b, NEW v, v = Creating(w, d, b)
    PROVE  IsWebhook(v) /\ v.pc = "creating" /\ v.draft = d /\ v.press = b /\ v.stale = w.stale
BY DEF Creating, IsWebhook

\* mark_status changes the status and nothing else of an interaction.
LEMMA RowStatus ==
    ASSUME NEW r, IsRow(r), NEW s, NEW v, v = SetStatus(r, s)
    PROVE  /\ IsRow(v) /\ v.status = s /\ v.kind = r.kind /\ v.capability = r.capability
           /\ v.payload = r.payload
BY DEF IsRow, SetStatus

\* attach_bot_message_id changes the message and nothing else.
LEMMA RowMessage ==
    ASSUME NEW r, IsRow(r), NEW n, NEW v, v = [r EXCEPT !.msg = n]
    PROVE  /\ IsRow(v) /\ v.status = r.status /\ v.kind = r.kind /\ v.capability = r.capability
           /\ v.payload = r.payload
BY DEF IsRow

\* The passing of the expiry changes nothing else of an interaction.
LEMMA RowAged ==
    ASSUME NEW r, IsRow(r), NEW v, v = Aged(r)
    PROVE  /\ IsRow(v) /\ v.status = r.status /\ v.kind = r.kind /\ v.capability = r.capability
           /\ v.payload = r.payload
<1>1. PICK b : b = FALSE
  OBVIOUS
<1>2. v = [r EXCEPT !.fresh = b]
  BY <1>1, Zenon DEF Aged
<1> QED
  BY ONLY IsRow(r), <1>2 DEF IsRow

\* An answer sets what the interaction asks for and the values collected so far.
LEMMA RowReplied ==
    ASSUME NEW r, IsRow(r), NEW k, NEW f, NEW v, v = Answered(r, k, f)
    PROVE  IsRow(v) /\ v.status = r.status /\ v.kind = k /\ v.capability = r.capability /\ v.payload = f
BY DEF IsRow, Answered

-----------------------------------------------------------------------------
(* The parts of a step *)

\* A webhook that holds a row is the only one that does.
LEMMA HeldAlone ==
    ASSUME LocksOK, NEW p \in Procs, NEW d \in Drafts, Holds(p, d) PROVE ~ Locked(p, d)
BY Zenon DEF LocksOK, Locked, Holds

\* A step that leaves the interactions alone.
LEMMA WritesNothing ==
    ASSUME RowsOK, NEW p \in Procs PROVE Writes(p, row)
BY Zenon DEF RowsOK, Writes

\* A step that writes one interaction no other webhook has locked.
LEMMA WritesOne ==
    ASSUME NEW p \in Procs, NEW f, Writes(p, f), NEW d \in Drafts, ~ Locked(p, d),
           NEW x, IsRow(x), Sound(x), row[d] # None => Follows(x, row[d]),
           NEW g, g = Update(f, d, x)
    PROVE  Writes(p, g) /\ g[d] = x
<1>1. IsFun(f, Drafts)
  BY Zenon DEF Writes
<1>2. IsFun(g, Drafts) /\ g[d] = x /\ \A e \in Drafts : e # d => g[e] = f[e]
  BY <1>1, FunUpdate
<1> QED
  BY <1>2, Zenon DEF Writes

\* A status written by UPDATE leaves the values of the interaction alone.
LEMMA WritesStatus ==
    ASSUME RowsOK, NEW p \in Procs, NEW d \in Drafts, row[d] # None, ~ Locked(p, d),
           NEW s, row[d].status \in Claimed => s \in Claimed,
           NEW g, g = Update(row, d, SetStatus(row[d], s))
    PROVE  Writes(p, g) /\ g[d].status = s
<1>1. PICK x : x = SetStatus(row[d], s) /\ g = Update(row, d, x)
  BY Zenon
<1>2. IsRow(row[d]) /\ Sound(row[d])
  BY Zenon DEF RowsOK
<1>3. IsRow(x) /\ x.status = s /\ x.kind = row[d].kind /\ x.capability = row[d].capability /\ x.payload = row[d].payload
  BY <1>1, <1>2, RowStatus
<1>4. Sound(x) /\ Follows(x, row[d])
  BY <1>2, <1>3, Zenon DEF Sound, create_input_from_payload, Follows, KeepsDraft
<1>5. Writes(p, row)
  BY WritesNothing
<1> QED
  BY <1>1, <1>3, <1>4, <1>5, WritesOne

\* A step that marks one interaction no other webhook has locked.
LEMMA WritesMark ==
    ASSUME RowsOK, NEW p \in Procs, NEW d \in Drafts, row[d] # None, ~ Locked(p, d), NEW s
    PROVE  Writes(p, mark_status(d, s))
<1>1. CASE row[d].status = "pending"
  <2>1. row[d].status \notin Claimed
    BY <1>1 DEF Claimed
  <2>2. mark_status(d, s) = Update(row, d, SetStatus(row[d], s))
    BY <1>1, Zenon DEF mark_status, Update, SetStatus
  <2> QED
    BY <2>1, <2>2, WritesStatus
<1>2. CASE row[d].status # "pending"
  BY <1>2, WritesNothing, Zenon DEF mark_status
<1> QED
  BY <1>1, <1>2

\* The expiry of a stale interaction, which the webhook still holds.
LEMMA WritesExpiry ==
    ASSUME LocksOK, RowsOK, NEW p \in Procs, WebhookOK(p), tx[p].pc \in {"deciding", "commit"}
    PROVE  Writes(p, Expiry(p))
<1>1. CASE tx[p].stale = None
  BY <1>1, WritesNothing, Zenon DEF Expiry
<1>2. CASE tx[p].stale # None
  <2>1. PICK d \in Drafts : d = tx[p].stale /\ row[d] # None
    BY <1>2, Zenon DEF WebhookOK
  <2>2. ~ Locked(p, d)
    BY <2>1, HeldAlone, Zenon DEF Holds
  <2> QED
    BY <1>2, <2>1, <2>2, WritesMark, Zenon DEF Expiry
<1> QED
  BY <1>1, <1>2

\* A webhook that ended holds nothing.
LEMMA GoesIdle ==
    ASSUME NoneAssumption, WebhooksOK, NEW p \in Procs, tx' = Update(tx, p, Idle)
    PROVE  Becomes(p, Idle) /\ WebhookOK(p)'
<1>1. tx'[p] = Idle
  BY FunUpdate DEF WebhooksOK
<1>2. ASSUME NEW d PROVE ~ Holds(p, d)'
  BY <1>1, IdleFacts DEF Holds
<1>3. WebhookOK(p)'
  BY <1>1, IdleFacts DEF WebhookOK
<1> QED
  BY <1>2, <1>3, IdleFacts, Zenon DEF Becomes

\* A webhook that only moves on keeps the rows it holds.
LEMMA MovesOn ==
    ASSUME NoneAssumption, WebhooksOK, LocksOK, NEW p \in Procs, NEW c, tx' = Update(tx, p, Moved(tx[p], c)),
           c \in {"deciding", "commit", "creating"} => tx[p].pc \in {"deciding", "commit", "creating"}
    PROVE  /\ \E w : Becomes(p, w)
           /\ tx'[p].pc = c /\ tx'[p].draft = tx[p].draft /\ tx'[p].stale = tx[p].stale
<1>1. PICK w : w = Moved(tx[p], c) /\ tx' = Update(tx, p, w)
  BY Zenon
<1>2. IsWebhook(w) /\ w.pc = c /\ w.draft = tx[p].draft /\ w.stale = tx[p].stale
  BY <1>1, WebhookMoves DEF WebhooksOK
<1>3. tx'[p] = w
  BY <1>1, FunUpdate DEF WebhooksOK
<1>4. ASSUME NEW d \in Drafts, Holds(p, d)' PROVE ~ Locked(p, d)
  <2>1. Holds(p, d)
    BY <1>2, <1>3, <1>4, Zenon DEF Holds
  <2> QED
    BY <2>1, HeldAlone
<1> QED
  BY <1>1, <1>2, <1>3, <1>4, Zenon DEF Becomes

\* A step that leaves the bot's messages alone.
LEMMA SendsNothing ==
    ASSUME ShownOK, NEW p \in Procs, shown' = shown PROVE Sends(p)
BY Zenon DEF ShownOK, Sends

\* The buttons of a message are taken away, or the call fails.
LEMMA SendsRemoval ==
    ASSUME ShownOK, NEW p \in Procs, NEW m, edit_message_text(m, None) \/ edit_callback_message(m)
    PROVE  Sends(p)
<1>1. shown' = shown \/ shown' = Update(shown, m, None)
  BY Zenon DEF Update, edit_callback_message, edit_message_text
<1>2. CASE shown' = Update(shown, m, None)
  <2>1. IsSeq(shown') /\ \A n \in 1..Len(shown') : shown'[n] = None \/ (n \in 1..Len(shown) /\ shown'[n] = shown[n])
    BY <1>2, SeqEdit DEF ShownOK
  <2> QED
    BY <2>1, Zenon DEF Sends
<1> QED
  BY <1>1, <1>2, SendsNothing

-----------------------------------------------------------------------------
(* One lemma per handler *)

\* The text and the buttons of an interaction's message.
LEMMA ContentFacts ==
    ASSUME NEW d, NEW r, NEW c, c = Content(d, r)
    PROVE  c.draft = d /\ c.payload = r.payload /\ (c.confirm => r.kind = "draft")
BY DEF Content, confirmation_text

\* A draft request of the classifier supplies every required field, over whatever
\* was known before, and a market request has no price.
LEMMA MergedFields ==
    ASSUME NEW x \in Decisions, NEW f, NEW v, v = payload_from_decision(x, f)
    PROVE  /\ IsFun(v, FieldNames)
           /\ x.decision = "draft_intent" =>
                  /\ Required(x.capability) \subseteq Supplied(v)
                  /\ x.capability \in MARKET_CAPABILITIES => v.targetPrice = None
<1>1. IsFun(v, FieldNames)
  BY DEF payload_from_decision, NoFields, IsFun, FieldNames
<1>2. ASSUME x.decision = "draft_intent"
      PROVE  /\ Required(x.capability) \subseteq Supplied(v)
             /\ x.capability \in MARKET_CAPABILITIES => v.targetPrice = None
  BY <1>2 DEF Decisions, payload_from_decision, Required, Supplied, NoFields, ValidShape, FieldValues,
              MARKET_CAPABILITIES, LIMIT_CAPABILITIES
<1> QED
  BY <1>1, <1>2

\* _save_interaction on a new interaction.
LEMMA CreatedRow ==
    ASSUME NEW x \in Decisions, NEW v, v = create(x)
    PROVE  IsRow(v) /\ Sound(v)
<1>1. PICK f : f = payload_from_decision(x, NoFields)
  OBVIOUS
<1>2. IsRow(v) /\ v.payload = f /\ v.kind = Kind(x) /\ v.capability = x.capability
  BY <1>1 DEF create, IsRow
<1>3. v.kind = "draft" => x.decision = "draft_intent"
  BY <1>2 DEF Kind
<1> QED
  BY <1>1, <1>2, <1>3, MergedFields DEF Sound, create_input_from_payload

\* _save_interaction on the open interaction: _is_different_request lets a draft
\* through only with the values it has.
LEMMA UpdatedRow ==
    ASSUME NEW x \in Decisions, NEW r, IsRow(r), Sound(r), ~ is_different_request(r, x), NEW v, v = update_pending(r, x)
    PROVE  IsRow(v) /\ Sound(v) /\ v.status = r.status /\ KeepsDraft(v, r)
<1>1. PICK f : f = payload_from_decision(x, r.payload)
  OBVIOUS
<1>2. IsRow(v) /\ v.status = r.status /\ v.payload = f /\ v.kind = Kind(x) /\ v.capability = r.capability
  <2>1. PICK k : k = Kind(x) /\ v = Answered(r, k, f)
    BY <1>1, Zenon DEF update_pending, Answered
  <2> QED
    BY <2>1, RowReplied
<1>3. v.kind = "draft" => x.decision = "draft_intent"
  BY <1>2 DEF Kind
<1>4. x.capability = r.capability
  BY DEF is_different_request
<1>5. Sound(v)
  BY <1>1, <1>2, <1>3, <1>4, MergedFields DEF Sound, create_input_from_payload
<1>6. ASSUME r.kind = "draft" PROVE v.kind = "draft" /\ f = r.payload
  <2>1. x.decision = "draft_intent"
    BY <1>6 DEF is_different_request
  <2>2. PICK g : g = r.payload
    OBVIOUS
  <2>3. /\ IsFun(g, FieldNames) /\ g["symbol"] # None
        /\ r.capability \in MARKET_CAPABILITIES => g["targetPrice"] = None
    BY <1>6, <2>2 DEF Sound, create_input_from_payload, Required, Supplied
  <2>4. \A n \in FieldNames : x.fields[n] # None => x.fields[n] = g[n]
    BY <1>6, <2>2, <2>3 DEF is_different_request, FieldNames
  <2>5. IsFun(f, FieldNames)
    BY <1>1, MergedFields
  <2>6. \A n \in FieldNames : f[n] = g[n]
    BY <1>1, <1>4, <2>2, <2>3, <2>4 DEF payload_from_decision, NoFields, FieldNames
  <2>7. f = g
    BY <2>3, <2>5, <2>6, Zenon DEF IsFun
  <2> QED
    BY <1>2, <2>1, <2>2, <2>7 DEF Kind
<1> QED
  BY <1>2, <1>5, <1>6, Zenon DEF KeepsDraft

\* _deliver_message_reply: the bot shows the interaction as the webhook is about to
\* commit it.
LEMMA ReplyStep ==
    ASSUME NoneAssumption, DraftInvariant, NEW p \in Procs, NEW d \in Drafts, ~ Locked(p, d), tx[p].stale # d,
           tx[p].pc \in {"idle", "deciding"},
           NEW r, IsRow(r), Sound(r), row[d] # None => KeepsDraft(r, row[d]) /\ r.status = row[d].status,
           NEW c, c = None \/ c = Content(d, r), deliver_message_reply(p, d, r, c)
    PROVE  WebhookStep(p)
<1>inv. WebhooksOK /\ LocksOK /\ RowsOK /\ ShownOK
  BY Zenon DEF DraftInvariant
<1>1. PICK x : /\ x = r \/ x = attach_bot_message_id(r)
               /\ tx' = [tx EXCEPT ![p].pc = "commit", ![p].draft = d, ![p].new = x]
               /\ shown' = shown \/ shown' = Extended(shown, c) \/ \E m : shown' = Update(shown, m, c)
  BY Zenon DEF deliver_message_reply, send_message, edit_message_text, Update, Extended
<1>2. row' = row /\ presses' = presses /\ made' = made
  BY Zenon DEF deliver_message_reply
<1>3. PICK w : w = Replied(tx[p], d, x) /\ tx' = Update(tx, p, w)
  BY <1>1, Zenon DEF Replied, Update
<1>4. IsWebhook(w) /\ w.pc = "commit" /\ w.draft = d /\ w.stale = tx[p].stale /\ w.new = x
  BY <1>3, <1>inv, WebhookReplies DEF WebhooksOK
<1>5. tx'[p] = w
  BY <1>3, <1>inv, FunUpdate DEF WebhooksOK
<1>6. IsRow(x) /\ x.status = r.status /\ x.kind = r.kind /\ x.capability = r.capability /\ x.payload = r.payload
  <2>1. CASE x = r
    BY <2>1, Zenon
  <2>2. CASE x = attach_bot_message_id(r)
    <3>1. PICK n : x = [r EXCEPT !.msg = n]
      BY <2>2, Zenon DEF attach_bot_message_id
    <3> QED
      BY <3>1, RowMessage
  <2> QED
    BY <1>1, <2>1, <2>2, Zenon
<1>7. Sound(x) /\ (row[d] # None => KeepsDraft(x, row[d]) /\ x.status = row[d].status)
  BY <1>6, Zenon DEF Sound, create_input_from_payload, KeepsDraft
<1>8. WebhookOK(p)
  BY <1>inv, Zenon DEF WebhooksOK
<1>9. ASSUME NEW e \in Drafts, Holds(p, e)' PROVE ~ Locked(p, e)
  <2>1. e = d \/ e = tx[p].stale
    BY <1>4, <1>5, <1>9, Zenon DEF Holds
  <2>2. CASE e = tx[p].stale
    <3>1. tx[p].pc = "deciding"
      BY <1>8, <2>2, IdleFacts, Zenon DEF WebhookOK, NoneAssumption
    <3> QED
      BY <1>inv, <2>2, <3>1, HeldAlone, Zenon DEF Holds
  <2> QED
    BY <2>1, <2>2, Zenon
<1>10. WebhookOK(p)'
  <2>1. /\ tx'[p].pc = "commit" /\ tx'[p].draft = d /\ tx'[p].stale = tx[p].stale /\ tx'[p].new = x
        /\ tx[p].stale # None => tx[p].stale \in Drafts /\ row[tx[p].stale] # None
    BY <1>4, <1>5, <1>8, Zenon DEF WebhookOK
  <2> QED
    BY <1>2, <1>6, <1>7, <2>1 DEF WebhookOK
<1>11. Sends(p)
  <2>1. IsSeq(shown') /\ \A m \in 1..Len(shown') : shown'[m] = c \/ (m \in 1..Len(shown) /\ shown'[m] = shown[m])
    <3>1. CASE shown' = shown
      BY <3>1, <1>inv, Zenon DEF ShownOK
    <3>2. CASE shown' = Extended(shown, c)
      <4>1. IsSeq(shown)
        BY <1>inv, Zenon DEF ShownOK
      <4> QED
        BY ONLY <3>2, <4>1, SeqAppend
    <3>3. ASSUME NEW m, shown' = Update(shown, m, c)
          PROVE  IsSeq(shown') /\ \A n \in 1..Len(shown') : shown'[n] = c \/ (n \in 1..Len(shown) /\ shown'[n] = shown[n])
      BY <3>3, <1>inv, SeqEdit DEF ShownOK
    <3> QED
      BY <1>1, <3>1, <3>2, <3>3, Zenon
  <2>2. c = None \/ (c.draft = d /\ c.payload = x.payload /\ (c.confirm => x.kind = "draft"))
    BY <1>6, ContentFacts
  <2> QED
    BY <1>4, <1>5, <2>1, <2>2, Zenon DEF Sends
<1>12. Becomes(p, w)
  BY <1>3, <1>4, <1>9, Zenon DEF Becomes
<1>13. Writes(p, row')
  BY <1>2, <1>inv, WritesNothing
<1>14. tx[p].pc # "commit"
  OBVIOUS
<1> QED
  BY <1>2, <1>10, <1>11, <1>12, <1>13, <1>14, Zenon DEF WebhookStep

\* A message while a confirmation is under way.
LEMMA ConfirmingStep ==
    ASSUME NoneAssumption, DraftInvariant, NEW p \in Procs, MessageWhileConfirming(p)
    PROVE  WebhookStep(p)
<1>1. PICK d \in Drafts : row[d] # None /\ ~ Locked(p, d) /\ deliver_message_reply(p, d, row[d], None)
  BY Zenon DEF MessageWhileConfirming, find_pending_for_chat
<1>2. tx[p].pc = "idle" /\ tx[p].stale # d
  BY IdleFacts, Zenon DEF MessageWhileConfirming, DraftInvariant, WebhooksOK, WebhookOK, NoneAssumption
<1>3. IsRow(row[d]) /\ Sound(row[d]) /\ KeepsDraft(row[d], row[d])
  BY <1>1, Zenon DEF DraftInvariant, RowsOK, KeepsDraft
<1> QED
  BY <1>1, <1>2, <1>3, ReplyStep

\* The open interaction a webhook decides about.
LEMMA Pending ==
    ASSUME NoneAssumption, DraftInvariant, NEW p \in Procs, tx[p].pc = "deciding", tx[p].pending
    PROVE  /\ tx[p].draft \in Drafts /\ row[tx[p].draft] # None /\ ~ Locked(p, tx[p].draft)
           /\ tx[p].stale # tx[p].draft /\ IsRow(row[tx[p].draft]) /\ Sound(row[tx[p].draft])
<1>1. tx[p].draft \in Drafts /\ row[tx[p].draft] # None /\ tx[p].stale = None
  BY Zenon DEF DraftInvariant, WebhooksOK, WebhookOK
<1>2. ~ Locked(p, tx[p].draft)
  BY <1>1, HeldAlone, Zenon DEF DraftInvariant, Holds
<1> QED
  BY <1>1, <1>2, Zenon DEF DraftInvariant, RowsOK, NoneAssumption

\* _current_draft_reply.
LEMMA CurrentStep ==
    ASSUME NoneAssumption, DraftInvariant, NEW p \in Procs, current_draft_reply(p)
    PROVE  WebhookStep(p)
<1>1. tx[p].pc = "deciding" /\ tx[p].pending
  BY Zenon DEF current_draft_reply
<1>2. PICK d \in Drafts : /\ d = tx[p].draft /\ row[d] # None /\ ~ Locked(p, d) /\ tx[p].stale # d
                          /\ IsRow(row[d]) /\ Sound(row[d])
  BY <1>1, Pending
<1>3. deliver_message_reply(p, d, row[d], Content(d, row[d])) /\ KeepsDraft(row[d], row[d])
  BY <1>2, Zenon DEF current_draft_reply, KeepsDraft
<1> QED
  BY <1>1, <1>2, <1>3, ReplyStep

\* _save_interaction on the open interaction.
LEMMA SaveOpenStep ==
    ASSUME NoneAssumption, DraftInvariant, NEW p \in Procs, SaveOpen(p)
    PROVE  WebhookStep(p)
<1>1. tx[p].pc = "deciding" /\ tx[p].pending
  BY Zenon DEF SaveOpen
<1>2. PICK d \in Drafts : /\ d = tx[p].draft /\ row[d] # None /\ ~ Locked(p, d) /\ tx[p].stale # d
                          /\ IsRow(row[d]) /\ Sound(row[d])
  BY <1>1, Pending
<1>3. PICK x \in Decisions : /\ ~ is_different_request(row[d], x)
                             /\ deliver_message_reply(p, d, update_pending(row[d], x), Content(d, update_pending(row[d], x)))
  BY <1>2, Zenon DEF SaveOpen
<1>4. PICK r : r = update_pending(row[d], x)
  OBVIOUS
<1>5. IsRow(r) /\ Sound(r) /\ r.status = row[d].status /\ KeepsDraft(r, row[d])
  <2>1. PICK z : /\ z = row[d] /\ IsRow(z) /\ Sound(z) /\ ~ is_different_request(z, x)
                 /\ r = update_pending(z, x)
    BY <1>2, <1>3, <1>4, Zenon
  <2>2. IsRow(r) /\ Sound(r) /\ r.status = z.status /\ KeepsDraft(r, z)
    BY ONLY <2>1, x \in Decisions, UpdatedRow
  <2> QED
    BY <2>1, <2>2, Zenon
<1>6. deliver_message_reply(p, d, r, Content(d, r))
  BY <1>3, <1>4, Zenon
<1> QED
  BY <1>1, <1>2, <1>5, <1>6, ReplyStep

\* _save_interaction on a new interaction: no other webhook can hold it.
LEMMA SaveNewStep ==
    ASSUME NoneAssumption, DraftInvariant, NEW p \in Procs, SaveNew(p)
    PROVE  WebhookStep(p)
<1>1. PICK d \in Drafts, x \in Decisions :
         /\ row[d] = None
         /\ \A q \in Procs \ {p} : tx[q].draft # d
         /\ deliver_message_reply(p, d, create(x), Content(d, create(x)))
  BY Zenon DEF SaveNew
<1>2. PICK r : r = create(x)
  OBVIOUS
<1>3. IsRow(r) /\ Sound(r)
  BY <1>2, CreatedRow
<1>4. \A q \in Procs : tx[q].stale # d
  BY <1>1, Zenon DEF DraftInvariant, WebhooksOK, WebhookOK, NoneAssumption
<1>5. ~ Locked(p, d)
  BY <1>1, <1>4, Zenon DEF Locked
<1>6. deliver_message_reply(p, d, r, Content(d, r)) /\ tx[p].pc = "deciding"
  BY <1>1, <1>2, Zenon DEF SaveNew
<1> QED
  BY <1>1, <1>3, <1>4, <1>5, <1>6, ReplyStep

\* A handler that ends.
LEMMA EndStep ==
    ASSUME NoneAssumption, DraftInvariant, NEW p \in Procs, tx' = [tx EXCEPT ![p] = Idle],
           Writes(p, row'), Sends(p), presses' = presses, made' = made \/ Creates(p),
           tx[p].pc = "commit" => COMMIT_FAILS \/ row'[tx[p].draft] = tx[p].new
    PROVE  WebhookStep(p)
<1>1. tx' = Update(tx, p, Idle)
  BY Zenon DEF Update
<1>2. Becomes(p, Idle) /\ WebhookOK(p)'
  <2>1. WebhooksOK
    BY Zenon DEF DraftInvariant
  <2> QED
    BY ONLY NoneAssumption, p \in Procs, <1>1, <2>1, GoesIdle
<1> QED
  BY <1>2, Zenon DEF WebhookStep

\* The commit of a reply.
LEMMA CommitStep ==
    ASSUME NoneAssumption, DraftInvariant, NEW p \in Procs, CommitMessage(p)
    PROVE  WebhookStep(p)
<1>1. /\ tx[p].pc = "commit" /\ row' = Update(Expiry(p), tx[p].draft, tx[p].new)
      /\ tx' = [tx EXCEPT ![p] = Idle] /\ shown' = shown /\ presses' = presses /\ made' = made
  BY Zenon DEF CommitMessage, Update
<1>x. PICK x : x = tx[p].new
  OBVIOUS
<1>2. PICK d \in Drafts : /\ d = tx[p].draft /\ IsRow(x) /\ Sound(x)
                          /\ row[d] # None => KeepsDraft(x, row[d]) /\ x.status = row[d].status
  BY <1>1, <1>x, Zenon DEF DraftInvariant, WebhooksOK, WebhookOK
<1>3. ~ Locked(p, d)
  BY <1>1, <1>2, HeldAlone, Zenon DEF DraftInvariant, Holds
<1>4. Writes(p, Expiry(p))
  BY <1>1, WritesExpiry DEF DraftInvariant, WebhooksOK
<1>5. row[d] # None => Follows(x, row[d])
  BY <1>2, Zenon DEF Follows
<1>6. Writes(p, row') /\ row'[d] = x
  <2>1. row' = Update(Expiry(p), d, x)
    BY <1>1, <1>x, <1>2, Zenon
  <2> QED
    BY ONLY p \in Procs, d \in Drafts, <2>1, <1>2, <1>3, <1>4, <1>5, WritesOne
<1>7. Sends(p)
  BY <1>1, SendsNothing DEF DraftInvariant
<1> QED
  BY <1>1, <1>x, <1>2, <1>6, <1>7, EndStep

\* A message without an interaction, or whose decision is refused.
LEMMA ExpiryStep ==
    ASSUME NoneAssumption, DraftInvariant, NEW p \in Procs, NoInteraction(p) \/ validate_decision(p)
    PROVE  WebhookStep(p)
<1>1. /\ tx[p].pc = "deciding" /\ row' = Expiry(p)
      /\ tx' = [tx EXCEPT ![p] = Idle] /\ shown' = shown /\ presses' = presses /\ made' = made
  BY Zenon DEF NoInteraction, validate_decision, CommitExpiry
<1>2. Writes(p, row')
  BY <1>1, WritesExpiry DEF DraftInvariant, WebhooksOK
<1>3. Sends(p)
  BY <1>1, SendsNothing DEF DraftInvariant
<1> QED
  BY <1>1, <1>2, <1>3, EndStep

\* An error or a stop.
LEMMA RollbackStep ==
    ASSUME NoneAssumption, DraftInvariant, NEW p \in Procs, Rollback(p)
    PROVE  WebhookStep(p)
<1>1. /\ tx[p].pc = "commit" => COMMIT_FAILS
      /\ tx' = [tx EXCEPT ![p] = Idle] /\ row' = row /\ shown' = shown /\ presses' = presses /\ made' = made
  BY Zenon DEF Rollback
<1>2. Writes(p, row')
  BY <1>1, WritesNothing DEF DraftInvariant
<1>3. Sends(p)
  BY <1>1, SendsNothing DEF DraftInvariant
<1> QED
  BY <1>1, <1>2, <1>3, EndStep

\* A webhook that serves a press whole stays idle.
LEMMA PressStep ==
    ASSUME NoneAssumption, DraftInvariant, NEW p \in Procs, NEW b \in presses,
           tx' = tx, tx[p].pc = "idle", Writes(p, row'), edit_callback_message(b.msg),
           presses' = presses, made' = made
    PROVE  WebhookStep(p)
<1>1. tx[p] = Idle
  BY Zenon DEF DraftInvariant, WebhooksOK, WebhookOK
<1>2. tx' = Update(tx, p, Idle)
  <2>1. IsFun(tx, Procs)
    BY Zenon DEF DraftInvariant, WebhooksOK
  <2> QED
    BY <1>1, <2>1, Zenon DEF Update, IsFun
<1>3. Becomes(p, Idle) /\ WebhookOK(p)'
  BY <1>2, GoesIdle DEF DraftInvariant
<1>4. Sends(p)
  BY SendsRemoval DEF DraftInvariant
<1>5. tx[p].pc # "commit"
  OBVIOUS
<1> QED
  BY <1>3, <1>4, <1>5, Zenon DEF WebhookStep

\* A press whose interaction is gone or settled is only answered.
LEMMA AnswerStep ==
    ASSUME NoneAssumption, DraftInvariant, NEW p \in Procs, NEW b \in presses, AnswerPress(p, b)
    PROVE  WebhookStep(p)
<1>1. /\ tx[p].pc = "idle" /\ edit_callback_message(b.msg)
      /\ tx' = tx /\ row' = row /\ presses' = presses /\ made' = made
  BY Zenon DEF AnswerPress, Found
<1>2. Writes(p, row')
  BY <1>1, WritesNothing DEF DraftInvariant
<1> QED
  BY <1>1, <1>2, PressStep

\* A press closes the interaction it is for.
LEMMA CloseStep ==
    ASSUME NoneAssumption, DraftInvariant, NEW p \in Procs, NEW b \in presses, ClosePressed(p, b)
    PROVE  WebhookStep(p)
<1>1. /\ tx[p].pc = "idle" /\ edit_callback_message(b.msg)
      /\ tx' = tx /\ presses' = presses /\ made' = made
  BY Zenon DEF ClosePressed, Found
<1>2. PICK d \in Drafts : d = b.draft /\ row[d] # None /\ ~ Locked(p, d) /\ \E s : row' = mark_status(d, s)
  BY Zenon DEF ClosePressed, Found, DraftInvariant, ShownOK
<1>3. Writes(p, row')
  BY <1>2, WritesMark DEF DraftInvariant
<1> QED
  BY <1>1, <1>3, PressStep

\* A webhook that starts takes the locks of free rows only.
LEMMA StartStep ==
    ASSUME NoneAssumption, DraftInvariant, NEW p \in Procs, tx[p].pc = "idle", NEW w, IsWebhook(w),
           tx' = Update(tx, p, w), UNCHANGED <<row, shown, presses, made>>,
           \A d \in Drafts : d \in {w.draft, w.stale} => ~ Locked(p, d),
           tx'[p] = w => WebhookOK(p)'
    PROVE  WebhookStep(p)
<1>1. tx'[p] = w
  BY FunUpdate DEF DraftInvariant, WebhooksOK
<1>2. Becomes(p, w)
  BY <1>1, Zenon DEF Becomes, Holds
<1>3. Writes(p, row') /\ Sends(p)
  BY WritesNothing, SendsNothing DEF DraftInvariant
<1>4. tx[p].pc # "commit"
  OBVIOUS
<1> QED
  BY <1>1, <1>2, <1>3, <1>4, Zenon DEF WebhookStep

\* find_pending_for_chat ... FOR UPDATE.
LEMMA ReceiveStep ==
    ASSUME NoneAssumption, DraftInvariant, NEW p \in Procs, ReceiveMessage(p)
    PROVE  WebhookStep(p)
<1>1. tx[p].pc = "idle" /\ UNCHANGED <<row, shown, presses, made>>
  BY Zenon DEF ReceiveMessage
<1>2. CASE tx' = Update(tx, p, Moved(Idle, "deciding"))
  <2>1. PICK w : w = Moved(Idle, "deciding")
    OBVIOUS
  <2>2. IsWebhook(w) /\ w.pc = "deciding" /\ w.draft = None /\ ~ w.pending /\ w.stale = None
    BY ONLY <2>1, WebhookMoves, IdleFacts
  <2>3. tx'[p] = w => WebhookOK(p)'
    BY <2>2 DEF WebhookOK
  <2>4. \A d \in Drafts : d \notin {w.draft, w.stale}
    BY <2>2, Zenon DEF NoneAssumption
  <2> QED
    BY <1>1, <1>2, <2>1, <2>2, <2>3, <2>4, StartStep
<1>3. ASSUME NEW d \in Drafts, row[d] # None, ~ Locked(p, d), tx' = Update(tx, p, Opened(Idle, d))
      PROVE  WebhookStep(p)
  <2>1. PICK w : w = Opened(Idle, d)
    OBVIOUS
  <2>2. IsWebhook(w) /\ w.pc = "deciding" /\ w.draft = d /\ w.pending /\ w.stale = None
    BY ONLY <2>1, WebhookOpens, IdleFacts
  <2>3. tx'[p] = w => WebhookOK(p)'
    BY <1>1, <1>3, <2>2 DEF WebhookOK
  <2>4. \A e \in Drafts : e \in {w.draft, w.stale} => e = d
    BY <2>2, Zenon DEF NoneAssumption
  <2> QED
    BY <1>1, <1>3, <2>1, <2>2, <2>3, <2>4, StartStep
<1>4. ASSUME NEW d \in Drafts, row[d] # None, ~ Locked(p, d), tx' = Update(tx, p, Outdated(Idle, d))
      PROVE  WebhookStep(p)
  <2>1. PICK w : w = Outdated(Idle, d)
    OBVIOUS
  <2>2. IsWebhook(w) /\ w.pc = "deciding" /\ w.draft = None /\ ~ w.pending /\ w.stale = d
    BY ONLY <2>1, WebhookOutdated, IdleFacts
  <2>3. tx'[p] = w => WebhookOK(p)'
    BY <1>1, <1>4, <2>2 DEF WebhookOK
  <2>4. \A e \in Drafts : e \in {w.draft, w.stale} => e = d
    BY <2>2, Zenon DEF NoneAssumption
  <2> QED
    BY <1>1, <1>4, <2>1, <2>2, <2>3, <2>4, StartStep
<1>6. \/ tx' = Update(tx, p, Moved(Idle, "deciding"))
      \/ \E d \in Drafts : /\ row[d] # None /\ ~ Locked(p, d)
                           /\ \/ tx' = Update(tx, p, Opened(Idle, d))
                              \/ tx' = Update(tx, p, Outdated(Idle, d))
  BY Zenon DEF ReceiveMessage, find_pending_for_chat, Update, Moved, Opened, Outdated
<1> QED
  BY <1>2, <1>3, <1>4, <1>6, Zenon

\* handle_callback up to the creation command.
LEMMA BeginStep ==
    ASSUME NoneAssumption, DraftInvariant, NEW p \in Procs, NEW b \in presses, BeginConfirm(p, b)
    PROVE  WebhookStep(p)
<1>1. tx[p].pc = "idle" /\ UNCHANGED <<row, shown, presses, made>> /\ tx' = Update(tx, p, Creating(Idle, b.draft, b))
  BY Zenon DEF BeginConfirm, Found, Update, Creating
<1>2. PICK d \in Drafts : d = b.draft /\ row[d] # None /\ ~ Locked(p, d)
  BY Zenon DEF BeginConfirm, Found, DraftInvariant, ShownOK
<1>3. row[d].status = "pending" /\ row[d].kind = "draft" /\ b.action = "confirm"
  BY <1>2, Zenon DEF BeginConfirm
<1>4. PICK w : w = Creating(Idle, d, b)
  OBVIOUS
<1>5. IsWebhook(w) /\ w.pc = "creating" /\ w.draft = d /\ w.press = b /\ w.stale = None
  BY ONLY <1>4, WebhookCreates, IdleFacts
<1>6. tx'[p] = w => WebhookOK(p)'
  BY <1>1, <1>2, <1>3, <1>5 DEF WebhookOK
<1>7. \A e \in Drafts : e \in {w.draft, w.stale} => e = d
  BY <1>5, Zenon DEF NoneAssumption
<1> QED
  BY <1>1, <1>2, <1>4, <1>5, <1>6, <1>7, StartStep

\* No step deletes an interaction.
LEMMA RowsStay ==
    ASSUME NoneAssumption, NEW p \in Procs, NEW f, Writes(p, f), NEW d \in Drafts, row[d] # None
    PROVE  f[d] # None
BY Zenon DEF NoneAssumption, Writes

\* The creation command returns, and the webhook goes on.
LEMMA ReturnStep ==
    ASSUME NoneAssumption, DraftInvariant, NEW p \in Procs, tx[p].pc = "creating",
           NEW c \in {"created", "duplicate"}, tx' = [tx EXCEPT ![p].pc = c],
           Writes(p, row'), Sends(p), presses' = presses, made' = made \/ Creates(p)
    PROVE  WebhookStep(p)
<1>1. tx' = Update(tx, p, Moved(tx[p], c))
  BY Zenon DEF Update, Moved
<1>2. c \notin {"deciding", "commit", "creating"}
  OBVIOUS
<1>3. /\ \E w : Becomes(p, w)
      /\ tx'[p].pc = c /\ tx'[p].draft = tx[p].draft /\ tx'[p].stale = tx[p].stale
  BY <1>1, <1>2, MovesOn DEF DraftInvariant
<1>4. /\ tx[p].draft \in Drafts /\ row[tx[p].draft] # None
      /\ tx[p].stale # None => tx[p].stale \in Drafts /\ row[tx[p].stale] # None
  BY Zenon DEF DraftInvariant, WebhooksOK, WebhookOK
<1>5. /\ row'[tx[p].draft] # None
      /\ tx[p].stale # None => row'[tx[p].stale] # None
  BY <1>4, RowsStay, Zenon
<1>6. WebhookOK(p)'
  BY <1>3, <1>4, <1>5 DEF WebhookOK
<1>7. tx[p].pc # "commit"
  OBVIOUS
<1> QED
  BY <1>3, <1>6, <1>7, Zenon DEF WebhookStep

\* The creation command commits the intent and the claim.
LEMMA CreateStep ==
    ASSUME NoneAssumption, DraftInvariant, NEW p \in Procs, CreateCommits(p)
    PROVE  WebhookStep(p)
<1>1. PICK d \in Drafts : d = tx[p].draft /\ row[d] # None
  BY Zenon DEF CreateCommits, DraftInvariant, WebhooksOK, WebhookOK
<1>2. /\ tx[p].pc = "creating" /\ shown' = shown /\ presses' = presses
      /\ row' = Update(row, d, SetStatus(row[d], "confirming"))
      /\ made' = [made EXCEPT ![d] = Append(made[d], [payload |-> row[d].payload, saw |-> tx[p].press.saw])]
      /\ tx' = [tx EXCEPT ![p].pc = "created"] \/ tx' = [tx EXCEPT ![p] = Idle]
  BY <1>1, Zenon DEF CreateCommits, claim_confirming, Update, SetStatus
<1>3. ~ Locked(p, d)
  BY <1>1, <1>2, HeldAlone, Zenon DEF DraftInvariant, Holds
<1>4. "confirming" \in Claimed
  BY DEF Claimed
<1>5. Writes(p, row') /\ row'[d].status = "confirming"
  <2>1. RowsOK
    BY Zenon DEF DraftInvariant
  <2> QED
    BY <2>1, <1>1, <1>2, <1>3, <1>4, WritesStatus
<1>6. Creates(p)
  BY <1>1, <1>2, <1>4, <1>5, Zenon DEF Creates
<1>7. Sends(p)
  BY <1>2, SendsNothing DEF DraftInvariant
<1>8. CASE tx' = [tx EXCEPT ![p].pc = "created"]
  BY <1>2, <1>5, <1>6, <1>7, <1>8, ReturnStep
<1>9. CASE tx' = [tx EXCEPT ![p] = Idle]
  BY <1>2, <1>5, <1>6, <1>7, <1>9, EndStep
<1> QED
  BY <1>2, <1>8, <1>9

\* The creation command rolls back.
LEMMA FailStep ==
    ASSUME NoneAssumption, DraftInvariant, NEW p \in Procs, CreateFails(p)
    PROVE  WebhookStep(p)
<1>1. tx[p].pc = "creating" /\ row' = row /\ presses' = presses /\ made' = made
  BY Zenon DEF CreateFails
<1>2. Writes(p, row')
  BY <1>1, WritesNothing DEF DraftInvariant
<1>3. CASE tx' = [tx EXCEPT ![p].pc = "duplicate"] /\ shown' = shown
  <2>1. Sends(p)
    BY <1>3, SendsNothing DEF DraftInvariant
  <2> QED
    BY <1>1, <1>2, <1>3, <2>1, ReturnStep
<1>4. CASE tx' = [tx EXCEPT ![p] = Idle] /\ edit_message_text(tx[p].press.msg, None)
  <2>1. Sends(p)
    BY <1>4, SendsRemoval DEF DraftInvariant
  <2> QED
    BY <1>1, <1>2, <1>4, <2>1, EndStep
<1> QED
  BY <1>3, <1>4, Zenon DEF CreateFails

\* The last update of a confirmation.
LEMMA FinishStep ==
    ASSUME NoneAssumption, DraftInvariant, NEW p \in Procs, CloseDuplicate(p) \/ FinishConfirm(p)
    PROVE  WebhookStep(p)
<1>1. PICK d \in Drafts : d = tx[p].draft /\ row[d] # None /\ ~ Locked(p, d)
  BY Zenon DEF CloseDuplicate, FinishConfirm, DraftInvariant, WebhooksOK, WebhookOK
<1>2. /\ tx[p].pc \in {"created", "duplicate"} /\ presses' = presses /\ made' = made
      /\ row' = mark_status(d, "cancelled") \/ row' = mark_confirmed(d)
      /\ tx' = [tx EXCEPT ![p] = Idle] /\ edit_callback_message(tx[p].press.msg)
  BY <1>1, Zenon DEF CloseDuplicate, FinishConfirm
<1>3. Writes(p, mark_status(d, "cancelled"))
  BY <1>1, WritesMark DEF DraftInvariant
<1>4. Writes(p, mark_confirmed(d))
  <2>1. CASE row[d].status = "confirming"
    <3>1. mark_confirmed(d) = Update(row, d, SetStatus(row[d], "confirmed"))
      BY <2>1, Zenon DEF mark_confirmed, Update, SetStatus
    <3>2. "confirmed" \in Claimed
      BY DEF Claimed
    <3> QED
      BY <1>1, <3>1, <3>2, WritesStatus DEF DraftInvariant
  <2>2. CASE row[d].status # "confirming"
    BY <2>2, WritesNothing DEF mark_confirmed, DraftInvariant
  <2> QED
    BY <2>1, <2>2
<1>5. Writes(p, row')
  BY <1>2, <1>3, <1>4, Zenon
<1>6. Sends(p)
  BY <1>2, SendsRemoval DEF DraftInvariant
<1>7. tx[p].pc # "commit"
  BY <1>2
<1> QED
  BY <1>2, <1>5, <1>6, <1>7, EndStep

-----------------------------------------------------------------------------
(* The invariant is kept *)

\* Every action of a webhook is a step as described.
LEMMA WebhookSteps ==
    ASSUME NoneAssumption, DraftInvariant, NEW p \in Procs,
           \/ ReceiveMessage(p) \/ MessageWhileConfirming(p) \/ current_draft_reply(p) \/ SaveOpen(p)
           \/ SaveNew(p) \/ CommitMessage(p) \/ NoInteraction(p) \/ validate_decision(p)
           \/ \E b \in presses : AnswerPress(p, b) \/ ClosePressed(p, b) \/ BeginConfirm(p, b)
           \/ Confirmation(p) \/ Rollback(p)
    PROVE  WebhookStep(p)
<1>1. CASE \/ ReceiveMessage(p) \/ MessageWhileConfirming(p) \/ current_draft_reply(p) \/ SaveOpen(p)
           \/ SaveNew(p) \/ CommitMessage(p) \/ NoInteraction(p) \/ validate_decision(p)
  BY <1>1, ReceiveStep, ConfirmingStep, CurrentStep, SaveOpenStep, SaveNewStep, CommitStep, ExpiryStep
<1>2. CASE \E b \in presses : AnswerPress(p, b) \/ ClosePressed(p, b) \/ BeginConfirm(p, b)
  BY <1>2, AnswerStep, CloseStep, BeginStep
<1>3. CASE Confirmation(p) \/ Rollback(p)
  BY <1>3, CreateStep, FailStep, FinishStep, RollbackStep DEF Confirmation
<1> QED
  BY <1>1, <1>2, <1>3, Zenon

\* What the other webhooks see of a step: the rows they hold are as they were.
LEMMA OthersKept ==
    ASSUME NoneAssumption, DraftInvariant, NEW p \in Procs, WebhookStep(p), NEW q \in Procs, q # p
    PROVE  /\ tx'[q] = tx[q]
           /\ \A d \in Drafts : (Holds(q, d)' <=> Holds(q, d)) /\ (Holds(q, d) => row'[d] = row[d])
           /\ WebhookOK(q)'
<1>1. tx'[q] = tx[q]
  <2>1. PICK w : tx' = Update(tx, p, w)
    BY Zenon DEF WebhookStep, Becomes
  <2>2. IsFun(tx, Procs)
    BY Zenon DEF DraftInvariant, WebhooksOK
  <2> QED
    BY <2>1, <2>2, FunUpdate
<1>2. \A d \in Drafts : (Holds(q, d)' <=> Holds(q, d)) /\ (Holds(q, d) => row'[d] = row[d])
  BY <1>1, Zenon DEF Holds, WebhookStep, Writes, Locked
<1>3. \A d \in Drafts : row[d] # None => row'[d] # None
  BY RowsStay, Zenon DEF WebhookStep
<1>4. WebhookOK(q) /\ presses' = presses
  BY Zenon DEF DraftInvariant, WebhooksOK, WebhookStep
<1>5. \/ tx[q].pc \in {"commit", "creating"} /\ row'[tx[q].draft] = row[tx[q].draft]
      \/ tx[q].pc \notin {"commit", "creating"}
  BY <1>2, <1>4, Zenon DEF WebhookOK, Holds
<1>6. WebhookOK(q)'
  <2>1. /\ tx[q].pc = "idle" => tx[q] = Idle
        /\ tx[q].stale # None => tx[q].stale \in Drafts /\ row'[tx[q].stale] # None
        /\ tx[q].pc = "deciding" =>
               IF tx[q].pending THEN tx[q].draft \in Drafts /\ row'[tx[q].draft] # None /\ tx[q].stale = None
               ELSE tx[q].draft = None
    BY <1>3, <1>4, Zenon DEF WebhookOK
  <2>2. tx[q].pc = "commit" =>
           /\ tx[q].draft \in Drafts /\ tx[q].stale # tx[q].draft
           /\ IsRow(tx[q].new) /\ Sound(tx[q].new)
           /\ row'[tx[q].draft] # None =>
                  KeepsDraft(tx[q].new, row'[tx[q].draft]) /\ tx[q].new.status = row'[tx[q].draft].status
    BY <1>4, <1>5, Zenon DEF WebhookOK
  <2>3. tx[q].pc \in {"creating", "created", "duplicate"} => tx[q].draft \in Drafts /\ row'[tx[q].draft] # None
    BY <1>3, <1>4, Zenon DEF WebhookOK
  <2>4. tx[q].pc = "creating" =>
           /\ row'[tx[q].draft].status = "pending" /\ row'[tx[q].draft].kind = "draft"
           /\ tx[q].press \in presses' /\ tx[q].press.action = "confirm" /\ tx[q].press.draft = tx[q].draft
    BY <1>4, <1>5, Zenon DEF WebhookOK
  <2> QED
    BY <1>1, <2>1, <2>2, <2>3, <2>4, Zenon DEF WebhookOK
<1> QED
  BY <1>1, <1>2, <1>6, Zenon

\* A claimed interaction stays claimed, and its draft as it is.
LEMMA RowsFollow ==
    ASSUME NoneAssumption, DraftInvariant, NEW p \in Procs, WebhookStep(p), NEW d \in Drafts, row[d] # None
    PROVE  row'[d] # None /\ Follows(row'[d], row[d])
<1>1. Writes(p, row')
  BY Zenon DEF WebhookStep
<1>2. row'[d] # None
  BY <1>1, RowsStay
<1> QED
  BY <1>1, <1>2, Zenon DEF Writes, Follows, KeepsDraft

\* A step of a webhook keeps the invariant.
LEMMA WebhookKeeps ==
    ASSUME NoneAssumption, DraftInvariant, NEW p \in Procs, WebhookStep(p)
    PROVE  DraftInvariant'
<1>1. WebhooksOK'
  <2>1. PICK w : Becomes(p, w)
    BY Zenon DEF WebhookStep
  <2>2. IsFun(tx', Procs) /\ tx'[p] = w
    BY <2>1, FunUpdate DEF Becomes, DraftInvariant, WebhooksOK
  <2>3. IsWebhook(tx'[p]) /\ WebhookOK(p)'
    BY <2>1, <2>2, Zenon DEF Becomes, WebhookStep
  <2>4. ASSUME NEW q \in Procs, q # p PROVE IsWebhook(tx'[q]) /\ WebhookOK(q)'
    BY <2>4, OthersKept DEF DraftInvariant, WebhooksOK
  <2> QED
    BY <2>2, <2>3, <2>4, Zenon DEF WebhooksOK
<1>2. LocksOK'
  <2>1. ASSUME NEW q \in Procs, q # p, NEW d \in Drafts, Holds(q, d)' PROVE ~ Holds(p, d)' /\ Holds(q, d)
    <3>1. Holds(q, d)
      BY <2>1, OthersKept
    <3>2. Holds(p, d)' => ~ Locked(p, d)
      BY Zenon DEF WebhookStep, Becomes
    <3> QED
      BY <2>1, <3>1, <3>2, Zenon DEF Locked, Holds
  <2>2. LocksOK
    BY Zenon DEF DraftInvariant
  <2>3. ASSUME NEW q \in Procs, NEW z \in Procs, NEW d \in Drafts, Holds(q, d)', Holds(z, d)' PROVE q = z
    <3>1. CASE q = p \/ z = p
      BY <2>1, <2>3, <3>1, Zenon
    <3>2. CASE q # p /\ z # p
      <4>1. Holds(q, d) /\ Holds(z, d)
        BY <2>1, <2>3, <3>2, Zenon
      <4> QED
        BY <2>2, <4>1, Zenon DEF LocksOK
    <3> QED
      BY <3>1, <3>2, Zenon
  <2> QED
    BY <2>3, Zenon DEF LocksOK
<1>3. RowsOK'
  BY Zenon DEF WebhookStep, Writes, DraftInvariant, RowsOK
<1>4. MadeOK'
  <2>1. CASE made' = made
    <3>1. ASSUME NEW d \in Drafts, row[d] # None, row[d].status \in Claimed
          PROVE  row'[d] # None /\ row'[d].status \in Claimed
      BY <3>1, RowsFollow DEF Follows
    <3> QED
      BY <2>1, <3>1, Zenon DEF DraftInvariant, MadeOK
  <2>2. CASE Creates(p)
    <3>1. PICK d \in Drafts : d = tx[p].draft /\ row[d] # None /\ row[d].status = "pending"
      BY <2>2, Zenon DEF Creates, DraftInvariant, WebhooksOK, WebhookOK
    <3>2. row[d].status \notin Claimed
      BY <3>1 DEF Claimed
    <3>3. made[d] = <<>> /\ IsFun(made, Drafts)
      BY <3>1, <3>2, Zenon DEF DraftInvariant, MadeOK
    <3>4. PICK e : made' = Update(made, d, Append(made[d], e))
      BY <2>2, <3>1, Zenon DEF Creates, Update
    <3>6. IsFun(made', Drafts) /\ made'[d] = <<e>> /\ \A f \in Drafts : f # d => made'[f] = made[f]
      BY <3>1, <3>3, <3>4, FirstMade, Zenon
    <3>7. row'[d] # None /\ row'[d].status \in Claimed
      BY <2>2, <3>1, RowsFollow DEF Creates
    <3>8. ASSUME NEW f \in Drafts, row[f] # None, row[f].status \in Claimed
          PROVE  row'[f] # None /\ row'[f].status \in Claimed
      BY <3>8, RowsFollow DEF Follows
    <3> QED
      BY <3>6, <3>7, <3>8, Zenon DEF DraftInvariant, MadeOK
  <2> QED
    BY <2>1, <2>2, Zenon DEF WebhookStep
<1>5. ShownOK'
  BY Zenon DEF WebhookStep, Sends, DraftInvariant, ShownOK
<1> QED
  BY <1>1, <1>2, <1>3, <1>4, <1>5, Zenon DEF DraftInvariant

\* The time to live of an interaction passes: nothing but its freshness changes.
LEMMA TimeFacts ==
    ASSUME NoneAssumption, DraftInvariant, TimePasses, NEW d \in Drafts, row[d] # None
    PROVE  /\ row'[d] # None /\ IsRow(row'[d]) /\ row'[d].status = row[d].status /\ row'[d].kind = row[d].kind
           /\ row'[d].capability = row[d].capability /\ row'[d].payload = row[d].payload
<1>1. IsRow(row[d])
  BY Zenon DEF DraftInvariant, RowsOK
<1>2. row'[d] = row[d] \/ row'[d] = Aged(row[d])
  BY Zenon DEF TimePasses, Aged
<1>3. CASE row'[d] = Aged(row[d])
  <2>1. /\ IsRow(row'[d]) /\ row'[d].status = row[d].status /\ row'[d].kind = row[d].kind
        /\ row'[d].capability = row[d].capability /\ row'[d].payload = row[d].payload
    BY <1>1, <1>3, RowAged
  <2> QED
    BY <2>1, Zenon DEF NoneAssumption
<1> QED
  BY <1>1, <1>2, <1>3, Zenon

\* The passing of an expiry keeps the invariant.
LEMMA TimeKeeps ==
    ASSUME NoneAssumption, DraftInvariant, TimePasses
    PROVE  DraftInvariant'
<1>1. /\ shown' = shown /\ presses' = presses /\ made' = made /\ tx' = tx
      /\ \A p \in Procs : tx[p].pc # "commit"
  BY Zenon DEF TimePasses
<1>2. IsFun(row', Drafts) /\ \A d \in Drafts : row[d] = None => row'[d] = None
  BY Zenon DEF TimePasses, IsFun
<1>3. ASSUME NEW p \in Procs PROVE IsWebhook(tx'[p]) /\ WebhookOK(p)'
  <2>1. IsWebhook(tx[p]) /\ WebhookOK(p) /\ tx[p].pc # "commit"
    BY <1>1, Zenon DEF DraftInvariant, WebhooksOK
  <2>2. \A d \in Drafts : row[d] # None =>
           row'[d] # None /\ row'[d].status = row[d].status /\ row'[d].kind = row[d].kind
    BY TimeFacts
  <2> QED
    BY <1>1, <2>1, <2>2, Zenon DEF WebhookOK
<1>4. WebhooksOK'
  BY <1>1, <1>3, Zenon DEF DraftInvariant, WebhooksOK
<1>5. LocksOK'
  BY <1>1, Zenon DEF DraftInvariant, LocksOK, Holds
<1>6. RowsOK'
  <2>1. ASSUME NEW d \in Drafts, row[d] # None PROVE IsRow(row'[d]) /\ Sound(row'[d])
    <3>1. Sound(row[d])
      BY <2>1, Zenon DEF DraftInvariant, RowsOK
    <3>2. /\ IsRow(row'[d]) /\ row'[d].kind = row[d].kind
          /\ row'[d].capability = row[d].capability /\ row'[d].payload = row[d].payload
      BY <2>1, TimeFacts
    <3> QED
      BY <3>1, <3>2, Zenon DEF Sound, create_input_from_payload
  <2> QED
    BY <1>2, <2>1, Zenon DEF RowsOK
<1>7. MadeOK'
  <2>1. \A d \in Drafts : row[d] # None => row'[d] # None /\ row'[d].status = row[d].status
    BY TimeFacts
  <2> QED
    BY <1>1, <2>1, Zenon DEF DraftInvariant, MadeOK
<1>8. ShownOK'
  BY <1>1, Zenon DEF DraftInvariant, ShownOK
<1> QED
  BY <1>4, <1>5, <1>6, <1>7, <1>8, Zenon DEF DraftInvariant

\* A button of a message is pressed.
LEMMA ButtonKeeps ==
    ASSUME NoneAssumption, DraftInvariant, NEW m \in 1..Len(shown), NEW a, Press(m, a)
    PROVE  DraftInvariant'
<1>1. PICK b : presses' = presses \cup {b} /\ b.draft = shown[m].draft
  <2>1. PICK b : /\ b = [msg |-> m, action |-> a, draft |-> shown[m].draft, saw |-> shown[m].payload]
                 /\ presses' = presses \cup {b}
    BY Zenon DEF Press
  <2>2. b.draft = shown[m].draft
    BY <2>1
  <2> QED
    BY <2>1, <2>2, Zenon
<1>2. row' = row /\ shown' = shown /\ made' = made /\ tx' = tx /\ shown[m] # None
  BY Zenon DEF Press
<1>3. WebhooksOK'
  <2>1. ASSUME NEW p \in Procs PROVE WebhookOK(p)'
    <3>1. WebhookOK(p)
      BY Zenon DEF DraftInvariant, WebhooksOK
    <3> QED
      BY <1>1, <1>2, <3>1, Zenon DEF WebhookOK
  <2> QED
    BY <1>2, <2>1, Zenon DEF DraftInvariant, WebhooksOK
<1>4. LocksOK' /\ RowsOK' /\ MadeOK'
  BY <1>2, Zenon DEF DraftInvariant, LocksOK, Holds, RowsOK, MadeOK
<1>5. ShownOK'
  BY <1>1, <1>2, Zenon DEF DraftInvariant, ShownOK
<1> QED
  BY <1>3, <1>4, <1>5, Zenon DEF DraftInvariant

\* Without interactions and messages there is nothing to keep.
LEMMA DraftInit ==
    ASSUME NoneAssumption, Init PROVE DraftInvariant
<1>1. \A p \in Procs : tx[p] = Idle
  BY Zenon DEF Init
<1>2. \A d \in Drafts : row[d] = None /\ made[d] = <<>>
  BY Zenon DEF Init
<1>3. WebhooksOK
  <2>1. ASSUME NEW p \in Procs PROVE WebhookOK(p)
    <3>1. tx[p] = Idle
      BY <1>1
    <3> QED
      BY <3>1, IdleFacts DEF WebhookOK
  <2>2. IsFun(tx, Procs)
    BY Zenon DEF Init, IsFun
  <2> QED
    BY <1>1, <2>1, <2>2, IdleFacts, Zenon DEF WebhooksOK
<1>4. LocksOK
  <2>1. ASSUME NEW p \in Procs, NEW d PROVE ~ Holds(p, d)
    BY <1>1, IdleFacts DEF Holds
  <2> QED
    BY <2>1, Zenon DEF LocksOK
<1>5. RowsOK /\ MadeOK
  BY <1>2, Zenon DEF Init, RowsOK, MadeOK, IsFun
<1>6. ShownOK
  <2>1. shown = <<>> /\ presses = {} /\ IsSeq(<<>>) /\ Len(<<>>) = 0
    BY SeqOne DEF Init
  <2>2. 1..Len(shown) = {}
    BY <2>1
  <2> QED
    BY <2>1, <2>2, Zenon DEF ShownOK
<1> QED
  BY <1>3, <1>4, <1>5, <1>6, Zenon DEF DraftInvariant

\* Every step is one of a webhook, a press, or the passing of time.
LEMMA NextShape ==
    ASSUME NoneAssumption, DraftInvariant, [Next]_vars
    PROVE  \/ \E p \in Procs : WebhookStep(p)
           \/ \E m \in DOMAIN shown, a \in {"confirm", "cancel"} : Press(m, a)
           \/ TimePasses \/ UNCHANGED vars
<1>1. ASSUME NEW p \in Procs,
             \/ ReceiveMessage(p) \/ MessageWhileConfirming(p) \/ current_draft_reply(p) \/ SaveOpen(p)
             \/ SaveNew(p) \/ CommitMessage(p) \/ NoInteraction(p) \/ validate_decision(p)
             \/ \E b \in presses : AnswerPress(p, b) \/ ClosePressed(p, b) \/ BeginConfirm(p, b)
             \/ Confirmation(p) \/ Rollback(p)
      PROVE  WebhookStep(p)
  BY <1>1, WebhookSteps
<1> QED
  BY <1>1, Zenon DEF Next

\* Every step keeps the invariant.
LEMMA DraftNext ==
    ASSUME NoneAssumption, DraftInvariant, [Next]_vars PROVE DraftInvariant'
<1>1. ASSUME NEW p \in Procs, WebhookStep(p) PROVE DraftInvariant'
  BY <1>1, WebhookKeeps
<1>2. ASSUME NEW m \in DOMAIN shown, NEW a \in {"confirm", "cancel"}, Press(m, a) PROVE DraftInvariant'
  <2>1. m \in 1..Len(shown)
    BY SeqDomain DEF DraftInvariant, ShownOK
  <2> QED
    BY <1>2, <2>1, ButtonKeeps
<1>3. CASE TimePasses
  BY <1>3, TimeKeeps
<1>4. CASE UNCHANGED vars
  <2>1. /\ row' = row /\ shown' = shown /\ presses' = presses /\ made' = made /\ tx' = tx
    BY <1>4, Zenon DEF vars
  <2>2. ASSUME NEW p \in Procs PROVE WebhookOK(p)'
    <3>1. WebhookOK(p)
      BY Zenon DEF DraftInvariant, WebhooksOK
    <3> QED
      BY <2>1, <3>1, Zenon DEF WebhookOK
  <2>3. WebhooksOK'
    BY <2>1, <2>2, Zenon DEF DraftInvariant, WebhooksOK
  <2>4. LocksOK'
    BY <2>1, Zenon DEF DraftInvariant, LocksOK, Holds
  <2>5. RowsOK' /\ MadeOK' /\ ShownOK'
    BY <2>1, Zenon DEF DraftInvariant, RowsOK, MadeOK, ShownOK
  <2> QED
    BY <2>3, <2>4, <2>5, Zenon DEF DraftInvariant
<1>5. \/ \E p \in Procs : WebhookStep(p)
      \/ \E m \in DOMAIN shown, a \in {"confirm", "cancel"} : Press(m, a)
      \/ TimePasses \/ UNCHANGED vars
  BY NextShape
<1> QED
  BY <1>1, <1>2, <1>3, <1>4, <1>5, Zenon

-----------------------------------------------------------------------------
(* What the messages show *)

\* What a message shows stays what the interaction holds: the reply behind it is
\* committed, and a draft is never rewritten.
LEMMA BackedKept ==
    ASSUME NoneAssumption, DraftInvariant, ~ COMMIT_FAILS, NEW p \in Procs, WebhookStep(p),
           NEW d \in Drafts, NEW v, Backed(d, v)
    PROVE  Backed(d, v)'
<1>1. CASE row[d] # None /\ row[d].kind = "draft" /\ row[d].payload = v
  <2>1. row'[d] # None /\ KeepsDraft(row'[d], row[d])
    BY <1>1, RowsFollow DEF Follows
  <2> QED
    BY <1>1, <2>1, Zenon DEF Backed, KeepsDraft
<1>2. ASSUME NEW q \in Procs, tx[q].pc = "commit", tx[q].draft = d, tx[q].new.kind = "draft", tx[q].new.payload = v
      PROVE  Backed(d, v)'
  <2>1. CASE q # p
    <3>1. tx'[q] = tx[q]
      BY <2>1, OthersKept
    <3> QED
      BY <1>2, <3>1, Zenon DEF Backed
  <2>2. CASE q = p
    <3>1. row'[d] = tx[p].new
      BY <1>2, <2>2, Zenon DEF WebhookStep
    <3>2. tx[p].new # None
      BY <1>2, <2>2, Zenon DEF DraftInvariant, WebhooksOK, WebhookOK, NoneAssumption
    <3> QED
      BY <1>2, <2>2, <3>1, <3>2, Zenon DEF Backed
  <2> QED
    BY <2>1, <2>2
<1> QED
  BY <1>1, <1>2, Zenon DEF Backed

\* The created intent is the one of the press that is being served.
LEMMA CreatedIsShown ==
    ASSUME DraftInvariant, ShownInvariant, NEW p \in Procs, tx[p].pc = "creating"
    PROVE  row[tx[p].draft].payload = tx[p].press.saw
<1>1. PICK d \in Drafts : d = tx[p].draft
  BY Zenon DEF DraftInvariant, WebhooksOK, WebhookOK
<1>2. Backed(d, tx[p].press.saw)
  BY <1>1, Zenon DEF DraftInvariant, WebhooksOK, WebhookOK, ShownInvariant
<1>3. ASSUME NEW q \in Procs, tx[q].pc = "commit" PROVE tx[q].draft # d
  <2>1. q # p
    BY <1>3
  <2>2. Holds(p, d)
    BY <1>1, Zenon DEF Holds
  <2>3. ~ Holds(q, d)
    BY <2>1, <2>2, Zenon DEF DraftInvariant, LocksOK
  <2> QED
    BY <1>3, <2>3, Zenon DEF Holds
<1> QED
  BY <1>1, <1>2, <1>3, Zenon DEF Backed

\* A step of a webhook keeps the live messages backed by their interactions,
\* when no commit fails.
LEMMA ShownKept ==
    ASSUME NoneAssumption, DraftInvariant, ShownInvariant, ~ COMMIT_FAILS, NEW p \in Procs, WebhookStep(p)
    PROVE  ShownInvariant'
<1>1. ASSUME NEW m \in 1..Len(shown'), shown'[m] # None, shown'[m].confirm
      PROVE  Backed(shown[m].draft, shown[m].payload)'
  <2>1. CASE m \in 1..Len(shown) /\ shown'[m] = shown[m]
    <3>1. shown[m].draft \in Drafts /\ Backed(shown[m].draft, shown[m].payload)
      BY <1>1, <2>1, Zenon DEF DraftInvariant, ShownOK, ShownInvariant
    <3>2. PICK d \in Drafts, v \in {shown[m].payload} : d = shown[m].draft
      BY <3>1, Zenon
    <3>3. Backed(d, v)'
      BY <3>1, <3>2, BackedKept
    <3> QED
      BY <2>1, <3>2, <3>3, Zenon DEF Backed
  <2>2. CASE /\ tx'[p].pc = "commit" /\ tx'[p].draft = shown'[m].draft
             /\ tx'[p].new.kind = "draft" /\ tx'[p].new.payload = shown'[m].payload
    BY <2>2, Zenon DEF Backed
  <2> QED
    BY <1>1, <2>1, <2>2, Zenon DEF WebhookStep, Sends
<1>2. ASSUME NEW b \in presses', b.action = "confirm" PROVE Backed(b.draft, b.saw)'
  <2>1. b.draft \in Drafts /\ Backed(b.draft, b.saw)
    BY <1>2, Zenon DEF DraftInvariant, ShownOK, ShownInvariant, WebhookStep
  <2> QED
    BY <2>1, BackedKept
<1>3. CreatedAsShown'
  <2>1. CASE made' = made
    BY <2>1, Zenon DEF ShownInvariant, CreatedAsShown
  <2>2. CASE Creates(p)
    <3>1. PICK d \in Drafts : d = tx[p].draft /\ row[d] # None /\ row[d].status = "pending"
      BY <2>2, Zenon DEF Creates, DraftInvariant, WebhooksOK, WebhookOK
    <3>2. row[d].status \notin Claimed
      BY <3>1 DEF Claimed
    <3>3. made[d] = <<>> /\ IsFun(made, Drafts)
      BY <3>1, <3>2, Zenon DEF DraftInvariant, MadeOK
    <3>4. PICK e : e = [payload |-> row[d].payload, saw |-> tx[p].press.saw] /\ made' = Update(made, d, Append(made[d], e))
      BY <2>2, <3>1, Zenon DEF Creates, Update
    <3>5. e.payload = e.saw
      <4>1. row[d].payload = tx[p].press.saw
        BY <2>2, <3>1, CreatedIsShown DEF Creates
      <4> QED
        BY <3>4, <4>1, Zenon
    <3>6. made'[d] = <<e>> /\ \A f \in Drafts : f # d => made'[f] = made[f]
      BY <3>1, <3>3, <3>4, FirstMade, Zenon
    <3>7. CreatedAsShown
      BY Zenon DEF ShownInvariant
    <3> QED
      BY <3>1, <3>5, <3>6, <3>7, FirstShown, Zenon
  <2> QED
    BY <2>1, <2>2, Zenon DEF WebhookStep
<1> QED
  BY <1>1, <1>2, <1>3, Zenon DEF ShownInvariant

\* Every step keeps the live messages backed by their interactions.
LEMMA ShownNext ==
    ASSUME NoneAssumption, DraftInvariant, ShownInvariant, ~ COMMIT_FAILS, [Next]_vars
    PROVE  ShownInvariant'
<1>1. ASSUME NEW p \in Procs, WebhookStep(p) PROVE ShownInvariant'
  BY <1>1, ShownKept
<1>2. ASSUME NEW m \in DOMAIN shown, NEW a \in {"confirm", "cancel"}, Press(m, a) PROVE ShownInvariant'
  <2>1. m \in 1..Len(shown)
    BY SeqDomain DEF DraftInvariant, ShownOK
  <2>2. row' = row /\ shown' = shown /\ made' = made /\ tx' = tx /\ shown[m] # None /\ (a = "confirm" => shown[m].confirm)
    BY <1>2, Zenon DEF Press
  <2>3. PICK b : /\ b = [msg |-> m, action |-> a, draft |-> shown[m].draft, saw |-> shown[m].payload]
                 /\ presses' = presses \cup {b}
    BY <1>2, Zenon DEF Press
  <2>4. b.action = a /\ b.draft = shown[m].draft /\ b.saw = shown[m].payload
    BY <2>3
  <2>5. b.action = "confirm" => Backed(b.draft, b.saw)
    BY <2>1, <2>2, <2>4, Zenon DEF ShownInvariant
  <2>6. \A d, v : Backed(d, v) => Backed(d, v)'
    BY <2>2, Zenon DEF Backed
  <2> QED
    BY <2>2, <2>3, <2>5, <2>6, Zenon DEF ShownInvariant, CreatedAsShown
<1>3. CASE TimePasses
  <2>1. shown' = shown /\ presses' = presses /\ made' = made /\ tx' = tx
    BY <1>3, Zenon DEF TimePasses
  <2>2. \A d \in Drafts : row[d] # None => row'[d] # None /\ row'[d].kind = row[d].kind /\ row'[d].payload = row[d].payload
    BY <1>3, TimeFacts
  <2>3. \A d \in Drafts : \A v : Backed(d, v) => Backed(d, v)'
    BY <2>1, <2>2, Zenon DEF Backed
  <2> QED
    BY <2>1, <2>3, Zenon DEF ShownInvariant, CreatedAsShown, DraftInvariant, ShownOK
<1>4. CASE UNCHANGED vars
  <2>1. row' = row /\ shown' = shown /\ presses' = presses /\ made' = made /\ tx' = tx
    BY <1>4, Zenon DEF vars
  <2>2. \A d, v : Backed(d, v) => Backed(d, v)'
    BY <2>1, Zenon DEF Backed
  <2> QED
    BY <2>1, <2>2, Zenon DEF ShownInvariant, CreatedAsShown
<1>5. \/ \E p \in Procs : WebhookStep(p)
      \/ \E m \in DOMAIN shown, a \in {"confirm", "cancel"} : Press(m, a)
      \/ TimePasses \/ UNCHANGED vars
  BY NextShape
<1> QED
  BY <1>1, <1>2, <1>3, <1>4, <1>5, Zenon

-----------------------------------------------------------------------------
(* The theorems *)

\* The rows and the webhooks of the conversation stay consistent.
LEMMA DraftAlways == ASSUME NoneAssumption PROVE Spec => []DraftInvariant
<1>1. Init => DraftInvariant
  BY DraftInit
<1>2. DraftInvariant /\ [Next]_vars => DraftInvariant'
  BY DraftNext
<1> QED
  BY <1>1, <1>2, PTL DEF Spec

\* An interaction creates at most one intent, through double presses, repeated
\* deliveries, failures of the command and rollbacks (claim_confirming).
THEOREM OneIntentPerInteraction ==
    ASSUME NoneAssumption PROVE Spec => []OneIntentPerDraft
<1>1. DraftInvariant => OneIntentPerDraft
  <2> SUFFICES ASSUME DraftInvariant, NEW d \in Drafts PROVE Len(made[d]) <= 1
    BY Zenon DEF OneIntentPerDraft
  <2>1. made[d] = <<>> \/ \E e : made[d] = <<e>>
    BY Zenon DEF DraftInvariant, MadeOK
  <2>2. PICK n \in {0, 1} : n = Len(made[d])
    BY <2>1, SeqOne, Zenon
  <2>3. n <= 1
    BY ONLY n \in {0, 1}
  <2> QED
    BY <2>2, <2>3, Zenon
<1> QED
  BY <1>1, DraftAlways, PTL

\* A draft with a confirm button holds every value the creation needs, however many
\* clarifications it was merged from (_payload_from_decision, _is_different_request).
THEOREM DraftsAreConfirmable ==
    ASSUME NoneAssumption PROVE Spec => []DraftIsConfirmable
<1>1. DraftInvariant => DraftIsConfirmable
  BY Zenon DEF DraftInvariant, RowsOK, Sound, DraftIsConfirmable
<1> QED
  BY <1>1, DraftAlways, PTL

\* The confirmed intent is the one the pressed message showed, although messages are
\* edited before the commit, edits and sends fail, and presses are delivered late: as
\* long as the commit after a delivered reply does not fail, for which the statement
\* is false (handle_callback, _deliver_message_reply).
THEOREM ConfirmedAsShown ==
    ASSUME NoneAssumption, ~ COMMIT_FAILS PROVE Spec => []CreatedAsShown
<1>1. Init => ShownInvariant
  <2> SUFFICES ASSUME Init PROVE ShownInvariant
    OBVIOUS
  <2>1. shown = <<>> /\ presses = {} /\ \A d \in Drafts : made[d] = <<>>
    BY Zenon DEF Init
  <2>2. 1..Len(<<>>) = {}
    BY SeqOne
  <2> QED
    BY <2>1, <2>2, Zenon DEF ShownInvariant, CreatedAsShown
<1>2. DraftInvariant /\ ShownInvariant /\ [Next]_vars => ShownInvariant'
  BY ShownNext
<1>3. ShownInvariant => CreatedAsShown
  BY Zenon DEF ShownInvariant
<1> QED
  BY <1>1, <1>2, <1>3, DraftAlways, PTL DEF Spec

\* No step deletes an interaction, rewrites the values of a draft or reopens one whose
\* confirmation was claimed: what "must not silently overwrite the confirmation
\* currently shown" asks of every handler, concurrent ones included.
DraftsFollow == \A d \in Drafts : row[d] # None => row'[d] # None /\ Follows(row'[d], row[d])

\* The specification never takes a step that DraftsFollow forbids
\* (update_pending, mark_status, claim_confirming).
THEOREM DraftsAreNeverRewritten ==
    ASSUME NoneAssumption PROVE Spec => [][DraftsFollow]_vars
<1>1. DraftInvariant /\ [Next]_vars => [DraftsFollow]_vars
  <2> SUFFICES ASSUME DraftInvariant, [Next]_vars, vars' # vars PROVE DraftsFollow
    BY Zenon
  <2>1. ASSUME NEW p \in Procs, WebhookStep(p) PROVE DraftsFollow
    BY <2>1, RowsFollow DEF DraftsFollow
  <2>2. ASSUME NEW m, NEW a, Press(m, a) PROVE DraftsFollow
    <3>1. row' = row
      BY <2>2, Zenon DEF Press
    <3> QED
      BY <3>1, Zenon DEF DraftsFollow, Follows, KeepsDraft
  <2>3. CASE TimePasses
    <3>1. \A d \in Drafts : row[d] # None =>
             /\ row'[d] # None /\ row'[d].status = row[d].status
             /\ row'[d].kind = row[d].kind /\ row'[d].payload = row[d].payload
      BY <2>3, TimeFacts
    <3> QED
      BY <3>1, Zenon DEF DraftsFollow, Follows, KeepsDraft
  <2>4. \/ \E p \in Procs : WebhookStep(p)
        \/ \E m \in DOMAIN shown, a \in {"confirm", "cancel"} : Press(m, a)
        \/ TimePasses \/ UNCHANGED vars
    BY NextShape
  <2> QED
    BY <2>1, <2>2, <2>3, <2>4, Zenon
<1> QED
  BY <1>1, DraftAlways, PTL DEF Spec

=============================================================================
