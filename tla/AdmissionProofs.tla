--------------------------- MODULE AdmissionProofs ---------------------------
(***************************************************************************)
(* Proofs about what is let in: symbols by the quota of subscriptions,      *)
(* attempts by the token bucket.  Every theorem is about one instance, for   *)
(* any value of its constants; the instances share the variable of the same  *)
(* name in both modules.                                                    *)
(***************************************************************************)
EXTENDS Integers, FiniteSets, FiniteSetTheorems, TLAPS

CONSTANTS
    None, Procs,                                                     \* of several
    Plans, Intents, Symbols, Allowed, MAX_SUBSCRIPTIONS, MAX_FAULTS, \* Subscriptions
    CAPACITY, REFILL, COST, SUCCEEDS, MAX_CLOCK                      \* RateLimiter

VARIABLES
    tx,                                           \* of several
    phase, seed, subs, cut, sym, status, faults,  \* Subscriptions
    clock, bucket, admitted, since, back, missed  \* RateLimiter

Slots == INSTANCE Subscriptions
Bucket == INSTANCE RateLimiter

-----------------------------------------------------------------------------
(* Subscriptions *)

Open == Slots!active_or_scheduled_symbols(Slots!Rows)
OpenPlans == Slots!active_or_scheduled_symbols(Plans)
OpenIntents == Slots!active_or_scheduled_symbols(Intents)

Creating == {"inserted", "subscribed"}
SlotTx == [pc : Creating \cup {"idle", "cancelling", "cancelled", "unsubscribing"}, row : Slots!Rows \cup {None}]

SlotTypes ==
    /\ phase \in {"down", "legacy", "core", "serving"}
    /\ sym \in [Slots!Rows -> Symbols \cup {None}]
    /\ status \in [Slots!Rows -> {"absent", "open", "closed"}]
    /\ tx \in [Procs -> SlotTx]
    /\ \A i \in Slots!Rows : status[i] # "absent" => sym[i] \in Symbols

\* A creation under way has a row of its own, a cancellation a committed one, and
\* none is under way while the process is not serving.
SlotRequests ==
    /\ \A p \in Procs : tx[p].pc # "idle" =>
           /\ phase = "serving" /\ tx[p].row \in Slots!Rows
           /\ status[tx[p].row] = "absent" <=> tx[p].pc \in Creating
    /\ \A p \in Procs : tx[p].pc \in Creating => sym[tx[p].row] # None
    /\ \A p, q \in Procs : tx[p].pc \in Creating /\ tx[q].pc \in Creating /\ tx[p].row = tx[q].row => p = q

\* What is subscribed or still to be subscribed in each phase.
SlotPhases ==
    /\ phase = "down" => subs = {} /\ seed = {}
    /\ phase = "legacy" => seed \subseteq Open /\ OpenPlans \subseteq subs \cup seed
    /\ phase = "core" => seed \subseteq Open /\ OpenPlans \subseteq subs /\ OpenIntents \subseteq subs \cup seed
    /\ phase = "serving" => seed = {} /\ Open \subseteq subs \cup cut
    /\ \A p \in Procs : tx[p].pc = "subscribed" => sym[tx[p].row] \in subs \cup cut

\* What is subscribed fits the quota; what is open does too, as long as no
\* cancellation has freed the place of a symbol in need.
Fits(S) == IsFiniteSet(S) /\ Cardinality(S) <= MAX_SUBSCRIPTIONS
SlotQuota ==
    /\ subs \cup Open \cup cut \subseteq Allowed
    /\ Fits(subs)
    /\ cut = {} => Fits(subs \cup Open)

SlotInvariant == SlotTypes /\ SlotRequests /\ SlotPhases /\ SlotQuota

\* The instance counts as this module does.
LEMMA SlotCardinality == \A S : Slots!Cardinality(S) = Cardinality(S)
BY DEF Slots!Cardinality, Cardinality

\* Part of what fits the quota fits it.
LEMMA PartFits ==
    ASSUME Slots!SubscriptionAssumption, NEW S, Fits(S), NEW T \in SUBSET S
    PROVE  Fits(T)
<1>1. IsFiniteSet(T) /\ Cardinality(T) <= Cardinality(S)
  BY FS_Subset DEF Fits
<1>2. Cardinality(T) \in Nat /\ Cardinality(S) \in Nat
  BY <1>1, FS_CardinalityType DEF Fits
<1> QED
  BY <1>1, <1>2 DEF Fits, Slots!SubscriptionAssumption

\* A step that subscribes, opens and cuts nothing new keeps the quota.
LEMMA SlotShrinks ==
    ASSUME Slots!SubscriptionAssumption, SlotQuota,
           subs' \subseteq subs, Open' \subseteq Open, cut' = cut
    PROVE  SlotQuota'
<1>1. Fits(subs')
  BY PartFits DEF SlotQuota
<1>2. cut = {} => Fits(subs' \cup Open')
  <2>1. subs' \cup Open' \in SUBSET (subs \cup Open)
    OBVIOUS
  <2> QED
    BY <2>1, PartFits DEF SlotQuota
<1>3. subs' \cup Open' \cup cut' \subseteq Allowed
  BY DEF SlotQuota
<1> QED
  BY <1>1, <1>2, <1>3 DEF SlotQuota, Fits

\* While the process serves, what is not cut and open is subscribed.
LEMMA SlotServes ==
    ASSUME Fits(subs'), subs' \cup cut' \subseteq Allowed, Open' \subseteq subs' \cup cut'
    PROVE  SlotQuota'
<1>1. cut' = {} => subs' \cup Open' = subs'
  OBVIOUS
<1> QED
  BY <1>1 DEF SlotQuota, Fits

\* An accepted symbol keeps the quota.
LEMMA SlotAdmits ==
    ASSUME Slots!SubscriptionAssumption, SlotQuota, NEW s, s \in subs \/ Slots!Admits(s)
    PROVE  s \in Allowed /\ Fits(subs \cup {s})
<1>1. subs \subseteq Allowed /\ IsFiniteSet(subs) /\ Cardinality(subs) <= MAX_SUBSCRIPTIONS
  BY DEF SlotQuota, Fits
<1>2. s \in Allowed /\ (s \in subs \/ Cardinality(subs) < MAX_SUBSCRIPTIONS)
  BY <1>1, SlotCardinality DEF Slots!Admits
<1>3. /\ IsFiniteSet(subs \cup {s})
      /\ Cardinality(subs \cup {s}) = IF s \in subs THEN Cardinality(subs) ELSE Cardinality(subs) + 1
  BY <1>1, FS_AddElement
<1>4. Cardinality(subs) \in Nat
  BY <1>1, FS_CardinalityType
<1> QED
  BY <1>1, <1>2, <1>3, <1>4 DEF Slots!SubscriptionAssumption, Fits

\* What is under way moves on.
LEMMA SlotAdvances ==
    ASSUME SlotTypes, NEW p \in Procs, NEW pc, tx' = [tx EXCEPT ![p].pc = pc]
    PROVE  tx' = [tx EXCEPT ![p] = [pc |-> pc, row |-> tx[p].row]]
<1>1. tx \in [Procs -> SlotTx] /\ tx[p] \in SlotTx
  BY DEF SlotTypes
<1>2. [tx[p] EXCEPT !.pc = pc] = [pc |-> pc, row |-> tx[p].row]
  BY ONLY <1>1 DEF SlotTx
<1> QED
  BY <1>1, <1>2

\* The steps of requests, of the lifespan and of failures keep the invariant.
LEMMA SlotStep ==
    ASSUME Slots!SubscriptionAssumption, SlotInvariant, [Slots!Next]_(Slots!vars)
    PROVE  SlotInvariant'
<1>inv. /\ SlotTypes /\ SlotRequests /\ SlotPhases /\ SlotQuota
        /\ None \notin Symbols /\ subs \cup Open \cup cut \subseteq Allowed /\ Fits(subs)
  BY DEF SlotInvariant, SlotQuota, Slots!SubscriptionAssumption
<1>open. /\ Open = {sym[i] : i \in {j \in Slots!Rows : status[j] = "open"}}
         /\ OpenPlans = {sym[i] : i \in {j \in Plans : status[j] = "open"}}
         /\ OpenIntents = {sym[i] : i \in {j \in Intents : status[j] = "open"}}
         /\ Open' = {sym'[i] : i \in {j \in Slots!Rows : status'[j] = "open"}}
         /\ OpenPlans' = {sym'[i] : i \in {j \in Plans : status'[j] = "open"}}
         /\ OpenIntents' = {sym'[i] : i \in {j \in Intents : status'[j] = "open"}}
  BY DEF Open, OpenPlans, OpenIntents, Slots!active_or_scheduled_symbols
<1>rows. Slots!Rows = Plans \cup Intents
  BY DEF Slots!Rows
<1>idle. Slots!Idle \in SlotTx /\ Slots!Idle.pc = "idle"
  BY DEF Slots!Idle, SlotTx
<1>serving. ASSUME SlotTypes', SlotRequests', phase' = "serving", seed' = {},
                   Open' \subseteq subs' \cup cut', subs' \cup cut' \subseteq Allowed, Fits(subs'),
                   \A p \in Procs : tx'[p].pc = "subscribed" => sym'[tx'[p].row] \in subs' \cup cut'
            PROVE  SlotInvariant'
  <2>1. SlotPhases'
    BY <1>serving DEF SlotPhases
  <2>2. SlotQuota'
    BY <1>serving, SlotServes
  <2> QED
    BY <1>serving, <2>1, <2>2 DEF SlotInvariant
<1>1. ASSUME NEW p \in Procs, NEW i \in Slots!Rows, NEW s \in Symbols, Slots!Insert(p, i, s)
      PROVE  SlotInvariant'
  <2>1. /\ phase = "serving" /\ tx[p].pc = "idle" /\ sym[i] = None /\ sym' = [sym EXCEPT ![i] = s]
        /\ tx' = [tx EXCEPT ![p] = [pc |-> "inserted", row |-> i]]
        /\ UNCHANGED <<phase, seed, subs, cut, status>>
    BY <1>1 DEF Slots!Insert
  <2>2. status[i] = "absent"
    BY <2>1, <1>inv DEF SlotTypes
  <2>3. SlotTypes'
    BY <2>1, <2>2, <1>inv DEF SlotTypes, SlotTx, Creating
  <2>4. SlotRequests'
    BY <2>1, <2>2, <1>inv DEF SlotTypes, SlotRequests, SlotTx, Creating
  <2>5. Open' = Open
    BY <2>1, <2>2, <1>open, <1>inv DEF SlotTypes
  <2>6. \A q \in Procs : tx'[q].pc = "subscribed" => sym'[tx'[q].row] \in subs \cup cut
    BY <2>1, <1>inv DEF SlotTypes, SlotRequests, SlotPhases, Creating
  <2> QED
    BY <2>1, <2>3, <2>4, <2>5, <2>6, <1>inv, <1>serving DEF SlotPhases
<1>2. ASSUME NEW p \in Procs, Slots!reconcile_on_create(p) PROVE SlotInvariant'
  <2>1. PICK s : s = sym[tx[p].row]
    OBVIOUS
  <2>2. /\ tx[p].pc = "inserted" /\ (s \in subs \/ Slots!Admits(s))
        /\ subs' = subs \cup {s} /\ cut' = cut \ {s} /\ tx' = [tx EXCEPT ![p].pc = "subscribed"]
        /\ UNCHANGED <<phase, seed, sym, status>>
    BY <1>2, <2>1 DEF Slots!reconcile_on_create
  <2>3. PICK r : tx[p].row = r /\ tx' = [tx EXCEPT ![p] = [pc |-> "subscribed", row |-> r]] /\ r \in Slots!Rows
    BY <2>2, <1>inv, SlotAdvances DEF SlotRequests
  <2>4. SlotTypes'
    BY <2>2, <2>3, <1>inv DEF SlotTypes, SlotTx, Creating
  <2>5. SlotRequests'
    <3>0. /\ tx'[p].pc = "subscribed" /\ tx'[p].row = tx[p].row
          /\ \A q \in Procs \ {p} : tx'[q] = tx[q]
      BY <2>3, <1>inv DEF SlotTypes
    <3>1. \A q \in Procs : tx'[q].row = tx[q].row /\ (tx'[q].pc \in Creating <=> tx[q].pc \in Creating)
      BY <2>2, <3>0 DEF Creating
    <3>2. \A q \in Procs : tx'[q].pc # "idle" => tx[q].pc # "idle"
      BY <2>2, <3>0
    <3> QED
      BY <2>2, <3>1, <3>2, <1>inv DEF SlotRequests
  <2>6. Open' = Open
    BY <2>2, <1>open
  <2>7. phase = "serving"
    BY <2>2, <1>inv DEF SlotRequests
  <2>8. s \in Allowed /\ Fits(subs')
    BY <2>2, <1>inv, SlotAdmits
  <2>9. \A q \in Procs : tx'[q].pc = "subscribed" => sym'[tx'[q].row] \in subs' \cup cut'
    BY <2>1, <2>2, <2>3, <1>inv DEF SlotTypes, SlotPhases
  <2> QED
    BY <2>2, <2>4, <2>5, <2>6, <2>7, <2>8, <2>9, <1>inv, <1>serving DEF SlotPhases
<1>3. ASSUME NEW p \in Procs, Slots!CommitCreate(p) PROVE SlotInvariant'
  <2>1. /\ tx[p].pc = "subscribed" /\ status' = [status EXCEPT ![tx[p].row] = "open"]
        /\ tx' = [tx EXCEPT ![p] = Slots!Idle] /\ UNCHANGED <<phase, seed, subs, cut, sym>>
    BY <1>3 DEF Slots!CommitCreate
  <2>2. PICK r \in Slots!Rows : tx[p].row = r /\ sym[r] # None /\ sym[r] \in subs \cup cut /\ phase = "serving"
    BY <2>1, <1>inv DEF SlotRequests, SlotPhases, Creating
  <2>3. SlotTypes'
    BY <2>1, <2>2, <1>idle, <1>inv DEF SlotTypes
  <2>4. SlotRequests'
    BY <2>1, <2>2, <1>idle, <1>inv DEF SlotTypes, SlotRequests, Creating
  <2>5. Open' \subseteq Open \cup {sym[r]}
    BY <2>1, <2>2, <1>open, <1>inv DEF SlotTypes
  <2>6. \A q \in Procs : tx'[q].pc = "subscribed" => sym'[tx'[q].row] \in subs' \cup cut'
    BY <2>1, <1>idle, <1>inv DEF SlotTypes, SlotPhases
  <2> QED
    BY <2>1, <2>2, <2>3, <2>4, <2>5, <2>6, <1>inv, <1>serving DEF SlotPhases
<1>4. ASSUME NEW p \in Procs, Slots!RollbackCreate(p) PROVE SlotInvariant'
  <2>1. /\ tx[p].pc \in Creating /\ sym' = [sym EXCEPT ![tx[p].row] = None]
        /\ tx' = [tx EXCEPT ![p] = Slots!Idle] /\ UNCHANGED <<phase, seed, subs, cut, status>>
    BY <1>4 DEF Slots!RollbackCreate, Creating
  <2>2. PICK r \in Slots!Rows : tx[p].row = r /\ status[r] = "absent" /\ phase = "serving"
    BY <2>1, <1>inv DEF SlotRequests, Creating
  <2>3. SlotTypes'
    BY <2>1, <2>2, <1>idle, <1>inv DEF SlotTypes
  <2>4. SlotRequests'
    BY <2>1, <2>2, <1>idle, <1>inv DEF SlotTypes, SlotRequests, Creating
  <2>5. Open' = Open
    BY <2>1, <2>2, <1>open, <1>inv DEF SlotTypes
  <2>6. \A q \in Procs : tx'[q].pc = "subscribed" => sym'[tx'[q].row] \in subs' \cup cut'
    BY <2>1, <2>2, <1>idle, <1>inv DEF SlotTypes, SlotRequests, SlotPhases, Creating
  <2> QED
    BY <2>1, <2>2, <2>3, <2>4, <2>5, <2>6, <1>inv, <1>serving DEF SlotPhases
<1>5. ASSUME NEW i \in Slots!Rows, Slots!Close(i) PROVE SlotInvariant'
  <2>1. /\ phase = "serving" /\ status[i] = "open" /\ status' = [status EXCEPT ![i] = "closed"]
        /\ UNCHANGED <<phase, seed, subs, cut, sym, tx>>
    BY <1>5 DEF Slots!Close
  <2>2. SlotTypes' /\ SlotRequests'
    BY <2>1, <1>inv DEF SlotTypes, SlotRequests
  <2>3. Open' \subseteq Open
    BY <2>1, <1>open, <1>inv DEF SlotTypes
  <2> QED
    BY <2>1, <2>2, <2>3, <1>inv, <1>serving DEF SlotPhases
<1>other. ASSUME NEW p \in Procs, NEW w \in SlotTx, tx' = [tx EXCEPT ![p] = w], tx[p].pc \notin Creating,
                 phase = "serving", UNCHANGED <<phase, seed, sym>>,
                 w.pc = "idle" \/ (w.row \in Slots!Rows /\ status'[w.row] # "absent"),
                 w.pc \notin Creating,
                 status' = status \/ \E i \in Slots!Rows : status[i] # "absent" /\ status' = [status EXCEPT ![i] = "closed"],
                 Open \subseteq subs' \cup cut', subs' \cup cut' \subseteq Allowed, Fits(subs'),
                 \A q \in Procs : tx[q].pc = "subscribed" => sym[tx[q].row] \in subs' \cup cut'
          PROVE  SlotInvariant'
  <2>1. tx'[p] = w /\ \A q \in Procs \ {p} : tx'[q] = tx[q]
    BY <1>other, <1>inv DEF SlotTypes
  <2>2. \A i \in Slots!Rows : /\ status'[i] = "absent" <=> status[i] = "absent"
                              /\ status'[i] = "open" => status[i] = "open"
    BY <1>other, <1>inv DEF SlotTypes
  <2>3. SlotTypes'
    BY <1>other, <2>2, <1>inv DEF SlotTypes
  <2>4. SlotRequests'
    <3>1. \A q \in Procs : tx'[q].pc \in Creating => q # p
      BY <1>other, <2>1
    <3>2. \A q \in Procs : tx'[q].pc # "idle" =>
            tx'[q].row \in Slots!Rows /\ (status'[tx'[q].row] = "absent" <=> tx'[q].pc \in Creating)
      BY <1>other, <2>1, <2>2, <1>inv DEF SlotRequests
    <3> QED
      BY <1>other, <2>1, <3>1, <3>2, <1>inv DEF SlotRequests
  <2>5. Open' \subseteq Open
    BY <1>other, <2>2, <1>open
  <2>6. \A q \in Procs : tx'[q].pc = "subscribed" => sym'[tx'[q].row] \in subs' \cup cut'
    BY <1>other, <2>1 DEF Creating
  <2> QED
    BY <1>other, <2>3, <2>4, <2>5, <2>6, <1>inv, <1>serving DEF SlotPhases
<1>a. ASSUME NEW p \in Procs, NEW i \in Slots!Rows, Slots!ReadForCancel(p, i) PROVE SlotInvariant'
  <2>1. PICK w : w = [pc |-> "cancelling", row |-> i]
    OBVIOUS
  <2>2. /\ phase = "serving" /\ tx[p].pc = "idle" /\ status[i] = "open" /\ tx' = [tx EXCEPT ![p] = w]
        /\ UNCHANGED <<phase, seed, subs, cut, sym, status>>
    BY <1>a, <2>1 DEF Slots!ReadForCancel
  <2>3. w \in SlotTx /\ w.row = i /\ w.pc \notin Creating
    BY <2>1 DEF SlotTx, Creating
  <2> QED
    BY <2>2, <2>3, <1>inv, <1>other DEF SlotPhases, Creating
<1>b. ASSUME NEW p \in Procs, Slots!CommitCancel(p) PROVE SlotInvariant'
  <2>1. /\ tx[p].pc = "cancelling" /\ status' = [status EXCEPT ![tx[p].row] = "closed"]
        /\ tx' = [tx EXCEPT ![p].pc = "cancelled"] /\ UNCHANGED <<phase, seed, subs, cut, sym>>
    BY <1>b DEF Slots!CommitCancel
  <2>2. PICK r \in Slots!Rows : tx[p].row = r /\ status[r] # "absent" /\ phase = "serving"
    BY <2>1, <1>inv DEF SlotRequests, Creating
  <2>3. PICK w : w = [pc |-> "cancelled", row |-> r]
    OBVIOUS
  <2>4. w \in SlotTx /\ w.row = r /\ w.pc \notin Creating
    BY <2>3 DEF SlotTx, Creating
  <2>5. tx' = [tx EXCEPT ![p] = w]
    BY <2>1, <2>2, <2>3, <1>inv, SlotAdvances
  <2>6. status'[r] = "closed"
    BY <2>1, <2>2, <1>inv DEF SlotTypes
  <2> QED
    BY <2>1, <2>2, <2>4, <2>5, <2>6, <1>inv, <1>other DEF SlotPhases, Creating
<1>c. ASSUME NEW p \in Procs, Slots!CountRemaining(p) PROVE SlotInvariant'
  <2>1. /\ tx[p].pc = "cancelled" /\ UNCHANGED <<phase, seed, subs, cut, sym, status>>
        /\ tx' = [tx EXCEPT ![p] = Slots!Idle] \/ tx' = [tx EXCEPT ![p].pc = "unsubscribing"]
    BY <1>c DEF Slots!CountRemaining
  <2>2. PICK r \in Slots!Rows : tx[p].row = r /\ status[r] # "absent" /\ phase = "serving"
    BY <2>1, <1>inv DEF SlotRequests, Creating
  <2>3. PICK w : w = [pc |-> "unsubscribing", row |-> r]
    OBVIOUS
  <2>4. w \in SlotTx /\ w.row = r /\ w.pc \notin Creating /\ Slots!Idle.pc \notin Creating
    BY <2>3, <1>idle DEF SlotTx, Creating
  <2>5. tx' = [tx EXCEPT ![p] = Slots!Idle] \/ tx' = [tx EXCEPT ![p] = w]
    BY <2>1, <2>2, <2>3, <1>inv, SlotAdvances
  <2>6. tx[p].pc \notin Creating /\ Open \subseteq subs \cup cut
    BY <2>1, <2>2, <1>inv DEF Creating, SlotPhases
  <2>7. \A q \in Procs : tx[q].pc = "subscribed" => sym[tx[q].row] \in subs \cup cut
    BY <1>inv DEF SlotPhases
  <2>8. CASE tx' = [tx EXCEPT ![p] = Slots!Idle]
    BY <2>1, <2>2, <2>4, <2>6, <2>7, <2>8, <1>idle, <1>inv, <1>other
  <2>9. CASE tx' = [tx EXCEPT ![p] = w]
    BY <2>1, <2>2, <2>4, <2>6, <2>7, <2>9, <1>inv, <1>other
  <2> QED
    BY <2>5, <2>8, <2>9
<1>d. ASSUME NEW p \in Procs, Slots!reconcile_on_terminal(p) PROVE SlotInvariant'
  <2>1. PICK s : s = sym[tx[p].row]
    OBVIOUS
  <2>2. /\ tx[p].pc = "unsubscribing" /\ subs' = subs \ {s}
        /\ cut' = cut \cup {x \in {s} : Slots!Needed(x)}
        /\ tx' = [tx EXCEPT ![p] = Slots!Idle] /\ UNCHANGED <<phase, seed, sym, status>>
    BY <1>d, <2>1 DEF Slots!reconcile_on_terminal
  <2>3. Slots!Needed(s) <=> s \in Open \/ \E q \in Procs : tx[q].pc = "subscribed" /\ sym[tx[q].row] = s
    BY DEF Slots!Needed, Open
  <2>4. phase = "serving"
    BY <2>2, <1>inv DEF SlotRequests
  <2>5. Open \subseteq subs \cup cut /\ \A q \in Procs : tx[q].pc = "subscribed" => sym[tx[q].row] \in subs \cup cut
    BY <2>4, <1>inv DEF SlotPhases
  <2>6. Open \subseteq subs' \cup cut' /\ \A q \in Procs : tx[q].pc = "subscribed" => sym[tx[q].row] \in subs' \cup cut'
    BY <2>2, <2>3, <2>5
  <2>7. subs' \cup cut' \subseteq Allowed
    BY <2>2, <2>3, <2>5, <1>inv
  <2>8. Fits(subs')
    BY <2>2, <1>inv, PartFits
  <2>9. tx[p].pc \notin Creating /\ Slots!Idle.pc \notin Creating
    BY <2>2, <1>idle DEF Creating
  <2> QED
    BY <2>2, <2>4, <2>6, <2>7, <2>8, <2>9, <1>idle, <1>other
<1>6. CASE Slots!BeginLegacySeed
  <2>1. PICK E \in SUBSET {i \in Plans : status[i] = "open"} :
           /\ status' = [i \in Slots!Rows |-> IF i \in E THEN "closed" ELSE status[i]]
           /\ seed' = {sym[i] : i \in {j \in Plans : status[j] = "open"} \ E}
    BY <1>6 DEF Slots!BeginLegacySeed
  <2>2. phase = "down" /\ phase' = "legacy" /\ UNCHANGED <<subs, cut, sym, tx>>
    BY <1>6 DEF Slots!BeginLegacySeed
  <2>3. Open' \subseteq Open /\ seed' = OpenPlans' /\ OpenPlans' \subseteq Open'
    <3>1. {j \in Plans : status'[j] = "open"} = {j \in Plans : status[j] = "open"} \ E
      BY <2>1, <1>rows
    <3>2. {j \in Slots!Rows : status'[j] = "open"} \subseteq {j \in Slots!Rows : status[j] = "open"}
      BY <2>1, <1>rows
    <3>3. {j \in Plans : status'[j] = "open"} \subseteq {j \in Slots!Rows : status'[j] = "open"}
      BY <1>rows
    <3>4. seed' = OpenPlans'
      BY <3>1, <2>1, <2>2, <1>open
    <3> QED
      BY <3>2, <3>3, <3>4, <2>2, <1>open
  <2>4. SlotTypes' /\ SlotRequests' /\ \A q \in Procs : tx'[q].pc = "idle"
    BY <2>1, <2>2, <1>inv DEF SlotTypes, SlotRequests, Creating
  <2>5. SlotPhases'
    BY <2>2, <2>3, <2>4, <1>inv DEF SlotPhases
  <2> QED
    BY <2>2, <2>3, <2>4, <2>5, <1>inv, SlotShrinks DEF SlotInvariant
<1>7. CASE Slots!SeedOne
  <2>1. PICK s \in seed : Slots!Admits(s) /\ subs' = subs \cup {s} /\ seed' = seed \ {s}
    BY <1>7 DEF Slots!SeedOne
  <2>2. phase \in {"legacy", "core"} /\ UNCHANGED <<phase, cut, sym, status, tx>>
    BY <1>7 DEF Slots!SeedOne
  <2>3. Open' = Open /\ OpenPlans' = OpenPlans /\ OpenIntents' = OpenIntents
    BY <2>2, <1>open
  <2>4. SlotTypes' /\ SlotRequests' /\ \A q \in Procs : tx'[q].pc = "idle"
    BY <2>1, <2>2, <1>inv DEF SlotTypes, SlotRequests
  <2>5. SlotPhases'
    BY <2>1, <2>2, <2>3, <2>4, <1>inv DEF SlotPhases
  <2>6. s \in Allowed /\ Fits(subs')
    BY <2>1, <1>inv, SlotAdmits
  <2>7. subs' \cup Open' = subs \cup Open
    BY <2>1, <2>2, <2>3, <1>inv DEF SlotPhases
  <2>8. SlotQuota'
    BY <2>2, <2>6, <2>7, <1>inv DEF SlotQuota, Fits
  <2> QED
    BY <2>4, <2>5, <2>8 DEF SlotInvariant
<1>8. CASE Slots!BeginCoreSeed
  <2>1. PICK E \in SUBSET {i \in Intents : status[i] = "open"} :
           /\ status' = [i \in Slots!Rows |-> IF i \in E THEN "closed" ELSE status[i]]
           /\ seed' = {sym[i] : i \in {j \in Intents : status[j] = "open"} \ E}
    BY <1>8 DEF Slots!BeginCoreSeed
  <2>2. phase = "legacy" /\ seed = {} /\ phase' = "core" /\ UNCHANGED <<subs, cut, sym, tx>>
    BY <1>8 DEF Slots!BeginCoreSeed
  <2>3. /\ Open' \subseteq Open /\ seed' = OpenIntents' /\ OpenIntents' \subseteq Open'
        /\ OpenPlans' = OpenPlans
    <3>1. {j \in Intents : status'[j] = "open"} = {j \in Intents : status[j] = "open"} \ E
      BY <2>1, <1>rows
    <3>2. {j \in Slots!Rows : status'[j] = "open"} \subseteq {j \in Slots!Rows : status[j] = "open"}
      BY <2>1, <1>rows
    <3>3. {j \in Intents : status'[j] = "open"} \subseteq {j \in Slots!Rows : status'[j] = "open"}
      BY <1>rows
    <3>4. seed' = OpenIntents'
      <4>1. OpenIntents' = {sym'[i] : i \in {j \in Intents : status'[j] = "open"}}
        BY <1>open, Zenon
      <4>2. sym' = sym /\ seed' = {sym[i] : i \in {j \in Intents : status[j] = "open"} \ E}
        BY <2>1, <2>2, Zenon
      <4> QED
        BY ONLY <3>1, <4>1, <4>2
    <3>5. {j \in Plans : status'[j] = "open"} = {j \in Plans : status[j] = "open"}
      BY <2>1, <1>rows DEF Slots!SubscriptionAssumption
    <3> QED
      BY <3>2, <3>3, <3>4, <3>5, <2>2, <1>open
  <2>4. SlotTypes' /\ SlotRequests' /\ \A q \in Procs : tx'[q].pc = "idle"
    BY <2>1, <2>2, <1>inv DEF SlotTypes, SlotRequests, Creating
  <2>5. SlotPhases'
    BY <2>2, <2>3, <2>4, <1>inv DEF SlotPhases
  <2> QED
    BY <2>2, <2>3, <2>4, <2>5, <1>inv, SlotShrinks DEF SlotInvariant
<1>9. CASE Slots!Serve
  <2>1. /\ phase = "core" /\ seed = {} /\ phase' = "serving" /\ cut' = {}
        /\ UNCHANGED <<seed, subs, sym, status, tx>>
    BY <1>9 DEF Slots!Serve
  <2>2. Open' = OpenPlans \cup OpenIntents
    BY <2>1, <1>open, <1>rows
  <2>3. SlotTypes' /\ SlotRequests' /\ \A q \in Procs : tx'[q].pc = "idle"
    BY <2>1, <1>inv DEF SlotTypes, SlotRequests
  <2>4. OpenPlans \cup OpenIntents \subseteq subs
    BY <2>1, <1>inv DEF SlotPhases
  <2> QED
    BY <2>1, <2>2, <2>3, <2>4, <1>inv, <1>serving
<1>10. CASE Slots!Stopped
  <2>1. /\ phase' = "down" /\ seed' = {} /\ subs' = {} /\ tx' = [p \in Procs |-> Slots!Idle]
        /\ sym' = [i \in Slots!Rows |-> IF status[i] = "absent" THEN None ELSE sym[i]]
        /\ UNCHANGED <<cut, status>>
    BY <1>10 DEF Slots!Stopped
  <2>2. Open' = Open
    BY <2>1, <1>open
  <2>3. SlotTypes' /\ SlotRequests' /\ SlotPhases'
    BY <2>1, <1>idle, <1>inv DEF SlotTypes, SlotRequests, SlotPhases, Creating
  <2> QED
    BY <2>1, <2>2, <2>3, <1>inv, SlotShrinks DEF SlotInvariant
<1>11. CASE UNCHANGED Slots!vars
  <2>1. UNCHANGED <<phase, seed, subs, cut, sym, status, tx>>
    BY <1>11 DEF Slots!vars
  <2>2. Open' = Open /\ OpenPlans' = OpenPlans /\ OpenIntents' = OpenIntents
    BY <2>1, <1>open
  <2>3. SlotTypes' /\ SlotRequests' /\ SlotPhases'
    BY <2>1, <2>2, <1>inv DEF SlotTypes, SlotRequests, SlotPhases
  <2> QED
    BY <2>1, <2>2, <2>3, <1>inv, SlotShrinks DEF SlotInvariant
<1> QED
  BY <1>1, <1>2, <1>3, <1>4, <1>5, <1>6, <1>7, <1>8, <1>9, <1>10, <1>11, <1>a, <1>b, <1>c, <1>d
  DEF Slots!Next, Slots!Lifespan, Slots!StartupAborts, Slots!Shutdown

\* Every open intent of either table is streamed as long as the process serves,
\* unless a cancellation has unsubscribed its symbol while it was needed; and as long
\* as none has, the startup loop is never refused.  Through creations and
\* cancellations that overlap, failed creations, a broker that fails and restarts:
\* for any set of rows and symbols, any quota and any number of requests at a time
\* (ShioajiQuoteProvider.subscribe, reconcile_on_create, reconcile_on_terminal,
\* lifespan).
THEOREM OpenIsAlwaysStreamed ==
    ASSUME Slots!SubscriptionAssumption
    PROVE  Slots!Spec => [](Slots!OpenIsStreamed /\ Slots!SeedIsAdmitted)
<1>1. Slots!Init => SlotInvariant
  <2> SUFFICES ASSUME Slots!Init PROVE SlotInvariant
    OBVIOUS
  <2>1. Open = {}
    BY DEF Slots!Init, Open, Slots!active_or_scheduled_symbols
  <2>2. subs = {} /\ cut = {} /\ Cardinality({}) = 0 /\ IsFiniteSet({})
    BY FS_EmptySet DEF Slots!Init
  <2>3. SlotQuota
    BY <2>1, <2>2 DEF SlotQuota, Fits, Slots!SubscriptionAssumption
  <2> QED
    BY <2>3 DEF Slots!Init, Slots!Idle, SlotInvariant, SlotTypes, SlotTx, SlotRequests, SlotPhases, Creating
<1>2. SlotInvariant /\ [Slots!Next]_(Slots!vars) => SlotInvariant'
  BY SlotStep
<1>3. SlotInvariant => Slots!OpenIsStreamed /\ Slots!SeedIsAdmitted
  <2> SUFFICES ASSUME SlotInvariant PROVE Slots!OpenIsStreamed /\ Slots!SeedIsAdmitted
    OBVIOUS
  <2>1. Slots!OpenIsStreamed
    BY DEF SlotInvariant, SlotPhases, Slots!OpenIsStreamed, Open
  <2>2. SUFFICES ASSUME cut = {}
                 PROVE  /\ Cardinality(subs \cup seed \cup Open) <= MAX_SUBSCRIPTIONS
                        /\ \A s \in seed : Slots!Admits(s)
    BY <2>1, SlotCardinality DEF Slots!SeedIsAdmitted, Open
  <2>3. seed \subseteq Open /\ Fits(subs \cup Open) /\ Open \subseteq Allowed
    BY <2>2 DEF SlotInvariant, SlotTypes, SlotPhases, SlotQuota
  <2>4. subs \cup seed \cup Open = subs \cup Open
    BY <2>3
  <2>5. ASSUME NEW s \in seed, s \notin subs PROVE Cardinality(subs) < MAX_SUBSCRIPTIONS
    <3>1. IsFiniteSet(subs \cup Open) /\ subs \cup {s} \in SUBSET (subs \cup Open) /\ subs \in SUBSET (subs \cup Open)
      BY <2>3, <2>5 DEF Fits
    <3>2. IsFiniteSet(subs) /\ Cardinality(subs \cup {s}) <= Cardinality(subs \cup Open)
      BY <3>1, FS_Subset
    <3>3. Cardinality(subs \cup {s}) = Cardinality(subs) + 1
      BY <2>5, <3>2, FS_AddElement
    <3>4. Cardinality(subs) \in Nat /\ Cardinality(subs \cup Open) \in Nat
      BY <3>1, <3>2, FS_CardinalityType
    <3> QED
      BY <2>3, <3>2, <3>3, <3>4 DEF Fits, Slots!SubscriptionAssumption
  <2>6. \A s \in seed : Slots!Admits(s)
    BY <2>3, <2>5, SlotCardinality DEF Slots!Admits
  <2> QED
    BY <2>3, <2>4, <2>6 DEF Fits
<1> QED
  BY <1>1, <1>2, <1>3, PTL DEF Slots!Spec

-----------------------------------------------------------------------------
(* RateLimiter *)

BucketRows == {r \in [tokens : Nat, at : Nat] : r.tokens <= CAPACITY /\ r.at <= clock}
BucketTx == [pc : {"idle", "arrived", "ensured", "holds"}, now : Nat, row : [tokens : Nat, at : Nat] \cup {None}]

BucketTypes ==
    /\ clock \in Nat /\ since \in Nat /\ admitted \in Nat /\ back \in Nat
    /\ since <= clock
    /\ bucket \in BucketRows \cup {None}
    /\ tx \in [Procs -> BucketTx]
    /\ \A p \in Procs : tx[p].now <= clock

\* FOR UPDATE: one process has the row, and has it as it is committed, or as it
\* inserted it.
BucketHolders ==
    \A p \in Procs : tx[p].pc = "holds" =>
        /\ ~ Bucket!Locked(p)
        /\ tx[p].row = IF bucket = None THEN [tokens |-> CAPACITY, at |-> tx[p].now] ELSE bucket

\* What was admitted and what is left were in the bucket or came in since, ticks
\* that were counted again included.
BucketDebt ==
    /\ bucket = None => admitted = 0
    /\ bucket # None => admitted * COST + bucket.tokens <= CAPACITY + (bucket.at - since + back) * REFILL

BucketInvariant == BucketTypes /\ BucketHolders /\ BucketDebt

\* Counting in attempts, ticks or units is the same.
LEMMA Products ==
    /\ \A a, b, c \in Int : (a + b) * c = a * c + b * c
    /\ \A a, b \in Int, c \in Nat : a <= b => a * c <= b * c
    /\ \A a, b \in Int : a * b \in Int /\ 0 * b = 0 /\ a * 0 = 0
OBVIOUS

\* What consume leaves in the bucket, and what it takes.
LEMMA BucketConsume ==
    ASSUME Bucket!RateLimiterAssumption, NEW now \in Nat, NEW row \in [tokens : Nat, at : Nat],
           row.tokens <= CAPACITY
    PROVE  LET c == Bucket!consume(row, now)
               in == Bucket!Most(0, now - row.at) * REFILL
           IN  /\ c.row \in [tokens : Nat, at : Nat] /\ c.row.tokens <= CAPACITY /\ c.row.at = now
               /\ in \in Nat
               /\ c.row.tokens + (IF c.allowed THEN COST ELSE 0) <= row.tokens + in
<1> DEFINE c == Bucket!consume(row, now)
           el == Bucket!Most(0, now - row.at)
           in == el * REFILL
           t == Bucket!refill(row.tokens, now - row.at)
<1>1. el \in Nat
  BY DEF Bucket!Most
<1>2. in \in Nat
  <2> HIDE DEF el
  <2> QED
    BY <1>1 DEF Bucket!RateLimiterAssumption
<1>3. t \in Nat /\ t <= CAPACITY /\ t <= row.tokens + in
  <2> HIDE DEF in
  <2>1. t = Bucket!Least(CAPACITY, row.tokens + in)
    BY DEF Bucket!refill, in
  <2> HIDE DEF t
  <2> QED
    BY <1>2, <2>1 DEF Bucket!Least, Bucket!RateLimiterAssumption
<1>4. c = [allowed |-> t >= COST, row |-> [tokens |-> IF t >= COST THEN t - COST ELSE t, at |-> now]]
  BY DEF Bucket!consume
<1> HIDE DEF t, c, in
<1>5. /\ c.row \in [tokens : Nat, at : Nat] /\ c.row.tokens <= CAPACITY /\ c.row.at = now
      /\ c.row.tokens + (IF c.allowed THEN COST ELSE 0) <= row.tokens + in
  <2>1. CASE t >= COST
    <3>1. c.allowed /\ c.row = [tokens |-> t - COST, at |-> now]
      BY <1>4, <2>1, Zenon
    <3>2. COST \in Nat /\ row.tokens + in \in Int
      BY <1>2 DEF Bucket!RateLimiterAssumption
    <3>3. t - COST \in Nat /\ t - COST <= CAPACITY /\ t - COST + COST <= row.tokens + in
      BY ONLY <1>3, <2>1, <3>2, Bucket!RateLimiterAssumption DEF Bucket!RateLimiterAssumption
    <3> QED
      BY ONLY <3>1, <3>3, now \in Nat
  <2>2. CASE ~ (t >= COST)
    <3>1. ~ c.allowed /\ c.row = [tokens |-> t, at |-> now]
      BY <1>4, <2>2, Zenon
    <3> QED
      BY <1>2, <1>3, <2>2, <3>1 DEF Bucket!RateLimiterAssumption
  <2> QED
    BY <2>1, <2>2
<1> QED
  BY <1>2, <1>5 DEF c, in, el

\* A process with nothing under way.
LEMMA BucketIdle ==
    Bucket!Idle \in BucketTx /\ Bucket!Idle.pc = "idle" /\ Bucket!Idle.now = 0
BY DEF Bucket!Idle, BucketTx

\* What the invariant says of one process.
LEMMA BucketProcess ==
    ASSUME BucketInvariant, NEW p \in Procs
    PROVE  /\ tx \in [Procs -> BucketTx] /\ tx[p] \in BucketTx /\ tx[p].now \in Nat
           /\ clock \in Nat /\ tx[p].now <= clock
<1>1. tx \in [Procs -> BucketTx] /\ clock \in Nat /\ tx[p].now <= clock
  BY Zenon DEF BucketInvariant, BucketTypes
<1> QED
  BY ONLY <1>1, p \in Procs DEF BucketTx

\* A step of p alone, that neither takes tokens nor deletes the bucket.
LEMMA BucketAlone ==
    ASSUME BucketInvariant, NEW p \in Procs, NEW w \in BucketTx,
           tx' = [tx EXCEPT ![p] = w], UNCHANGED <<clock, bucket, admitted, since, back>>,
           w.now <= clock,
           w.pc = "holds" => /\ ~ Bucket!Locked(p)
                             /\ w.row = IF bucket = None THEN [tokens |-> CAPACITY, at |-> w.now] ELSE bucket
    PROVE  BucketInvariant'
<1>1. /\ tx \in [Procs -> BucketTx] /\ tx' \in [Procs -> BucketTx]
      /\ tx'[p] = w /\ \A q \in Procs \ {p} : tx'[q] = tx[q]
  BY BucketProcess
<1>2. clock' = clock /\ bucket' = bucket /\ admitted' = admitted /\ since' = since /\ back' = back /\ BucketRows' = BucketRows
  BY Zenon DEF BucketRows
<1>3. BucketTypes'
  <2>1. \A q \in Procs : tx'[q].now <= clock
    BY <1>1, Zenon DEF BucketInvariant, BucketTypes
  <2> QED
    BY <1>1, <1>2, <2>1, Zenon DEF BucketInvariant, BucketTypes
<1>4. BucketHolders'
  <2> SUFFICES ASSUME NEW q \in Procs, tx'[q].pc = "holds"
               PROVE  /\ \A x \in Procs \ {q} : tx'[x].pc # "holds"
                      /\ tx'[q].row = IF bucket = None THEN [tokens |-> CAPACITY, at |-> tx'[q].now] ELSE bucket
    BY <1>2, Zenon DEF BucketHolders, Bucket!Locked
  <2>1. CASE q = p
    BY <1>1, <2>1, Zenon DEF Bucket!Locked
  <2>2. CASE q # p
    <3>1. tx'[q] = tx[q] /\ tx[q].pc = "holds"
      BY <1>1, <2>2, Zenon
    <3>2. /\ \A x \in Procs \ {q} : tx[x].pc # "holds"
          /\ tx[q].row = IF bucket = None THEN [tokens |-> CAPACITY, at |-> tx[q].now] ELSE bucket
      BY <3>1, Zenon DEF BucketInvariant, BucketHolders, Bucket!Locked
    <3>3. w.pc # "holds"
      BY <2>2, <3>1, Zenon DEF Bucket!Locked
    <3> QED
      BY <1>1, <3>1, <3>2, <3>3, Zenon
  <2> QED
    BY <2>1, <2>2, Zenon
<1>5. BucketDebt'
  BY <1>2, Zenon DEF BucketInvariant, BucketDebt
<1> QED
  BY <1>3, <1>4, <1>5, Zenon DEF BucketInvariant

\* An error, or a row that is gone, gives up what the request was doing.
LEMMA BucketGivesUp ==
    ASSUME BucketInvariant, NEW p \in Procs, tx' = [tx EXCEPT ![p] = Bucket!Idle],
           UNCHANGED <<clock, bucket, admitted, since, back>>
    PROVE  BucketInvariant'
<1>1. Bucket!Idle.now <= clock /\ Bucket!Idle.pc = "idle" /\ Bucket!Idle.pc # "holds"
  BY BucketIdle, BucketProcess
<1> QED
  BY <1>1, BucketIdle, BucketAlone, Zenon

\* The lock of a row is p's alone.
LEMMA BucketFreed ==
    ASSUME BucketInvariant, NEW p \in Procs, tx[p].pc = "holds",
           tx' = [tx EXCEPT ![p] = Bucket!Idle]
    PROVE  /\ tx' \in [Procs -> BucketTx] /\ BucketHolders'
           /\ \A q \in Procs : tx'[q] = Bucket!Idle \/ tx'[q] = tx[q]
<1>1. /\ tx' \in [Procs -> BucketTx]
      /\ tx'[p] = Bucket!Idle /\ \A q \in Procs \ {p} : tx'[q] = tx[q]
  BY BucketProcess, BucketIdle
<1>2. \A q \in Procs : tx'[q].pc # "holds"
  <2>1. \A q \in Procs \ {p} : tx[q].pc # "holds"
    BY Zenon DEF BucketInvariant, BucketHolders, Bucket!Locked
  <2>2. Bucket!Idle.pc # "holds"
    BY ONLY BucketIdle
  <2> QED
    BY <1>1, <2>1, <2>2, Zenon
<1> QED
  BY <1>1, <1>2, Zenon DEF BucketHolders

\* What was taken and is left grows by what came in.
LEMMA DebtGrows ==
    ASSUME NEW cap \in Nat, NEW rate \in Nat, NEW old \in Int, NEW new \in Int, NEW had \in Nat,
           NEW left \in Nat, NEW took \in Nat, NEW before \in Int, NEW up \in Nat,
           old + had <= cap + before * rate, new = old + took, left + took <= had + up * rate
    PROVE  new + left <= cap + (before + up) * rate
<1>1. /\ (before + up) * rate = before * rate + up * rate
      /\ before * rate \in Int /\ up * rate \in Int
  BY ONLY Products, before \in Int, up \in Nat, rate \in Nat
<1>2. PICK x \in Int, y \in Int : x = before * rate /\ y = up * rate
  BY <1>1, Zenon
<1>3. old + had <= cap + x /\ left + took <= had + y
  BY <1>2, Zenon
<1>4. new + left <= cap + (x + y)
  BY ONLY <1>3, cap \in Nat, old \in Int, new \in Int, had \in Nat, left \in Nat, took \in Nat,
          x \in Int, y \in Int, new = old + took
<1> QED
  BY <1>1, <1>2, <1>4, Zenon

\* The time of a request, counted from a row's updated_at.
LEMMA TimeCounted ==
    ASSUME NEW now \in Nat, NEW at \in Nat, NEW up \in Nat, NEW down \in Nat, NEW from \in Nat,
           NEW set \in Nat, now + down = at + up
    PROVE  /\ now - from + (set + down) = (at - from + set) + up /\ at - from + set \in Int
           /\ now - now + (set + down) = set + down /\ set + down \in Nat
OBVIOUS

\* A failed attempt: what it found, what came in, what it took and what it left.
LEMMA BucketTakes ==
    ASSUME Bucket!RateLimiterAssumption, BucketInvariant, NEW p \in Procs, Bucket!LoginFails(p)
    PROVE  \E now \in Nat, had \in [tokens : Nat, at : Nat], left \in [tokens : Nat, at : Nat],
              took \in Nat, in \in Nat :
                /\ now = tx[p].now /\ now <= clock
                /\ had = IF bucket = None THEN [tokens |-> CAPACITY, at |-> now] ELSE bucket
                /\ in = Bucket!Most(0, now - had.at) * REFILL
                /\ left.tokens <= CAPACITY /\ left.at = now /\ left.tokens + took <= had.tokens + in
                /\ bucket' = left /\ admitted' \in Nat /\ admitted' * COST = admitted * COST + took
                /\ since' = IF bucket = None THEN now ELSE since
                /\ back' = back + Bucket!Most(0, had.at - now)
<1>1. PICK now, had : /\ now \in Nat /\ now = tx[p].now /\ now <= clock /\ had = tx[p].row
  BY BucketProcess, Zenon
<1>2. PICK c : c = Bucket!consume(had, now)
  OBVIOUS
<1>3. /\ tx[p].pc = "holds" /\ bucket' = c.row
      /\ admitted' = IF c.allowed THEN admitted + 1 ELSE admitted
      /\ since' = IF bucket = None THEN now ELSE since
      /\ back' = back + Bucket!Most(0, had.at - now)
  BY <1>1, <1>2, Zenon DEF Bucket!LoginFails
<1>4. had = IF bucket = None THEN [tokens |-> CAPACITY, at |-> now] ELSE bucket
  BY <1>1, <1>3, Zenon DEF BucketInvariant, BucketHolders
<1>5. had \in [tokens : Nat, at : Nat] /\ had.tokens <= CAPACITY
  <2>1. CASE bucket = None
    <3>1. CAPACITY \in Nat /\ had = [tokens |-> CAPACITY, at |-> now]
      BY <1>4, <2>1, Zenon DEF Bucket!RateLimiterAssumption
    <3> QED
      BY ONLY <1>1, <3>1
  <2>2. CASE bucket # None
    BY <1>4, <2>2, Zenon DEF BucketInvariant, BucketTypes, BucketRows
  <2> QED
    BY <2>1, <2>2, Zenon
<1>6a. /\ Bucket!Most(0, now - had.at) * REFILL \in Nat
       /\ c.row \in [tokens : Nat, at : Nat] /\ c.row.tokens <= CAPACITY /\ c.row.at = now
       /\ c.row.tokens + (IF c.allowed THEN COST ELSE 0) <= had.tokens + Bucket!Most(0, now - had.at) * REFILL
  BY ONLY Bucket!RateLimiterAssumption, <1>1, <1>2, <1>5, BucketConsume
<1>6. PICK in \in Nat :
        /\ in = Bucket!Most(0, now - had.at) * REFILL
        /\ c.row \in [tokens : Nat, at : Nat] /\ c.row.tokens <= CAPACITY /\ c.row.at = now
        /\ c.row.tokens + (IF c.allowed THEN COST ELSE 0) <= had.tokens + in
  BY <1>6a, Zenon
<1>7. PICK took \in Nat : took = IF c.allowed THEN COST ELSE 0
  BY Zenon DEF Bucket!RateLimiterAssumption
<1>8. admitted' \in Nat /\ admitted' * COST = admitted * COST + took
  <2>1. admitted \in Nat /\ COST \in Nat
    BY Zenon DEF BucketInvariant, BucketTypes, Bucket!RateLimiterAssumption
  <2>2. CASE c.allowed
    <3>1. admitted' = admitted + 1 /\ took = COST
      BY <1>3, <1>7, <2>2, Zenon
    <3> QED
      BY ONLY <2>1, <3>1, Products
  <2>3. CASE ~ c.allowed
    <3>1. admitted' = admitted /\ took = 0
      BY <1>3, <1>7, <2>3, Zenon
    <3>2. admitted * COST \in Int
      BY ONLY <2>1, Products
    <3> QED
      BY ONLY <2>1, <3>1, <3>2
  <2> QED
    BY <2>2, <2>3, Zenon
<1>9. PICK left \in [tokens : Nat, at : Nat] : left = c.row
  BY <1>6, Zenon
<1>10. left.tokens <= CAPACITY /\ left.at = now /\ left.tokens + took <= had.tokens + in /\ bucket' = left
  BY <1>3, <1>6, <1>7, <1>9, Zenon
<1> QED
  BY <1>1, <1>3, <1>4, <1>5, <1>6, <1>8, <1>10, Zenon

\* A failed attempt keeps the invariant: the ticks between updated_at and the time of
\* the request are refilled, or are set back.
LEMMA BucketFails ==
    ASSUME Bucket!RateLimiterAssumption, BucketInvariant, NEW p \in Procs, Bucket!LoginFails(p)
    PROVE  BucketInvariant'
<1>1. PICK now \in Nat, had \in [tokens : Nat, at : Nat], left \in [tokens : Nat, at : Nat],
           took \in Nat, in \in Nat :
             /\ now = tx[p].now /\ now <= clock
             /\ had = IF bucket = None THEN [tokens |-> CAPACITY, at |-> now] ELSE bucket
             /\ in = Bucket!Most(0, now - had.at) * REFILL
             /\ left.tokens <= CAPACITY /\ left.at = now /\ left.tokens + took <= had.tokens + in
             /\ bucket' = left /\ admitted' \in Nat /\ admitted' * COST = admitted * COST + took
             /\ since' = IF bucket = None THEN now ELSE since
             /\ back' = back + Bucket!Most(0, had.at - now)
  BY BucketTakes, Zenon
<1>2. tx[p].pc = "holds" /\ tx' = [tx EXCEPT ![p] = Bucket!Idle] /\ clock' = clock
  BY Zenon DEF Bucket!LoginFails
<1>3. tx' \in [Procs -> BucketTx] /\ BucketHolders' /\ \A q \in Procs : tx'[q] = Bucket!Idle \/ tx'[q] = tx[q]
  BY <1>2, BucketFreed, Zenon
<1>4. /\ clock \in Nat /\ since \in Nat /\ since <= clock /\ admitted \in Nat /\ back \in Nat
      /\ \A q \in Procs : tx[q].now <= clock
  BY Zenon DEF BucketInvariant, BucketTypes
<1>5. /\ CAPACITY \in Nat /\ REFILL \in Nat /\ COST \in Nat
      /\ None \notin [tokens : Nat, at : Nat]
  BY Zenon DEF Bucket!RateLimiterAssumption
<1>6. BucketTypes'
  <2>1. since' \in Nat /\ since' <= clock'
    BY <1>1, <1>2, <1>4, Zenon
  <2>2. bucket' \in BucketRows'
    BY <1>1, <1>2, Zenon DEF BucketRows
  <2>3. \A q \in Procs : tx'[q].now <= clock'
    <3>1. Bucket!Idle.now <= clock
      BY ONLY BucketIdle, <1>4
    <3> QED
      BY <1>2, <1>3, <1>4, <3>1, Zenon
  <2>4. back' \in Nat
    <3>1. back' = back + Bucket!Most(0, had.at - now)
      BY <1>1, Zenon
    <3> QED
      BY ONLY <1>4, <3>1, now \in Nat, had \in [tokens : Nat, at : Nat] DEF Bucket!Most
  <2> QED
    BY <1>1, <1>2, <1>3, <1>4, <2>1, <2>2, <2>3, <2>4, Zenon DEF BucketTypes
<1>7. bucket' # None
  BY <1>1, <1>5, Zenon
<1>8. PICK up \in Nat, down \in Nat :
        /\ up = Bucket!Most(0, now - had.at) /\ down = Bucket!Most(0, had.at - now)
        /\ now + down = had.at + up
  <2>1. had.at \in Nat
    OBVIOUS
  <2> QED
    BY ONLY <2>1, now \in Nat DEF Bucket!Most
<1>9. in = up * REFILL /\ back' = back + down
  BY <1>1, <1>8, Zenon
<1>10. admitted * COST \in Int /\ admitted' * COST \in Int
  <2>1. admitted \in Nat /\ admitted' \in Nat /\ COST \in Nat
    BY <1>1, <1>4, <1>5, Zenon
  <2> QED
    BY ONLY <2>1, Products
<1>11. admitted' * COST + left.tokens <= CAPACITY + (now - since' + back') * REFILL
  <2>1. left.tokens \in Nat /\ had.tokens \in Nat /\ had.at \in Nat
    OBVIOUS
  <2>2. /\ admitted' * COST = admitted * COST + took
        /\ left.tokens + took <= had.tokens + in
    BY <1>1, Zenon
  <2>3. CASE bucket = None
    <3>1. admitted = 0 /\ had = [tokens |-> CAPACITY, at |-> now] /\ since' = now
      BY <1>1, <2>3, Zenon DEF BucketInvariant, BucketDebt
    <3>2. had.tokens = CAPACITY /\ up = 0
      <4>1. had.tokens = CAPACITY /\ had.at = now
        BY ONLY <3>1
      <4> QED
        BY ONLY <1>8, <4>1, now \in Nat DEF Bucket!Most
    <3>3. admitted * COST = 0
      BY ONLY <1>5, <3>1
    <3>4. now - since' + back' = back + down /\ back + down \in Nat
      BY <1>4, <1>8, <1>9, <2>1, <3>1, TimeCounted
    <3>5. CAPACITY <= CAPACITY + (back + down) * REFILL
      <4>1. (back + down) * REFILL \in Nat
        BY ONLY <1>5, <3>4
      <4> QED
        BY ONLY <1>5, <4>1
    <3>6. admitted * COST + had.tokens <= CAPACITY + (back + down) * REFILL
      BY ONLY <1>5, <3>2, <3>3, <3>5
    <3>7. PICK d \in Nat : d = back + down
      BY <3>4, Zenon
    <3>8. admitted' * COST + left.tokens <= CAPACITY + (d + up) * REFILL
      BY <1>5, <1>9, <1>10, <2>1, <2>2, <3>6, <3>7, DebtGrows
    <3>9. d + up = d
      BY ONLY <3>2, d \in Nat
    <3> QED
      BY <3>4, <3>7, <3>8, <3>9, Zenon
  <2>4. CASE bucket # None
    <3>1. had = bucket /\ since' = since
      BY <1>1, <2>4, Zenon
    <3>2. had.at - since + back \in Int /\ now - since + (back + down) = (had.at - since + back) + up
      BY <1>4, <1>8, <2>1, TimeCounted
    <3>3. PICK before \in Int : before = had.at - since + back
      BY <3>2, Zenon
    <3>4. admitted * COST + had.tokens <= CAPACITY + before * REFILL
      BY <2>4, <3>1, <3>3, Zenon DEF BucketInvariant, BucketDebt
    <3>5. admitted' * COST + left.tokens <= CAPACITY + (before + up) * REFILL
      BY <1>5, <1>9, <1>10, <2>1, <2>2, <3>4, DebtGrows
    <3> QED
      BY <1>9, <3>1, <3>2, <3>3, <3>5, Zenon
  <2> QED
    BY <2>3, <2>4, Zenon
<1>12. BucketDebt'
  BY <1>1, <1>7, <1>11, Zenon DEF BucketDebt
<1> QED
  BY <1>3, <1>6, <1>12, Zenon DEF BucketInvariant

\* A successful attempt deletes the row.
LEMMA BucketReset ==
    ASSUME Bucket!RateLimiterAssumption, BucketInvariant, NEW p \in Procs, Bucket!LoginSucceeds(p)
    PROVE  BucketInvariant'
<1>1. /\ tx[p].pc = "holds" /\ tx' = [tx EXCEPT ![p] = Bucket!Idle]
      /\ bucket' = None /\ admitted' = 0 /\ since' = clock /\ back' = 0 /\ clock' = clock
  BY Zenon DEF Bucket!LoginSucceeds
<1>2. tx' \in [Procs -> BucketTx] /\ BucketHolders' /\ \A q \in Procs : tx'[q] = Bucket!Idle \/ tx'[q] = tx[q]
  BY <1>1, BucketFreed, Zenon
<1>3. clock \in Nat /\ \A q \in Procs : tx[q].now <= clock
  BY Zenon DEF BucketInvariant, BucketTypes
<1>4. BucketTypes'
  <2>1. Bucket!Idle.now <= clock /\ since' <= clock' /\ admitted' \in Nat /\ back' \in Nat
    BY ONLY BucketIdle, <1>1, <1>3
  <2>2. \A q \in Procs : tx'[q].now <= clock'
    BY <1>1, <1>2, <1>3, <2>1, Zenon
  <2> QED
    BY <1>1, <1>2, <1>3, <2>1, <2>2, Zenon DEF BucketTypes
<1>5. BucketDebt'
  BY <1>1, Zenon DEF BucketDebt
<1> QED
  BY <1>2, <1>4, <1>5, Zenon DEF BucketInvariant

\* Requests, clock and errors keep the invariant.
LEMMA BucketStep ==
    ASSUME Bucket!RateLimiterAssumption, BucketInvariant, [Bucket!Next]_(Bucket!vars)
    PROVE  BucketInvariant'
<1>inv. BucketTypes /\ BucketHolders /\ BucketDebt
  BY Zenon DEF BucketInvariant
<1>1. ASSUME NEW p \in Procs, Bucket!Arrive(p) PROVE BucketInvariant'
  <2>1. PICK w : w = [Bucket!Idle EXCEPT !.pc = "arrived", !.now = clock]
    OBVIOUS
  <2>2. clock \in Nat
    BY <1>inv, Zenon DEF BucketTypes
  <2>3. w \in BucketTx /\ w.pc = "arrived" /\ w.now = clock
    BY ONLY <2>1, <2>2 DEF Bucket!Idle, BucketTx
  <2>4. tx' = [tx EXCEPT ![p] = w] /\ UNCHANGED <<clock, bucket, admitted, since, back>>
    BY <1>1, <2>1, Zenon DEF Bucket!Arrive
  <2>5. w.now <= clock /\ w.pc # "holds"
    BY ONLY <2>2, <2>3
  <2> QED
    BY <2>3, <2>4, <2>5, BucketAlone, Zenon
<1>2. ASSUME NEW p \in Procs, Bucket!EnsureRow(p) PROVE BucketInvariant'
  <2>1. PICK pc, row : /\ pc = IF bucket = None THEN "holds" ELSE "ensured"
                       /\ row = IF bucket = None THEN [tokens |-> CAPACITY, at |-> tx[p].now] ELSE None
    BY Zenon
  <2>2. /\ tx[p].pc = "arrived" /\ tx' = [tx EXCEPT ![p].pc = pc, ![p].row = row]
        /\ bucket = None => ~ Bucket!Locked(p)
        /\ UNCHANGED <<clock, bucket, admitted, since, back>>
    BY <1>2, <2>1, Zenon DEF Bucket!EnsureRow
  <2>3. pc \in {"holds", "ensured"} /\ row \in [tokens : Nat, at : Nat] \cup {None}
    BY <2>1, BucketProcess DEF Bucket!RateLimiterAssumption
  <2>4. PICK w : w = [tx[p] EXCEPT !.pc = pc, !.row = row]
    OBVIOUS
  <2>5. w \in BucketTx /\ w.pc = pc /\ w.row = row /\ w.now = tx[p].now
    <3>1. tx[p] \in BucketTx
      BY BucketProcess, Zenon
    <3> QED
      BY ONLY <2>3, <2>4, <3>1 DEF BucketTx
  <2>6. tx' = [tx EXCEPT ![p] = w]
    BY ONLY <2>2, <2>4
  <2>7. w.now <= clock
    BY <2>5, BucketProcess, Zenon
  <2>8. w.pc = "holds" => /\ ~ Bucket!Locked(p)
                          /\ w.row = IF bucket = None THEN [tokens |-> CAPACITY, at |-> w.now] ELSE bucket
    BY <2>1, <2>2, <2>5, Zenon
  <2> QED
    BY <2>2, <2>5, <2>6, <2>7, <2>8, BucketAlone, Zenon
<1>3. ASSUME NEW p \in Procs, Bucket!LockRow(p) PROVE BucketInvariant'
  <2>1. tx[p].pc = "ensured" /\ UNCHANGED <<clock, bucket, admitted, since, back>>
    BY <1>3, Zenon DEF Bucket!LockRow
  <2>2. CASE bucket = None
    <3>1. tx' = [tx EXCEPT ![p] = Bucket!Idle]
      BY <1>3, <2>2, Zenon DEF Bucket!LockRow
    <3> QED
      BY <2>1, <3>1, BucketGivesUp, Zenon
  <2>3. CASE bucket # None
    <3>1. tx' = [tx EXCEPT ![p].pc = "holds", ![p].row = bucket] /\ ~ Bucket!Locked(p)
      BY <1>3, <2>3, Zenon DEF Bucket!LockRow
    <3>2. PICK w : w = [tx[p] EXCEPT !.pc = "holds", !.row = bucket]
      OBVIOUS
    <3>3. tx[p] \in BucketTx /\ bucket \in [tokens : Nat, at : Nat] /\ tx[p].now <= clock
      BY <2>3, <1>inv, BucketProcess, Zenon DEF BucketTypes, BucketRows
    <3>4. w \in BucketTx /\ w.pc = "holds" /\ w.row = bucket /\ w.now = tx[p].now
      BY ONLY <3>2, <3>3 DEF BucketTx
    <3>5. tx' = [tx EXCEPT ![p] = w]
      BY ONLY <3>1, <3>2
    <3> QED
      BY <2>1, <2>3, <3>1, <3>3, <3>4, <3>5, BucketAlone, Zenon
  <2> QED
    BY <2>2, <2>3, Zenon
<1>4. ASSUME NEW p \in Procs, Bucket!LoginFails(p) PROVE BucketInvariant'
  BY <1>4, BucketFails, Zenon
<1>5. ASSUME NEW p \in Procs, Bucket!LoginSucceeds(p) PROVE BucketInvariant'
  BY <1>5, BucketReset, Zenon
<1>6. ASSUME NEW p \in Procs, Bucket!Rollback(p) PROVE BucketInvariant'
  BY <1>6, BucketGivesUp, Zenon DEF Bucket!Rollback
<1>7. CASE Bucket!Tick
  <2>1. clock' = clock + 1 /\ UNCHANGED <<bucket, tx, admitted, since, back>>
    BY <1>7, Zenon DEF Bucket!Tick
  <2>2. clock \in Nat /\ clock' \in Nat
    BY ONLY <2>1, <1>inv DEF BucketTypes
  <2>3. since \in Nat /\ since <= clock'
    BY ONLY <2>1, <1>inv DEF BucketTypes
  <2>4. \A p \in Procs : tx[p].now <= clock'
    <3> SUFFICES ASSUME NEW p \in Procs PROVE tx[p].now <= clock'
      OBVIOUS
    <3>1. tx[p].now \in Nat /\ tx[p].now <= clock
      BY BucketProcess, Zenon
    <3> QED
      BY ONLY <2>1, <2>2, <3>1
  <2>5. bucket \in BucketRows' \cup {None}
    <3>1. bucket = None \/ (bucket \in [tokens : Nat, at : Nat] /\ bucket.tokens <= CAPACITY /\ bucket.at <= clock)
      BY <1>inv, Zenon DEF BucketTypes, BucketRows
    <3>2. bucket = None \/ bucket.at <= clock'
      BY ONLY <2>1, <2>2, <3>1
    <3> QED
      BY <3>1, <3>2, Zenon DEF BucketRows
  <2>6. BucketTypes'
    BY <2>1, <2>2, <2>3, <2>4, <2>5, <1>inv, Zenon DEF BucketTypes
  <2>7. BucketHolders' /\ BucketDebt'
    BY <2>1, <1>inv, Zenon DEF BucketHolders, BucketDebt, Bucket!Locked
  <2> QED
    BY <2>6, <2>7, Zenon DEF BucketInvariant
<1>8. CASE UNCHANGED Bucket!vars
  <2>1. clock' = clock /\ bucket' = bucket /\ tx' = tx /\ admitted' = admitted /\ since' = since /\ back' = back
    BY <1>8, Zenon DEF Bucket!vars
  <2> QED
    BY <2>1, <1>inv, Zenon DEF BucketInvariant, BucketTypes, BucketHolders, BucketDebt, BucketRows, Bucket!Locked
<1> QED
  BY <1>1, <1>2, <1>3, <1>4, <1>5, <1>6, <1>7, <1>8, Zenon DEF Bucket!Next

\* Since the bucket was new, no more attempts were admitted than its capacity and
\* the refill of the time passed allow, to which only those ticks are added by which
\* a request that waited for the lock has set updated_at back: for any capacity,
\* refill and cost and any number of requests at a time (RateLimiter.consume under
\* FOR UPDATE).
THEOREM AdmissionsAreAlwaysBounded ==
    ASSUME Bucket!RateLimiterAssumption
    PROVE  Bucket!Spec => []Bucket!AdmissionsAreAccounted
<1>1. Bucket!Init => BucketInvariant
  <2> SUFFICES ASSUME Bucket!Init PROVE BucketInvariant
    OBVIOUS
  <2>1. /\ clock = 0 /\ bucket = None /\ admitted = 0 /\ since = 0 /\ back = 0
        /\ tx = [p \in Procs |-> Bucket!Idle]
    BY DEF Bucket!Init
  <2>2. Bucket!Idle \in BucketTx /\ Bucket!Idle.pc = "idle" /\ Bucket!Idle.now = 0
    BY DEF Bucket!Idle, BucketTx
  <2>3. tx \in [Procs -> BucketTx] /\ \A p \in Procs : tx[p].pc = "idle" /\ tx[p].now = 0
    BY <2>1, <2>2
  <2>4. BucketTypes
    BY <2>1, <2>3 DEF BucketTypes
  <2>5. BucketHolders /\ BucketDebt
    BY <2>1, <2>3 DEF BucketHolders, BucketDebt
  <2> QED
    BY <2>4, <2>5 DEF BucketInvariant
<1>2. BucketInvariant /\ [Bucket!Next]_(Bucket!vars) => BucketInvariant'
  BY BucketStep
<1>3. BucketInvariant => Bucket!AdmissionsAreAccounted
  <2> SUFFICES ASSUME BucketInvariant PROVE admitted * COST <= CAPACITY + (clock - since + back) * REFILL
    BY DEF Bucket!AdmissionsAreAccounted
  <2> USE DEF Bucket!RateLimiterAssumption, BucketInvariant, BucketTypes, BucketDebt, BucketRows
  <2>1. PICK past \in Nat : past = clock - since + back
    OBVIOUS
  <2>2. past * REFILL \in Int /\ 0 * REFILL <= past * REFILL /\ 0 * REFILL = 0
    BY <2>1, Products
  <2>3. CASE bucket = None
    BY <2>1, <2>2, <2>3, Products
  <2>4. CASE bucket # None
    <3>1. PICK then \in Int : then = bucket.at - since + back /\ then <= past /\ bucket.tokens \in Nat
      BY <2>1, <2>4
    <3>2. then * REFILL <= past * REFILL /\ then * REFILL \in Int /\ admitted * COST \in Int
      BY <2>1, <3>1, Products
    <3>3. admitted * COST + bucket.tokens <= CAPACITY + then * REFILL
      BY <2>4, <3>1
    <3> QED
      BY <2>1, <2>2, <3>1, <3>2, <3>3
  <2> QED
    BY <2>3, <2>4
<1> QED
  BY <1>1, <1>2, <1>3, PTL DEF Bucket!Spec

=============================================================================
