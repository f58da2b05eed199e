--------------------------- MODULE IntentContract ---------------------------
(***************************************************************************)
(* What an intent promises its owner, whatever threads, commits and        *)
(* failures lie behind it: it is opened at most once, it is closed at most *)
(* once, and its one notification is recorded by the very step that closes *)
(* it.  An intent that was closed in any other way is never notified, and  *)
(* an intent never opens again.                                            *)
(***************************************************************************)
EXTENDS Naturals

CONSTANT Intents

VARIABLES
    life,   \* "absent", "open" or "closed"
    told    \* number of notifications recorded for the intent

Lives == {"absent", "open", "closed"}

ContractInit ==
    /\ life = [i \in Intents |-> "absent"]
    /\ told = [i \in Intents |-> 0]

Stays(i) == life'[i] = life[i] /\ told'[i] = told[i]

Opens(i) == life[i] = "absent" /\ life'[i] = "open" /\ told'[i] = told[i]

Closes(i) == life[i] = "open" /\ life'[i] = "closed" /\ told'[i] = told[i]

\* An intent whose condition already holds when it is created is closed and
\* notified by the step that makes it visible.
Fires(i) ==
    /\ life[i] \in {"absent", "open"} /\ life'[i] = "closed"
    /\ told[i] = 0 /\ told'[i] = 1

\* One transaction may move several intents.
ContractNext ==
    /\ life' \in [Intents -> Lives]
    /\ told' \in [Intents -> 0..1]
    /\ \A i \in Intents : Stays(i) \/ Opens(i) \/ Closes(i) \/ Fires(i)

ContractSpec == ContractInit /\ [][ContractNext]_<<life, told>>

=============================================================================
