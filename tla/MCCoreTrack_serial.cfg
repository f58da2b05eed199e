\* One request at a time, two intents, two owners, two symbols and one subscription
\* slot, no Telegram group.
SPECIFICATION Spec
CONSTANTS
    Procs = {p1}
    Intents = {i1, i2}
    Owners = {o1, o2}
    Symbols = {s1, s2}
    Keys = {k1}
    TelegramOwners = {}
    Instants <- Weekend
    PER_USER = 2
    PER_SYMBOL = 2
    MAX_SUBSCRIPTIONS = 1
    None = None
SYMMETRY Symmetry
INVARIANTS
    TypeOK
    DisabledOwnerIsClosed
PROPERTIES
    TerminalIsFinal
