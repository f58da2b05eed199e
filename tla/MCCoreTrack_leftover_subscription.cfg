\* One request at a time: what is subscribed when all is over.
SPECIFICATION Spec
CONSTANTS
    Procs = {p1}
    Intents = {i1}
    Owners = {o1}
    Symbols = {s1}
    Keys = {k1}
    TelegramOwners = {}
    Instants <- Weekend
    PER_USER = 2
    PER_SYMBOL = 2
    MAX_SUBSCRIPTIONS = 1
    None = None
SYMMETRY Symmetry
INVARIANTS
    TerminalReleasesSubscription
