\* A creation beside a cancellation on the same symbol.
SPECIFICATION Spec
CONSTANTS
    Procs = {p1, p2}
    Intents = {i1, i2}
    Owners = {o1}
    Symbols = {s1}
    Keys = {k1, k2}
    TelegramOwners = {}
    Instants <- Weekend
    PER_USER = 2
    PER_SYMBOL = 2
    MAX_SUBSCRIPTIONS = 1
    None = None
SYMMETRY Symmetry
INVARIANTS
    OpenIntentIsSubscribed
