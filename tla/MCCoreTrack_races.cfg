\* Two threads, two intents of one owner on one symbol.
SPECIFICATION Spec
CONSTANTS
    Procs = {p1, p2}
    Intents = {i1, i2}
    Owners = {o1}
    Symbols = {s1}
    Keys = {k1}
    TelegramOwners = {o1}
    Instants <- Weekend
    PER_USER = 2
    PER_SYMBOL = 2
    MAX_SUBSCRIPTIONS = 1
    None = None
SYMMETRY Symmetry
INVARIANTS
    FiredIsClosed
    TriggerIsRecordedOnce
    MessageStandsForOneTrigger
    FiredByItsTradingDate
    NoDuplicateOpen
    SubscribedUnlessCut
PROPERTIES
    HaltSilences
    RewrittenByStaleCancel
    KeepsContract
