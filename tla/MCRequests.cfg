SPECIFICATION RequestsSpec
CONSTANTS
    Procs = {p1, p2}
    None = None
SYMMETRY Symmetry
INVARIANTS
    HaltIsCurrent
    OneAnswerPerKey
    ConfirmationIsExact
    WalkIsComplete
    ReadersAgree
