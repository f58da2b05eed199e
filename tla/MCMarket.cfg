SPECIFICATION MarketSpec
CONSTANT
    None = None
INVARIANTS
    FiredByTheRule
    StopTrailsTheHighest
    OpenIsStreamed
    LegacyTriggerIsSound
    OnePlanPerSide
    OpenMeansWorkLeft
    NotifiedOnce
PROPERTIES
    KeepsLegacyContract
    NoSliceAfterClose
\* Rows are not reused, and the clock of a session ends.
CHECK_DEADLOCK FALSE
