SPECIFICATION RulesSpec
CONSTANTS
    HORIZON = 20160
    None = None
INVARIANTS
    NewIntentIsLive
    PricesMatchReference
    PlanIsExact
    DuplicatesAreExact
    EchoesRequest
PROPERTIES
    ExpiryIsMonotone
    StopRisesWithBaseline
\* Clock, climbs and plans end at their bounds.
CHECK_DEADLOCK FALSE
