CONSTANTS
    r1 = r1
    r2 = r2
    m = m
    k1 = k1
    k2 = k2
    None = None
    Requests <- MCRequests
    Discoveries <- MCDiscoveries
    Keys <- MCKeys
    MaxPerKey = 1
    MaxInFlight = 2
    Limit = 1
    MaxEvents = 1
    WriteBurst = 1
SPECIFICATION Spec
SYMMETRY Symmetry
INVARIANTS TypeOK SlotsAreHeld OneRowEach ChargesAreTrue SignalsFromAnswers
PROPERTY TrippedIsFinal
CHECK_DEADLOCK FALSE
