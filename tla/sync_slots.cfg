\* Three requests compete for one slot, with and without a queue: every order
\* of arrivals, timers, hang-ups, panics and releases, until all have ended.
SPECIFICATION FairSpec
CONSTANTS
    r1 = r1
    r2 = r2
    r3 = r3
    Requests <- ThreeRequests
    MaxConcurrentSync = 1
INVARIANTS
    SlotsExact
    NobodyWaitsInVain
    BusyDidNothing
PROPERTIES
    NoOvertaking
    EveryRequestEnds
CHECK_DEADLOCK FALSE
