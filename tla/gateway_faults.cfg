CONSTANTS
    Config <- SmallConfig
    Hosts <- DefaultHosts
    Agents = {"a", "b"}
    Tools <- DefaultTools
    Threads = {w1, w2}
    MaxClock = 1
    CallTimesMax = 4
    BlockTimesMax = 4
    Enforce = TRUE
    Requests <- FewRequests
    MaxRequests = 2
    MaxFaults = 2
SPECIFICATION FairGSpec
INVARIANTS AuditMatchesAnswers HealthShowsErrors
PROPERTIES ImplementsGuard EveryRequestAnswered
CHECK_DEADLOCK FALSE
