CONSTANTS
    Config <- LooseConfig
    Hosts <- DefaultHosts
    Agents = {"a", "b"}
    Tools <- DefaultTools
    Threads = {w1, w2}
    MaxClock = 0
    CallTimesMax = 4
    BlockTimesMax = 4
    Enforce = TRUE
    Requests <- AllRequests
    MaxRequests = 2
    MaxFaults = 0
SPECIFICATION GSpec
INVARIANTS GatewayTypeOK NoLeak RunsArePermitted BlockWorthyRefused BaselineFromRunsOnly BlocksRemembered CountersMatchAnswers
PROPERTY ImplementsGuard
CHECK_DEADLOCK FALSE
