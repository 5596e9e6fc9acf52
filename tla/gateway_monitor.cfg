CONSTANTS
    Config <- LooseConfig
    Hosts <- DefaultHosts
    Agents = {"a", "b"}
    Tools <- DefaultTools
    Threads = {w1, w2}
    MaxClock = 0
    CallTimesMax = 4
    BlockTimesMax = 4
    Enforce = FALSE
    Requests <- AllRequests
    MaxRequests = 2
    MaxFaults = 0
SPECIFICATION GSpec
INVARIANTS MonitorRunsWhatItInspects MonitorFlagsLeaks
CHECK_DEADLOCK FALSE
