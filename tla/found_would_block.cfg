CONSTANTS
    Config <- SmallConfig
    Hosts <- DefaultHosts
    Agents = {"a", "b"}
    Tools <- DefaultTools
    Threads = {w1, w2}
    MaxClock = 0
    CallTimesMax = 4
    BlockTimesMax = 4
    Enforce = FALSE
    Requests <- ToolMix
    MaxRequests = 2
    MaxFaults = 0
SPECIFICATION GSpec
INVARIANT WouldBlockPredicts
CHECK_DEADLOCK FALSE
