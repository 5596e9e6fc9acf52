CONSTANTS
    Config <- DefaultConfig
    Hosts <- DefaultHosts
    Agents = {"playground", "user-agent-1", "ext-agent-1"}
    Tools <- DefaultTools
    Threads = {1, 2, 3, 4}
    MaxClock = 0
    CallTimesMax = 4
    BlockTimesMax = 4
    Enforce = TRUE
    Requests <- DemoRequests
    MaxRequests = 4
    MaxFaults = 1
    Traffics <- DemoTraffics
    Items <- AllItems
    HistMax = 2
SPECIFICATION DSpec
INVARIANTS ScenariosEndRight GroundTruthHolds ScrapeShowsReplies
PROPERTY PostsAnswered
CHECK_DEADLOCK FALSE
