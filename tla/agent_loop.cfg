CONSTANTS
    Config <- SequenceConfig
    Hosts <- DefaultHosts
    Agents = {"b"}
    Tools <- DefaultTools
    Threads = {w1}
    MaxClock = 1
    CallTimesMax = 4
    BlockTimesMax = 4
    Enforce = TRUE
    Requests <- LoopRequests
    MaxRequests = 4
    MaxFaults = 1
    Graph <- AdminGraph
    Batches <- SomeBatches
    Contents <- SomeContents
    Functions <- SomeFunctions
    MaxTurns = 2
SPECIFICATION FairLSpec
INVARIANTS FunctionsAreGuarded EveryCallAnswered AttackStopsNextCall NoEgressFunctionAfterRead
 
CHECK_DEADLOCK FALSE
