CONSTANTS
    Config <- SmallConfig
    Hosts <- DefaultHosts
    Agents = {a1}
    Tools = {"read_file", "transfer_funds"}
    Threads = {t1}
    MaxClock = 3
    CallTimesMax = 2
    BlockTimesMax = 3
    MaxOps = 6
SPECIFICATION HSpec
INVARIANT TypeOK
PROPERTIES ScoreIsExact ResetOnlyWhenIdle
CHECK_DEADLOCK FALSE
