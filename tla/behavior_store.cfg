CONSTANTS
    Config <- SmallConfig
    Hosts <- DefaultHosts
    Agents = {a1, a2, a3}
    Tools = {"read_file"}
    Threads = {t1}
    MaxClock = 3
    CallTimesMax = 2
    BlockTimesMax = 1
    MaxOps = 5
SYMMETRY AgentSymmetry
SPECIFICATION HSpec
INVARIANTS StoreBounded LruOrderedByLastUse
PROPERTY OwnProfileKept
CHECK_DEADLOCK FALSE
