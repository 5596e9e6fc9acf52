CONSTANTS
    Config <- PatientConfig
    Hosts <- DefaultHosts
    Agents = {a1}
    Tools = {"read_file", "transfer_funds"}
    Threads = {t1, t2}
    MaxClock = 2
    CallTimesMax = 4
    BlockTimesMax = 4
    MaxOps = 4
SPECIFICATION HSpec
PROPERTIES BlocksNotWashedOut BurstIsSuspicious
CHECK_DEADLOCK FALSE
