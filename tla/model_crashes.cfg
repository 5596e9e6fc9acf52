CONSTANTS
    Processes = {p1}
    Models <- SomeModels
    Usable <- UsableModels
    Shipped = "shipped"
    Fallback = "seed7"
    MaxSaves = 2
    MaxRestarts = 1
SPECIFICATION FairHSpec
INVARIANTS OnlyEndorsedIsServed CompleteSaveIsServed
PROPERTY StartedIsServing
CHECK_DEADLOCK FALSE
