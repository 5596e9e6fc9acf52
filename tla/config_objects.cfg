CONSTANTS
    Mappings <- SomeMappings
    Overlays <- SomeOverlays
    MaxObjects = 4
    MaxTunes = 2
SPECIFICATION CSpec
INVARIANTS HoldersAreIsolated UntunedGatewaysAreValid
CHECK_DEADLOCK FALSE
