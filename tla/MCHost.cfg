SPECIFICATION HostSpec
CONSTANTS
    Sources = {"a", "b"}
    Names = {"main", "other"}
    Defines <- MCDefines
    MaxModules = 4
    Goroutines = {1, 2}
    Files = {"f", "g"}
    Setups <- MCSetups
    Operations <- MCOperations
    MaxContexts = 2
    MaxServed = 1
INVARIANTS
    CallRunsLoaded
    ObjectsAlive
    MapSafe
    RaceFree
    GasSpentOnce
    ReleasedOnce
    DebugSeparate
PROPERTIES
    ModuleUsedCarefully
    TemplateReturns
CHECK_DEADLOCK FALSE
