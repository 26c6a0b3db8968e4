SPECIFICATION OrderlySpec
CONSTANTS
    Sources = {"a", "b"}
    Names = {"main", "other"}
    Defines <- MCDefines
    MaxModules = 4
INVARIANTS
    CallRunsLoaded
CHECK_DEADLOCK FALSE
