SPECIFICATION FairSpec
CONSTANTS
    proxy = proxy
    database = database
    config = config
    store = store
    Services <- MCServices
    Paths <- MCPaths
    Managed = TRUE
INVARIANTS
    FenceOwned
    ServedDecided
    OriginalRetained
    ClaimHonest
PROPERTIES
    MovedWhileDown
    EditsKept
    ImplementsSwitch
    UniformSettles
