SPECIFICATION Spec
CONSTANTS
    proxy = proxy
    database = database
    config = config
    store = store
    Services <- MCServices
    Paths <- MCPaths
    Managed = TRUE
INVARIANTS
    CommittedClaimDurable
