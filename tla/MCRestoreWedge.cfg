SPECIFICATION FairSpec
CONSTANTS
    proxy = proxy
    database = database
    config = config
    store = store
    Services <- MCServices
    Paths <- MCOnePath
    Managed = FALSE
PROPERTIES
    RecoverySettles
