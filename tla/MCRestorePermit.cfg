SPECIFICATION Spec
CONSTANTS
    proxy = proxy
    database = database
    config = config
    store = store
    Services <- MCServices
    Paths <- MCPaths
    Managed = FALSE
PROPERTIES
    UnattendedBlocked
