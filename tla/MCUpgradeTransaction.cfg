SPECIFICATION FairSpec
CONSTANTS
    server = server
    database = database
    config = config
    store = store
    Services <- MCServices
    Paths <- MCPaths
INVARIANTS
    WholeBackupFirst
    ClaimHonest
    ScopeFollowsVersion
PROPERTIES
    UnattendedBlocked
    ImplementsSwitch
    UpgradeSettles
