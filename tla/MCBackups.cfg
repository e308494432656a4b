SPECIFICATION FairSpec
CONSTANTS
    daemon = daemon
    server = server
    first = first
    second = second
    Units <- MCUnits
    Versions <- MCVersions
    MaxSnapshots = 2
INVARIANTS
    TypeOK
    SnapshotsSound
    NoSilentOutage
    RecordTruthful
    RuntimeKept
PROPERTIES
    UpdateSettles
