\* Installations and registrations end, so that a command need not be able to go on.
SPECIFICATION MCSpec
CHECK_DEADLOCK FALSE
CONSTANTS
    first = first
    second = second
    third = third
    older = older
    newer = newer
    refused = refused
    None = None
    MaxCuts = 3
    MaxFaults = 3
    Materials <- MCMaterials
    Secrets <- MCSecrets
    SiteMaterials <- MCSiteMaterials
    Refused <- MCRefused
INVARIANTS
    NodeTypeOK
    CertificatesWhole
    InstallSound
PROPERTIES
    FailureKeepsOld
    EnrolledAsAsked
    NodeSettles
