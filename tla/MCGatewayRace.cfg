SPECIFICATION Spec
CONSTANTS
    early = early
    late = late
    None = None
    Agreements <- MCAgreements
    Issued <- MCIssued
    Accepted <- MCAccepted
    Expires <- MCExpires
    MaxTime = 2
    MaxGeneration = 2
PROPERTIES
    ReplacedShut
