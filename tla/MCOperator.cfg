\* A folder that is prepared stays as it is, so that there need not be a next step.
SPECIFICATION OperatorSpec
CHECK_DEADLOCK FALSE
CONSTANTS
    left = left
    right = right
    one = one
    two = two
    older = older
    newer = newer
    edge = edge
    firstUpload = firstUpload
    secondUpload = secondUpload
    here = here
    there = there
    None = None
    NoDocument = NoDocument
    NoSnapshot = NoSnapshot
    Package = "matrix"
    MaxTime = 2
    MaxPosts = 2
    MaxRelays = 2
    MaxNodes = 2
    MaxKills = 2
    MaxTroubles = 1
    Institutions <- MCInstitutions
    Ids <- MCIds
    Configs <- MCConfigs
    Guests <- MCGuests
    Volumes <- MCVolumes
    Repository <- MCRepository
    Bases <- MCBases
    FirstIds <- MCFirstIds
    Places <- MCPlaces
    Preparers <- MCPreparers
    Contents <- MCContents
    OutputSets <- MCOutputSets
SYMMETRY MCSymmetry
INVARIANTS
    SameTerms
    LoadedWasReviewed
    OutcomeTrue
    StartedOnce
    RemoteBacked
    PreparationSound
    QuietHonest
    ReplacementSound
