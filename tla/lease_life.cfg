SPECIFICATION LeaseSpec
CONSTANTS
    p1 = p1
    p2 = p2
    Provider <- MCProvider
    Fleet <- MCFleet
    Plans <- MCPlans
    Deposits = 2
    Digest <- MCDigest
    Fixed <- MCFixed
    DenyList <- MCDenyList
    Binary <- MCBinary
    Floors <- MCFloors
    Repos <- MCRepos
    Flows <- MCFlows
    Floor = 2
    Window = 3
    LastVersion = 3
INVARIANTS
    VerdictIsOfTheLevel
    LandsWhereItFits
    StartsCurrent
    TrustedImage
    GreenMeansClean
    LiveByDecision
PROPERTIES
    OutlivesDeprecation
    PumpEnds
    OrphansEnd
CHECK_DEADLOCK FALSE
