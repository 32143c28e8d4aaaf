CONSTANTS
    Sweep = {s1}
    Reg <- ThreeRegs
    NameUnder <- NamesOf3
    Inputs <- EveryCaller
    FailedRead = {"silent"}
    PageSize = 2
    MaxCore = 2
    ApiFloor = 1
    RecheckEvery = 2
    Prefix <- Prefixes
    Blank = blank
SPECIFICATION Spec
INVARIANTS
    OnlyOwnedReaped
    RecheckedOften
    ListingComplete
    StopsAtFloor
    SilenceIsNoAnswer
