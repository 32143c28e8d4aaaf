CONSTANTS
    Sweep = {s1, s2}
    Reg <- OneReg
    NameUnder <- NamesOf1
    Inputs <- JustReaps
    FailedRead = {"silent", "text"}
    PageSize = 1
    MaxCore = 2
    ApiFloor = 1
    RecheckEvery = 1
    Prefix <- Prefixes
    Blank = blank
SPECIFICATION FairSpec
INVARIANTS
    HonestCount
PROPERTIES
    SweepEnds
