CONSTANTS
    Sweep = {s1}
    Reg <- ThreeRegs
    NameUnder <- NamesOf3
    Inputs <- ReapsEverything
    FailedRead = {"silent", "text"}
    PageSize = 2
    MaxCore = 2
    ApiFloor = 1
    RecheckEvery = 2
    Prefix <- Prefixes
    Blank = blank
SPECIFICATION Spec
INVARIANTS
    StopsAtFloorAlways
