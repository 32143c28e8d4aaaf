CONSTANTS
    Repo = {r1, r2}
    Slot = {i1}
    Letter <- Letters
    Literal <- Literals
    Name <- Names
    Configs <- Catalogue
    MaxLists = 1
SPECIFICATION FairSpec
INVARIANTS
    BusyOnlySinceListed
    SiblingsSpared
PROPERTIES
    CoveredIsDrained
