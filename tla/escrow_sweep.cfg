SPECIFICATION Spec
CONSTANTS
    Prefix <- Stamps
    Begins <- Prefixes
    Default = "just-akash-"
    Repo = {"consumer", "just-akash"}
    Lease = {l1, l2}
    Slot = {s1}
    MaxVersion = 1
    Docs <- StampersAndPins
    l1 = l1
    l2 = l2
    s1 = s1
SYMMETRY Leases
INVARIANTS
    ClosesItsOwn
    GreenIsSwept
    AdoptionHolds
CHECK_DEADLOCK FALSE
