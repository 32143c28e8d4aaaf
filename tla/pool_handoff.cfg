CONSTANTS
    pool_job = pool_job
    w1 = w1
    w2 = w2
    t1 = t1
    gate = gate
    r1 = r1
    r2 = r2
    Pool = pool_job
    Consumer = {w1, w2}
    Closer = {t1}
    Other = {gate}
    Inner = {r1, r2}
    Callers <- FixtureCallers
    Pools <- FixturePools
SPECIFICATION FairSpec
INVARIANTS
    NothingLeaksQuietly
    OnlySiblingsStarve
PROPERTIES
    OrderIsNoGate
    OwnsUntilHandoff
    RunEnds
