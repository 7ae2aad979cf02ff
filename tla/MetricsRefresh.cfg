\* The metrics cache with two readers, late ticks, failing and hanging RPC
\* calls.  No symmetry, because the run checks liveness.
CONSTANTS
    r1 = r1
    r2 = r2
    Readers <- TwoReaders
    Period = 2
    MaxLag = 2
    MaxVersion = 1
    Wrap = 2
SPECIFICATION FairSpec
INVARIANTS
    NoTornRead
    CacheInCallOrder
    StampFollowsCache
PROPERTIES
    RefreshIsPaced
    CacheCatchesUp
    ReadersAnswered
