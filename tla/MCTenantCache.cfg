\* Two calls, two overlapping invalidations, two tenants, a TTL longer than the cap of
\* a degraded entry; the cache implements FreshRead. No symmetry: KeepsPromise is
\* temporal.
CONSTANTS
    c1 = c1
    c2 = c2
    i1 = i1
    i2 = i2
    t1 = t1
    t2 = t2
    nobody = nobody
    Caller = {c1, c2}
    Invalidator = {i1, i2}
    Tenant = {t1, t2}
    TTLs = {2}
    DegradedTTL = 1
    NoCaller = nobody
    MaxVersion = 1
    MaxEpoch = 2
    MaxAge = 2
SPECIFICATION FairSpec
INVARIANTS
    NoStaleStore
PROPERTIES
    ReadsYourSettles
    KeepsPromise
