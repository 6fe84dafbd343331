\* Two runs, a reader, a switch of tenant and a sign-in or sign-out.
CONSTANTS
    r1 = r1
    r2 = r2
    v1 = v1
    t1 = t1
    t2 = t2
    s1 = s1
    g1 = g1
    g0 = g0
    nobody = nobody
    Run = {r1, r2}
    Reader = {v1}
    Tenant = {t1, t2}
    Saver = {s1}
    Signer = {g1}
    FirstTenant = t1
    FirstOperator = g0
    Nobody = nobody
    Overlaps = TRUE
    MaxRuns = 2
SYMMETRY Alike
SPECIFICATION Spec
INVARIANTS
    ScreenIsReadable
    OnlyOwnRows
    NoClickLost
PROPERTY NeverOlder
