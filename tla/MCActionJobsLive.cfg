\* One run of two devices that share a permit, under fairness.
CONSTANTS
    r1 = r1
    r2 = r2
    d1 = d1
    d2 = d2
    t1 = t1
    t2 = t2
    s1 = s1
    g1 = g1
    g0 = g0
    none = none
    Run = {r1}
    Device = {d1, d2}
    Permits = 1
    MaxJobs = 1
    MaxRetries = 0
    Tenant = {t1, t2}
    Saver = {s1}
    Signer = {g1}
    FirstTenant = t1
    FirstGrant = g0
    NoGrant = none
    StartsMidSave = FALSE
    StartsMidSign = FALSE
SPECIFICATION FairSpec
PROPERTIES
    KeepsTrail
