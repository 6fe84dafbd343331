\* A plan and a run begun between two steps of a save.
CONSTANTS
    p1 = p1
    p2 = p2
    r1 = r1
    r2 = r2
    q1 = q1
    q2 = q2
    d1 = d1
    d2 = d2
    t1 = t1
    t2 = t2
    s1 = s1
    g1 = g1
    g2 = g2
    g0 = g0
    none = none
    Plan = {p1}
    Run = {r1}
    Request = {q1}
    Default = {d1}
    NoPlan = none
    Tenant = {t1, t2}
    Saver = {s1}
    Signer = {}
    FirstTenant = t1
    FirstGrant = g0
    NoGrant = none
    StartsMidSave = TRUE
    StartsMidSign = FALSE
SPECIFICATION Spec
INVARIANTS
    SentAsApproved
