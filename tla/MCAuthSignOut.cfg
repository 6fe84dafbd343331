\* A refresh that reads the keyring in the middle of a sign-out.
CONSTANTS
    c1 = c1
    c2 = c2
    g0 = g0
    g1 = g1
    o1 = o1
    t1 = t1
    t2 = t2
    none = none
    anyone = anyone
    nobody = nobody
    Caller = {c1, c2}
    Keeper = {c1}
    Signer = {g1}
    Leaver = {o1}
    Tenant = {t1, t2}
    FirstTenant = t1
    FirstGrant = g0
    NoGrant = none
    Anyone = anyone
    Nobody = nobody
    ReadsAcrossSessions = TRUE
    MaxIssued = 2
    MaxLost = 2
    MaxSwitches = 2
SPECIFICATION Spec
INVARIANTS
    EndedStaysEnded
