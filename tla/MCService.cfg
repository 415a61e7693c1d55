SPECIFICATION Spec
CONSTANTS
    f1 = f1
    f2 = f2
    d1 = d1
    d2 = d2
    j1 = j1
    j2 = j2
    p1 = p1
    o1 = o1
    r1 = r1
    r2 = r2
    c1 = c1
    c2 = c2
    c3 = c3
    c4 = c4
    u1 = u1
    u2 = u2
    a1 = a1
    a2 = a2
    t1 = t1
    t2 = t2
    None = None
    NoProvider = NoProvider
    Nobody = Nobody
    Flows = {f1, f2}
    Disconnects = {d1, d2}
    MaxGen = 4
    Jobs = {j1, j2}
    EmailJobs = {j2}
    Providers = {p1}
    Files = {o1}
    Requests = {r1, r2}
    ProviderFails = TRUE
    MayBeCut <- Anywhere
    MaxLogins = 3
    Calls = {c1, c2, c3, c4}
    Users = {u1, u2}
    Accounts = {a1, a2}
    User <- WhoCalls
    Account <- WithWhich
    To <- ToWhom
    QueueMax = 1
    AccountMax = 2
    MaxCap = 2
SYMMETRY Alike
CHECK_DEADLOCK FALSE
INVARIANTS
    NothingStale
    DrainHolds
    NothingIsLeft
    LimitsHold
PROPERTIES
    ImplementsConnection
    WithinCap
