SPECIFICATION AccountSpec
CONSTANTS
    j1 = j1
    p1 = p1
    r1 = r1
    NoProvider = NoProvider
    Jobs = {j1}
    EmailJobs = {}
    Providers = {p1}
    Files = {}
    Requests = {r1}
    ProviderFails = FALSE
    MayBeCut <- Anywhere
    MaxLogins = 3
INVARIANT
    Retriable
CHECK_DEADLOCK FALSE
