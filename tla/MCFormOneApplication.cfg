SPECIFICATION FormSpec
CONSTANTS
    Nobody = Nobody
    NoProvider = NoProvider
    NoJob = NoJob
    s1 = s1
    s2 = s2
    p1 = p1
    p2 = p2
    w1 = w1
    w2 = w2
    me = me
    lane = lane
    Jobs = {s1, p1}
    Workers = {w1}
    SubmitJobs = {p1}
    Owner <- MCOwner
    Provider <- MCProvider
    MaxAttempts = 2
    MaxActive = 2
    MaxRevision = 1
INVARIANT
    OneApplicationPerRevision
