SPECIFICATION EmailSpec
CONSTANTS
    Nobody = Nobody
    NoProvider = NoProvider
    NoJob = NoJob
    NoApplication = NoApplication
    k1 = k1
    k2 = k2
    w1 = w1
    w2 = w2
    a1 = a1
    a2 = a2
    me = me
    gmailLane = gmailLane
    address = address
    Jobs = {k1}
    Workers = {w1, w2}
    SubmitJobs = {}
    Owner <- MCOwner
    Provider <- MCProvider
    Applications = {a1}
    Recipient <- MCRecipient
    MaxAttempts = 2
    MaxActive = 2
    MaxRevision = 2
INVARIANTS
    OnlyApprovedContentIsMailed
    NoRetryAfterDispatch
PROPERTIES
    SettledStaysSettled
    ImplementsLoop
