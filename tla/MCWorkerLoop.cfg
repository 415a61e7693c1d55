SPECIFICATION Spec
CONSTANTS
    Nobody = Nobody
    NoProvider = NoProvider
    NoJob = NoJob
    j1 = j1
    j2 = j2
    j3 = j3
    w1 = w1
    w2 = w2
    u1 = u1
    lane = lane
    Jobs <- LaneJobs
    Workers <- MCWorkers
    SubmitJobs <- MCSubmitJobs
    Owner <- MCOwner
    Provider <- MCProvider
    MaxAttempts = 2
    MaxActive = 2
SYMMETRY Symmetry
INVARIANTS
    IInv
    OneRunningPerLane
    WaitingIsStartable
    CancellationWins
    FenceIsPerAttempt
PROPERTIES
    ImplementsLifecycle
