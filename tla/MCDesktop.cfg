SPECIFICATION MCSpec
CONSTANTS
    Nil = Nil
    Writer = Writer
    f1 = f1
    a1 = a1
    a2 = a2
    b1 = b1
    b2 = b2
    j1 = j1
    w1 = w1
    t1 = t1
    t2 = t2
    r1 = r1
    r2 = r2
    u1 = u1
    g1 = g1
    p1 = p1
    p2 = p2
    FormIds = {f1}
    Fills = {r1, r2}
    Tools = {r2}
    Submits = {u1}
    Gets = {g1}
    MaxFailures = 1
    Applications = {p1, p2}
    Platforms = {"yc"}
    CapOf <- Caps
    MaxJobs = 2
    ApplyCrashes = 1
    Tabs = {t1, t2}
    Apps = {a1, a2}
    FirmOf <- OneEach
    Batches = {p1, p2}
    DayCap = 1
    MinSample = 1
    Percent = 40
    SendCrashes = 1
    Jobs = {j1}
    Stages = {p1, p2}
    Page = w1
    StageCrashes = 1
    Threads = {a1, a2}
    Scans = {p1, p2}
    Trackers = {w1}
    MaxMails = 2
    MaxAsks = 2
SYMMETRY Alike
CHECK_DEADLOCK FALSE
INVARIANTS
    TypeOK
    SentIsTrue
    NothingTooOften
    OperatorIsHeard
