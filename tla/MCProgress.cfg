SPECIFICATION FairSpec
CONSTANTS
    Nil = Nil
    NoOne = NoOne
    NoProvider = NoProvider
    NotRead = NotRead
    Failed = Failed
    NoRefresh = NoRefresh
    Writer = Writer
    j1 = j1
    j2 = j2
    p1 = p1
    o1 = o1
    r1 = r1
    r2 = r2
    c1 = c1
    c2 = c2
    c3 = c3
    u1 = u1
    u2 = u2
    a1 = a1
    a2 = a2
    x1 = x1
    x2 = x2
    s1 = s1
    s2 = s2
    t1 = t1
    f1 = f1
    g1 = g1
    jobs = jobs
    forms = forms
CHECK_DEADLOCK FALSE
PROPERTIES
    DeletionEnds
    WaitsEnd
    CatchesUp
