SPECIFICATION MCSpec
CONSTANTS
    Nil = Nil
    NoOne = NoOne
    Gone = Gone
    NoDraft = NoDraft
    NoRecipient = NoRecipient
    JobContact = JobContact
    NotRead = NotRead
    Failed = Failed
    NoRefresh = NoRefresh
    a1 = a1
    m1 = m1
    j1 = j1
    t1 = t1
    s1 = s1
    before = before
    Tabs = {p1, p2}
    FewTabs = {t1}
    DeskRequests = 1
    SendsRequests = 2
    Places = {s1, s2}
    Apps = {a1}
    Jobs = {j1}
    Addresses = {a1, a2}
    Texts = {m1, m2}
    OtherTexts = {d1, d2}
    Files = {d1, d2}
    FewFiles = {f1}
    Tables = {jobs}
    Broken = {}
    Runs = {r1}
    Savers = {p1, p2}
    Facts = {before, after}
    PlainFields = {"phone"}
    FilledFields = {"skills"}
    Numbers = {}
    Users = {ann, bob}
    FewUsers = {ann}
    Links = {bob}
    FewLinks = {}
    LoginKinds = {"load"}
    RetryKinds = {"load", "save", "delete"}
    MaxRevision = 2
    MaxApprovals = 1
    MaxRows = 1
    MaxClicks = 1
    MaxRounds = 2
    MaxScans = 1
    MaxSaves = 2
    SyncRevisions = 2
    SyncReads = 1
    MaxEdits = 1
    UploadSlots = {1, 2}
    UploadIds = 2
    BucketSlots = {1}
    SlotIds = 1
    MaxAttempts = 1
    MaxVersion = 0
    MaxFailures = 1
    LoginPending = 1
    RetryPending = 2
SYMMETRY Alike
CHECK_DEADLOCK FALSE
INVARIANTS
    TypeOK
    ApprovalsAreTrue
    UserDecides
    StoredDataAgrees
    ScreenIsTrue
PROPERTIES
    ApprovedIsLeftAlone
    FinishedShowsEverything
