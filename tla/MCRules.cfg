\* Every rule of registration, with requests one at a time.
CONSTANTS
    Sections = {1, 2, 3, 4}
    Students = {u1}
    Ids = {e1, e2, e3}
    Clients = {c1}
    Workers = {w1}
    CourseOf <- PairedCourses
    Credits <- ThreeCredits
    Overlap <- Collisions
    Meeting <- FourMeetings
    FurtherMeetings <- SeedMeetings
    Qualified <- EveryoneQualified
    CreditCap <- CapOfSix
    Opens <- OpenToAll
    TermOpens = 1
    Closes = 1
    InitialCapacity <- OneSeat
    Capacities = {1}
    WaitCaps = {}
    Holdable = {u1}
    Requests = {"enroll", "drop", "swap"}
    MaxNow = 2
    MaxFaults = 0
    None = None
    Attempts = 2
    KeepFailed = 1
SPECIFICATION Spec
SYMMETRY Interchangeable
INVARIANTS
    OneSectionPerCourse
    NoOverlappingRows
    WithinCreditCap
    GridShowsCollisions
