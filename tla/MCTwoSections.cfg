\* Two sections of one course, requests of one student at a time or together.
CONSTANTS
    Sections = {1, 2}
    Students = {u1, u2}
    Ids = {e1, e2, e3}
    Clients = {c1, c2}
    Workers = {}
    CourseOf <- OneCourse
    Credits <- ThreeCredits
    Overlap <- NoOverlap
    Qualified <- EveryoneQualified
    CreditCap <- CapOfSix
    Opens <- OpenToAll
    TermOpens = 0
    Closes = 0
    InitialCapacity <- OneSeat
    Capacities = {1}
    WaitCaps = {}
    Holdable = {}
    Requests = {"enroll"}
    MaxNow = 0
    MaxFaults = 0
    None = None
    Attempts = 2
    KeepFailed = 1
SPECIFICATION Spec
INVARIANTS
    OneSectionPerCourse
