\* The retries of a promotion job can run out: two attempts, two faults.
CONSTANTS
    Sections = {1}
    Students = {u1, u2}
    Ids = {e1, e2}
    Clients = {c1}
    Workers = {w1}
    CourseOf <- OneCourse
    Credits <- ThreeCredits
    Overlap <- NoOverlap
    Qualified <- EveryoneQualified
    CreditCap <- CapOfSix
    Opens <- OpenToAll
    TermOpens = 0
    Closes = 0
    InitialCapacity <- OneSeat
    Capacities = {1}
    WaitCaps = {}
    Holdable = {}
    Requests = {"enroll", "drop"}
    MaxNow = 0
    MaxFaults = 2
    None = None
    Attempts = 2
    KeepFailed = 100
SPECIFICATION FairSpec
PROPERTIES
    SeatsReachTheWaitlist
