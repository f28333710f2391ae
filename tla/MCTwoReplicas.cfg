\* Two replicas with the schedulers enabled; registration closes over a waitlist.
CONSTANTS
    Sections = {1}
    Students = {u1, u2}
    Ids = {e1, e2}
    Clients = {c1}
    Workers = {w1, w2}
    CourseOf <- OneCourse
    Credits <- ThreeCredits
    Overlap <- NoOverlap
    Qualified <- EveryoneQualified
    CreditCap <- CapOfSix
    Opens <- OpenToAll
    TermOpens = 0
    Closes = 0
    InitialCapacity <- OneSeat
    Capacities = {1}
    WaitCaps = {}
    Holdable = {}
    Requests = {"enroll"}
    MaxNow = 1
    MaxFaults = 0
    None = None
    Attempts = 2
    KeepFailed = 100
SPECIFICATION FairSpec
PROPERTIES
    ReplicasTellTwice
\* After registration closes, nothing is left to happen.
CHECK_DEADLOCK FALSE
