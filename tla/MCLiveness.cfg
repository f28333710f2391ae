\* Fair scheduling, one section, a client and a worker; a job survives the one
\* fault there is; three rows, so that a seat is freed while a job runs;
\* registration closes under requests on their way.
CONSTANTS
    Sections = {1}
    Students = {u1, u2}
    Ids = {1, 2, 3}
    Clients = {c1}
    Workers = {w1}
    CourseOf <- OneCourse
    Credits <- ThreeCredits
    Overlap <- NoOverlap
    Qualified <- EveryoneQualified
    CreditCap <- CapOfSix
    Opens <- OpenToAll
    TermOpens = 0
    Closes = 0
    InitialCapacity <- OneSeat
    Capacities = {1}
    WaitCaps = {}
    Holdable = {}
    Requests = {"enroll", "drop"}
    MaxNow = 1
    MaxFaults = 1
    None = None
    Attempts = 2
    KeepFailed = 100
SPECIFICATION FairSpec
ACTION_CONSTRAINT IdsInOrder
PROPERTIES
    SeatsReachTheWaitlist
    TransactionsEnd
    WaitlistsExpire
\* After registration closes, with nobody registered, nothing is left to happen.
CHECK_DEADLOCK FALSE
