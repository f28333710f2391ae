\* Two sections of one course, one of them tight: swaps either way, promotions,
\* and students who got into both by concurrent requests.
CONSTANTS
    Sections = {1, 2}
    Students = {u1, u2}
    Ids = {e1, e2, e3}
    Clients = {c1, c2}
    Workers = {w1}
    CourseOf <- OneCourse
    Credits <- ThreeCredits
    Overlap <- NoOverlap
    Qualified <- EveryoneQualified
    CreditCap <- CapOfSix
    Opens <- OpenToAll
    TermOpens = 0
    Closes = 0
    InitialCapacity <- OneAndTwoSeats
    Capacities = {1}
    WaitCaps = {}
    Holdable = {}
    Requests = {"enroll", "drop", "swap"}
    MaxNow = 0
    MaxFaults = 0
    None = None
    Attempts = 2
    KeepFailed = 1
SPECIFICATION Spec
SYMMETRY Interchangeable
INVARIANTS
    DeadlockFree
    OneActiveRow
PROPERTIES
    SwapAtomic
    ImplementsPromise
