\* One section with a seat that stays taken and a second one that comes and goes,
\* three more students, a waitlist with room for one or for all: seats and places
\* are asked for, given up, promoted into and reordered, capacity is edited.
CONSTANTS
    Sections = {1}
    Students = {u0, u1, u2, u3}
    Ids = {e0, e1, e2, e3}
    Resident = u0
    ResidentRow = e0
    Clients = {c1, c2}
    Workers = {w1}
    CourseOf <- OneCourse
    Credits <- ThreeCredits
    Overlap <- NoOverlap
    Qualified <- EveryoneQualified
    CreditCap <- CapOfSix
    Opens <- OpenToAll
    TermOpens = 0
    Closes = 0
    InitialCapacity <- OneSeat
    Capacities = {1, 2}
    WaitCaps = {1}
    Holdable = {}
    Requests = {"enroll", "drop", "reorder", "update"}
    MaxNow = 0
    MaxFaults = 0
    None = None
    Attempts = 2
    KeepFailed = 100
SPECIFICATION Spec
SYMMETRY Others
ACTION_CONSTRAINT ResidentStays
INVARIANTS
    TypeOK
    CounterMatchesRows
    NeverOverCapacity
    ReadsStayTrue
    WaitlistOrdered
    RanksAgree
PROPERTIES
    NoOvertaking
    PromotionInOrder
