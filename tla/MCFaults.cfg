\* Two sections, faults at every step: jobs retried, exhausted, and evicted from
\* the one kept failure; waitlists expire, on two replicas at once too.
CONSTANTS
    Sections = {1, 2}
    Students = {u1, u2}
    Ids = {e1, e2, e3}
    Clients = {c1}
    Workers = {w1, w2}
    CourseOf <- CoursePerSection
    Credits <- ThreeCredits
    Overlap <- NoOverlap
    Qualified <- EveryoneQualified
    CreditCap <- CapOfSix
    Opens <- OpenToAll
    TermOpens = 0
    Closes = 0
    InitialCapacity <- OneSeat
    Capacities = {1}
    WaitCaps = {}
    Holdable = {}
    Requests = {"enroll", "drop"}
    MaxNow = 1
    MaxFaults = 4
    None = None
    Attempts = 2
    KeepFailed = 1
SPECIFICATION Spec
SYMMETRY Interchangeable
INVARIANTS
    AuditExplainsStatus
    NoticesMatchAudit
    JobsConsistent
PROPERTIES
    RowsKeepIdentity
    ImplementsPromise
\* After registration closes, with nobody registered, nothing is left to happen.
CHECK_DEADLOCK FALSE
