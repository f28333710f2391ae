\* The parts that stand alone, each on a small instance of its own.
CONSTANTS
    None = None
    r1 = r1  r2 = r2  k1 = k1  k2 = k2  k3 = k3  t1 = t1  t2 = t2
    w1 = w1  w2 = w2  p1 = p1  p2 = p2  p3 = p3
    Readers = {r1, r2}
    Urls = {"a"}
    TTL = 2
    SlowestRead = 1
    MaxChanges = 2
    MaxClock = 4
    Catalog = {1, 2, 3, 4}
    Departments = {"CS", "MATH"}
    DeptOf <- CodePrefixes
    TitleRank <- TitleOrder
    Relevance <- Ranks
    Searches = {"   ", "algo", "the", "zzz"}
    Blank = "   "
    Window = 3
    PageSizes = {1, 2}
    DefaultSize = 2
    FewPages = 2
    Pages = {1, 2, 9}
    Junk = Junk
    Texts = {"", "a", "ab"}
    Chosen = {"CS"}
    MaxInputs = 4
    Courses = {k1, k2, k3}
    Outlook <- Outlooks
    MaxSelects = 4
    MaxClosings = 2
    Entries = {w1, w2}
    Limits = {1, 2}
    MaxEvents = 4
    MaxMoves = 5
    MaxNotices = 3
    MaxStamps = 2
    PageLength = 2
    Buttons = {t1, t2}
    AutoDismiss = 1
    MaxToasts = 3
    Rows = {1, 2, 3}
    Drainers = {d1, d2}
    BatchSize = 2
    MaxFaults = 3
    Roster <- Students
    Seats <- SmallAndLarge
    Hot <- FirstSection
    HotTarget = 1
    MaxDies = 1
SPECIFICATION PartsSpec
INVARIANTS
    StalenessBounded
    PagesShowEveryMatch
    BoxFollowsPage
    DrawerShowsSelected
    ButtonTellsStanding
    WipeNeverBlocked
    SeededTablesSound
    OutboxTypeOK
    NothingLost
PROPERTIES
    ScreensSettle
    ImplementsTrail
    EverythingDrained
\* Students who have done with a screen leave it, every event is drained and deleted,
\* and the bounds end.
CHECK_DEADLOCK FALSE
