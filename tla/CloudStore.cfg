\* One jj client that merges, one caller that appends heads, one late request.
CONSTANTS
    c1 = c1  c2 = c2
    Client = {c1, c2}
    Appender = {c2}
    MaxOrphans = 1
    Root = 0
    RootView = 0
    ViewId = {0, 1, 2}
    OpId <- Ops
    ParentsOf <- Parents
    AncestorsOf <- Ancestors
    ViewOf <- Views
    WellKnown = {"root", "empty"}
    ObjectId <- Objects
    RefsOf <- Refs
    BelowOf <- Below
    CommitsOf <- Commits
SPECIFICATION CSpec
INVARIANTS CheckoutOfHistory ObjectsInv HistoryReadable AckedIsRecoverable
INVARIANTS AcceptedUpdatesBuildOnHistory
