\* Two jj clients that commit on the same operation.
CONSTANTS
    c1 = c1  c2 = c2  c3 = c3
    Client = {c1, c2}
    Appender = {}
    MaxOrphans = 1
    Root = 0
    RootView = 0
    ViewId = {0, 1, 2}
    OpId <- LineOps
    ParentsOf <- LineParents
    AncestorsOf <- LineAncestors
    ViewOf <- LineViews
SPECIFICATION Spec
INVARIANTS AckedOpIsPublished
