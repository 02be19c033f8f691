\* One jj client that keeps running against one appending caller.
CONSTANTS
    c1 = c1  c2 = c2  c3 = c3
    Client = {c1, c2}
    Appender = {c2}
    MaxOrphans = 0
    Root = 0
    RootView = 0
    ViewId = {0, 1, 2}
    OpId <- MergeOps
    ParentsOf <- MergeParents
    AncestorsOf <- MergeAncestors
    ViewOf <- MergeViews
SPECIFICATION FairSpec
PROPERTIES Convergence
