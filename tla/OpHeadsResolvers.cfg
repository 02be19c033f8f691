\* Two jj clients resolving at once, and an appending caller.
CONSTANTS
    c1 = c1  c2 = c2  c3 = c3
    Client = {c1, c2, c3}
    Appender = {c3}
    MaxOrphans = 0
    Root = 0
    RootView = 0
    ViewId = {0, 1, 2}
    OpId <- DiamondOps
    ParentsOf <- DiamondParents
    AncestorsOf <- DiamondAncestors
    ViewOf <- DiamondViews
SPECIFICATION Spec
INVARIANTS HeadsWellFormed IInv
PROPERTIES ImplementsHistory
