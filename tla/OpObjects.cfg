\* Two clients exchange views without conflicts, or operations.
CONSTANTS
    c1 = c1  c2 = c2
    Client = {c1, c2}
    Char = {"a", "b", "o", "w", "x", "y", "@"}
    View <- PlainViews
    Operation <- PlainOperations
SPECIFICATION SeparateSpec
INVARIANTS HeldWasWritten IdNamesOneView ReadBackKeepsViewId IdNamesOneOperation ReadBackKeepsOperationId
