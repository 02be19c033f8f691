\* Bookmark conflicts of different shapes.
CONSTANTS
    c1 = c1  c2 = c2
    Client = {c1, c2}
    Char = {"a", "b", "o", "w", "x", "y", "@"}
    View <- ConflictedViews
    Operation = {}
SPECIFICATION Spec
INVARIANTS IdNamesOneView
