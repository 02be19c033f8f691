\* Views with tags.
CONSTANTS
    c1 = c1  c2 = c2
    Client = {c1, c2}
    Char = {"a", "b", "o", "w", "x", "y", "@"}
    View <- TaggedViews
    Operation = {}
SPECIFICATION Spec
INVARIANTS IdNamesTags
