\* Two clients write and rewrite, hear of each other's commits and walk them,
\* build merges on them, and write [X] and [X, root] over each other.
CONSTANTS
    c1 = c1  c2 = c2
    Client = {c1, c2}
    Content = {"A"}
    Signature <- OneSignature
    Description = {"d", "e"}
    MaxParents = 2
    MaxFiles = 1  MaxTrees = 2  MaxCommits = 3  MaxObjects = 3
SPECIFICATION SmallSpec
INVARIANTS CheckoutComplete AncestryAcyclic ReadBackKeepsId ObjectInv
PROPERTIES CheckoutStable
SYMMETRY Clients
