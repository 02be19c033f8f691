----------------------------- MODULE MCOpHeads -----------------------------
(***************************************************************************)
(* Finite operation graphs for OpHeads.  Operation 0 is the root.          *)
(***************************************************************************)
EXTENDS OpHeads, TLC

CONSTANTS c1, c2, c3

\* Clients that all run the same code may trade places.
ClientSymmetry == Permutations(Client)

\* Ancestors by recursion on a graph whose parents have smaller numbers.
Ancestors(parents) ==
    LET anc[o \in DOMAIN parents] ==
            {o} \cup UNION {anc[p] : p \in parents[o]}
    IN  anc

\* Two siblings on the root, each with a line of descendants: what clients
\* that never see two heads can build.
LineOps == 0..4
LineParents ==
    0 :> {} @@ 1 :> {0} @@ 2 :> {0} @@ 3 :> {1} @@ 4 :> {2}
LineAncestors == Ancestors(LineParents)
LineViews == [o \in LineOps |-> o % 3]    \* 3 has the root view again

\* Siblings, a grandchild, and merges of the antichains they may form.
MergeOps == 0..6
MergeParents ==
    0 :> {} @@ 1 :> {0} @@ 2 :> {0} @@ 3 :> {1} @@
    4 :> {1, 2} @@ 5 :> {3, 2} @@ 6 :> {3, 4}
MergeAncestors == Ancestors(MergeParents)
MergeViews == [o \in MergeOps |-> o % 2]

\* The least graph in which two clients can merge the same siblings.
DiamondOps == 0..4
DiamondParents ==
    0 :> {} @@ 1 :> {0} @@ 2 :> {0} @@ 3 :> {1, 2} @@ 4 :> {3}
DiamondAncestors == Ancestors(DiamondParents)
DiamondViews == [o \in DiamondOps |-> o % 2]

=============================================================================
