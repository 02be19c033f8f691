---------------------------- MODULE MCCloudStore ----------------------------
(***************************************************************************)
(* A small repository for CloudStore: two commits on the root, one with a  *)
(* tree, and operations on either side that are merged.                    *)
(***************************************************************************)
EXTENDS CloudStore, TLC

CONSTANTS c1, c2

Ops == 0..3
Parents == 0 :> {} @@ 1 :> {0} @@ 2 :> {0} @@ 3 :> {1, 2}
Ancestors == 0 :> {0} @@ 1 :> {0, 1} @@ 2 :> {0, 2} @@ 3 :> {0, 1, 2, 3}
Views == 0 :> 0 @@ 1 :> 1 @@ 2 :> 2 @@ 3 :> 2    \* merging restores the second

Objects == {"root", "empty", "tree", "left", "right"}

Refs ==
    "root" :> {"empty"} @@ "empty" :> {} @@ "tree" :> {} @@
    "left" :> {"root", "tree"} @@ "right" :> {"root", "empty"}

Below ==
    "root" :> {"root", "empty"} @@ "empty" :> {"empty"} @@ "tree" :> {"tree"} @@
    "left" :> {"left", "root", "empty", "tree"} @@
    "right" :> {"right", "root", "empty"}

Commits == 0 :> {"root"} @@ 1 :> {"left"} @@ 2 :> {"left", "right"}

=============================================================================
