-------------------------- MODULE MCCommitObjects --------------------------
(***************************************************************************)
(* Small instances of CommitObjects.                                       *)
(***************************************************************************)
EXTENDS CommitObjects

CONSTANTS c1, c2, MaxObjects

\* Two moments of one second, by a user without a name.
Signatures == [name : {""}, millis : {1000, 1500}, tz : {0}]
OneSignature == [name : {""}, millis : {1000}, tz : {0}]

Clients == Permutations({c1, c2})

\* A tree in a tree or a conflict of two below one commit, two commits of one
\* tree, or three commits of the empty one, but not all at once.  Only commits of
\* the empty tree need descriptions to tell siblings apart.
Small ==
    /\ Cardinality(DOMAIN trees) + Cardinality(DOMAIN commits) <= MaxObjects
    /\ trees # <<>> => \A id \in DOMAIN commits : commits[id].description = "d"

SmallSpec == Init /\ [][Next /\ Small']_vars

=============================================================================
