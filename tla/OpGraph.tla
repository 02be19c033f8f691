------------------------------ MODULE OpGraph ------------------------------
(***************************************************************************)
(* The operation graph that clients build and the server stores.  An       *)
(* operation is content-addressed: its id fixes its parents and its view,  *)
(* so the graph is a constant and the server's state is a part of it.      *)
(*                                                                         *)
(* Source: op_store.proto (Operation), server/src/op_store.rs (the root    *)
(* operation and root view the server synthesises), lib/src/cc_op_store.rs.*)
(***************************************************************************)
EXTENDS Integers, FiniteSets

CONSTANTS
    OpId,         \* ids of the operations clients may ever create
    Root,         \* ROOT_OPERATION_ID_BYTES
    ParentsOf,    \* ParentsOf[o]: Operation.parents, as a set
    AncestorsOf,  \* AncestorsOf[o]: o and everything reachable by parents
    ViewId,
    RootView,     \* ROOT_VIEW_ID_BYTES
    ViewOf        \* ViewOf[o]: Operation.view_id

ASSUME GraphTypes ==
    /\ Root \in OpId /\ RootView \in ViewId
    /\ ParentsOf \in [OpId -> SUBSET OpId]
    /\ AncestorsOf \in [OpId -> SUBSET OpId]
    /\ ViewOf \in [OpId -> ViewId]

\* The synthesised root operation has the root view and no parents.
ASSUME RootAssumption ==
    ParentsOf[Root] = {} /\ ViewOf[Root] = RootView

\* AncestorsOf is the reflexive and transitive closure of ParentsOf, and the
\* graph has no cycle (a hash cannot contain itself).
ASSUME AncestorAssumption ==
    /\ \A o \in OpId : o \notin ParentsOf[o]
    /\ \A o \in OpId :
          AncestorsOf[o] = {o} \cup UNION {AncestorsOf[p] : p \in ParentsOf[o]}
    /\ \A a, b \in OpId :
          a \in AncestorsOf[b] => AncestorsOf[a] \subseteq AncestorsOf[b]
    /\ \A a, b \in OpId :
          a \in AncestorsOf[b] /\ b \in AncestorsOf[a] => a = b

-----------------------------------------------------------------------------

\* The history under a set of heads.
Reach(S) == UNION {AncestorsOf[o] : o \in S}

\* The members of S that no other member of S descends from (dag_walk heads).
Maximal(S) ==
    {o \in S : \A p \in S \ {o} : o \notin AncestorsOf[p]}

\* In a finite acyclic graph every member lies under a maximal one.
ASSUME MaximalAssumption ==
    \A S \in SUBSET OpId : S \subseteq Reach(Maximal(S))

=============================================================================
