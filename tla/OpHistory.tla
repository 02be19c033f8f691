----------------------------- MODULE OpHistory -----------------------------
(***************************************************************************)
(* What the op-heads service promises whoever may call it: the published   *)
(* history of a repository is closed under parents and never shrinks while *)
(* the server lives; an operation enters it on top of operations that are  *)
(* already in it.  A restart of the in-memory server forgets everything.   *)
(***************************************************************************)
EXTENDS OpGraph

VARIABLES
    live,       \* the server still knows the repository
    published   \* the operations reachable from the heads

hvars == <<live, published>>

HInit == live = TRUE /\ published = {Root}

HPublish(o) ==
    /\ live
    /\ ParentsOf[o] \subseteq published
    /\ published' = published \cup {o}
    /\ UNCHANGED live

HForget ==
    /\ live' = FALSE
    /\ published' = {Root}

HNext == HForget \/ \E o \in OpId : HPublish(o)

HSpec == HInit /\ [][HNext]_hvars

=============================================================================
