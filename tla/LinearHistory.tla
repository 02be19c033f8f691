--------------------------- MODULE LinearHistory ---------------------------
(***************************************************************************)
(* What the op-heads service promises when jj-lib is its only caller: the  *)
(* operation log is one line.  Its tip moves only to a child of the tip,   *)
(* so of several operations built on the same tip at most one is accepted. *)
(***************************************************************************)
EXTENDS OpGraph

VARIABLES
    live,   \* the server still knows the repository
    tip     \* the operation every client will load next

lvars == <<live, tip>>

LInit == live = TRUE /\ tip = Root

LExtend(o) ==
    /\ live
    /\ ParentsOf[o] = {tip}
    /\ tip' = o
    /\ UNCHANGED live

LForget ==
    /\ live' = FALSE
    /\ tip' = Root

LNext == LForget \/ \E o \in OpId : LExtend(o)

LSpec == LInit /\ [][LNext]_lvars

=============================================================================
