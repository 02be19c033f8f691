------------------------------ MODULE OpChase -------------------------------
(***************************************************************************)
(* The op-heads protocol of OpHeads for as long as clients care to commit. *)
(* An operation that is no head and that no client holds can never come    *)
(* back, so its number is used again for the next one; ancestry is kept    *)
(* among the operations that still matter.  Behaviours are not cut short   *)
(* by the size of a graph, so liveness can be asked of clients that keep   *)
(* getting in each other's way.  Reads of operations and views, which      *)
(* always succeed (see OpHeads), are not repeated here.                    *)
(***************************************************************************)
EXTENDS Integers, FiniteSets

CONSTANTS
    Steady,     \* the client that goes on running commands
    Passing,    \* clients that come and go
    Id,         \* numbers of operations, enough for all that matter at once
    MaxAppends  \* bound: updates that name no old heads

VARIABLES
    heads,      \* MemoryStore.op_heads[repo]
    above,      \* above[o]: the operations in use that o descends from
    pc, op, old,\* per client: next step, operation handled, heads superseded
    appends

vars == <<heads, above, pc, op, old, appends>>

Client == {Steady} \cup Passing

ASSUME BoundAssumption == IsFiniteSet(Passing) /\ MaxAppends \in Nat

\* A head for each append and the first, and for each client as many heads and
\* one operation more: content addressing never runs out of ids.
ASSUME IdAssumption ==
    /\ 1 \in Id /\ IsFiniteSet(Id)
    /\ Cardinality(Id) > (1 + MaxAppends) + Cardinality(Client) * (2 + MaxAppends)

-----------------------------------------------------------------------------

Busy == {c \in Client : pc[c] \notin {"idle", "locked"}}

InUse == heads \cup UNION {{op[c]} \cup old[c] : c \in Busy}

Maximal(S) == {o \in S : \A p \in S : o \notin above[p]}

\* The slip of adding the new head and leaving the old ones.
NeverRetained(old_, new) ==
    IF old_ = {} \/ old_ \cap heads # {} THEN heads \cup {new} ELSE heads

\* The slip of replacing whatever is there.
LastWriterWins(old_, new) ==
    IF old_ = {} \/ old_ \cap heads # {} THEN {new} ELSE heads

\* update_op_heads
UpdatedHeads(old_, new) ==
    IF old_ = {} \/ old_ \cap heads # {} THEN (heads \ old_) \cup {new}
    ELSE heads

\* A new operation n on the given parents.
Create(n, parents) ==
    above' = [above EXCEPT ![n] = parents \cup UNION {above[p] : p \in parents}]

\* What is dropped from use leaves the ancestry.
Forget ==
    above' = [o \in Id |-> IF o \in InUse' THEN above[o] \cap InUse' ELSE {}]

New == CHOOSE n \in Id : n \notin InUse

Goto(c, p) == pc' = [pc EXCEPT ![c] = p]
Holds(c, o, S) == op' = [op EXCEPT ![c] = o] /\ old' = [old EXCEPT ![c] = S]
LetsGo(c) == Holds(c, 1, {})

Init ==
    /\ heads = {1} /\ above = [o \in Id |-> {}]
    /\ pc = [c \in Client |-> "idle"]
    /\ op = [c \in Client |-> 1] /\ old = [c \in Client |-> {}]
    /\ appends = 0

\* get_op_heads names one head; the client reads it.
LoadSoleHead(c) ==
    /\ pc[c] \in {"idle", "locked"}
    /\ \E h \in heads : heads = {h} /\ Holds(c, h, {})
    /\ Goto(c, "loaded")
    /\ UNCHANGED <<heads, appends>> /\ Forget

\* It names several: take the lock, which excludes nobody, and ask again.
TakeLock(c) ==
    /\ pc[c] = "idle" /\ Cardinality(heads) > 1
    /\ Goto(c, "locked")
    /\ UNCHANGED <<heads, above, op, old, appends>>

LoadHeads(c) ==
    /\ pc[c] = "locked" /\ Cardinality(heads) > 1
    /\ Holds(c, CHOOSE h \in heads : TRUE, heads)
    /\ Goto(c, "resolve")
    /\ UNCHANGED <<heads, appends>> /\ Forget

\* The slip of not looking whether it descends from the others.
DropOthers(c) ==
    /\ pc[c] = "resolve"
    /\ \E h \in Maximal(old[c]) : Holds(c, h, old[c] \ {h})
    /\ Goto(c, "publishMerge")
    /\ UNCHANGED <<heads, above, appends>>

\* One head descends from the others: publish it in their place.
DropAncestors(c) ==
    /\ pc[c] = "resolve"
    /\ \E h \in old[c] : Maximal(old[c]) = {h} /\ Holds(c, h, old[c] \ {h})
    /\ Goto(c, "publishMerge")
    /\ UNCHANGED <<heads, above, appends>>

\* Otherwise publish a merge in the place of all.
MergeHeads(c) ==
    /\ pc[c] = "resolve"
    /\ Cardinality(Maximal(old[c])) > 1 /\ InUse # Id
    /\ Create(New, old[c]) /\ Holds(c, New, old[c])
    /\ Goto(c, "publishMerge")
    /\ UNCHANGED <<heads, appends>>

Commit(c) ==
    /\ pc[c] = "loaded" /\ InUse # Id
    /\ Create(New, {op[c]}) /\ Holds(c, New, {op[c]})
    /\ Goto(c, "publish")
    /\ UNCHANGED <<heads, appends>>

UpdateOpHeads(c) ==
    /\ pc[c] \in {"publish", "publishMerge"}
    /\ heads' = UpdatedHeads(old[c], op[c])
    /\ Holds(c, op[c], {})
    /\ Goto(c, IF pc[c] = "publish" THEN "acked" ELSE "loaded")
    /\ UNCHANGED appends /\ Forget

\* The next transaction of the same command.
Continue(c) ==
    /\ pc[c] = "acked" /\ Goto(c, "loaded")
    /\ UNCHANGED <<heads, above, op, old, appends>>

\* The command ends, or is killed.
End(c) ==
    /\ Goto(c, "idle") /\ LetsGo(c)
    /\ UNCHANGED <<heads, appends>> /\ Forget

Finish(c) == pc[c] \in {"loaded", "acked"} /\ End(c)
Abort(c) == pc[c] # "idle" /\ End(c)

\* An update without old heads, from a caller that built on any operation.
AppendHead ==
    /\ appends < MaxAppends /\ InUse # Id
    /\ appends' = appends + 1
    /\ \E p \in InUse : Create(New, {p})
    /\ heads' = UpdatedHeads({}, New)
    /\ UNCHANGED <<pc, op, old>>

Step(c) ==
    \/ LoadSoleHead(c) \/ TakeLock(c) \/ LoadHeads(c)
    \/ DropAncestors(c) \/ MergeHeads(c)
    \/ Commit(c) \/ UpdateOpHeads(c) \/ Continue(c) \/ Finish(c)

Next == (\E c \in Client : Step(c)) \/ (\E c \in Passing : Abort(c)) \/ AppendHead

\* The steady client's commands start, get on, and end some time.
Fairness ==
    /\ WF_vars(LoadSoleHead(Steady) \/ TakeLock(Steady) \/ LoadHeads(Steady)
               \/ DropAncestors(Steady) \/ MergeHeads(Steady)
               \/ UpdateOpHeads(Steady))
    /\ SF_vars(Finish(Steady))

Spec == Init /\ [][Next]_vars /\ Fairness

-----------------------------------------------------------------------------

\* However long clients have resolved and committed across each other, and
\* whatever stale updates are still to come from them: once the others publish
\* no more, the one that goes on brings the log back to one head and keeps it
\* there, although it commits for ever itself.
ConvergesOnceAlone ==
    <>[][\A c \in Passing : ~UpdateOpHeads(c)]_vars => <>[](Cardinality(heads) = 1)

\* Only an append adds to the heads, and there is always one.
HeadsInv ==
    /\ heads # {} /\ Cardinality(heads) <= 1 + appends
    /\ heads \subseteq Id /\ appends \in 0..MaxAppends

\* Ancestry is a strict order among the operations in use, also where numbers
\* have been used again.
AboveInv ==
    /\ above \in [Id -> SUBSET InUse]
    /\ \A o \in Id : o \notin above[o]
    /\ \A o \in Id : \A p \in above[o] : above[p] \subseteq above[o]

Stage ==
    {"idle", "locked", "loaded", "resolve", "publish", "publishMerge", "acked"}

\* What a client is about to publish descends from all that it will replace,
\* which is not nothing, however long ago it looked at the heads.
ClientInv(c) ==
    /\ Cardinality(old[c]) <= 1 + MaxAppends
    /\ pc[c] \in {"idle", "locked", "loaded", "acked"} => old[c] = {}
    /\ pc[c] = "resolve" => op[c] \in old[c] /\ Cardinality(old[c]) > 1
    /\ pc[c] \in {"publish", "publishMerge"} => old[c] # {} /\ old[c] \subseteq above[op[c]]

\* The inductive invariant: two clients may replace each other's heads for ever,
\* and still no head is given up for an operation that does not include it.
ChaseInv ==
    /\ HeadsInv /\ AboveInv /\ \A c \in Client : ClientInv(c)
    /\ pc \in [Client -> Stage]
    /\ op \in [Client -> Id] /\ old \in [Client -> SUBSET Id]

\* A head only ever leaves the list for one that descends from it
\* (update_op_heads), although clients resolve without a lock, are stale, and
\* clients come and go for ever.
HeadsGiveWay ==
    [][\A o \in heads \ heads' : \E n \in heads' : o \in above[n]]_vars

=============================================================================
