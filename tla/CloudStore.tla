----------------------------- MODULE CloudStore -----------------------------
(***************************************************************************)
(* One repository whole: the operation log of OpHeads together with the    *)
(* commits, trees and files its views lead to.  A client stores an object  *)
(* after everything the object refers to, and names in a view only what it *)
(* knows: what a view it loaded names, what an object it read refers to,   *)
(* and what the server confirmed to it.                                    *)
(*                                                                         *)
(* Objects are content-addressed, so their graph is a constant, as that of *)
(* the operations is.  CommitObjects has their contents and ids.           *)
(***************************************************************************)
EXTENDS OpHeads

CONSTANTS
    ObjectId,   \* ids of files, trees and commits clients may create
    WellKnown,  \* the root commit and the empty tree, which are never stored
    RefsOf,     \* a commit's parents and root tree, a tree's entries
    BelowOf,    \* BelowOf[x]: x and everything it leads to
    CommitsOf   \* CommitsOf[v]: the heads and targets of view v

ASSUME ObjectTypes ==
    /\ WellKnown \subseteq ObjectId
    /\ RefsOf \in [ObjectId -> SUBSET ObjectId]
    /\ BelowOf \in [ObjectId -> SUBSET ObjectId]
    /\ CommitsOf \in [ViewId -> SUBSET ObjectId]

\* Below an object is the object and what is below its references.
ASSUME BelowAssumption ==
    \A x \in ObjectId :
        BelowOf[x] = {x} \cup UNION {BelowOf[y] : y \in RefsOf[x]}

\* The synthesised root view has the root commit for its only head, and that
\* commit leads to the empty tree.
ASSUME WellKnownAssumption ==
    /\ CommitsOf[RootView] \subseteq WellKnown
    /\ \A x \in WellKnown : BelowOf[x] \subseteq WellKnown

VARIABLES
    objects,    \* keys of MemoryStore.files, trees and commits
    known,      \* known[c]: the object ids the command of client c has
    late        \* objects whose writer is gone and whose write is on its way

cvars == <<vars, objects, known, late>>

-----------------------------------------------------------------------------

Found == objects \cup WellKnown

\* Whether view v can be checked out completely.
Complete(v) == \A x \in CommitsOf[v] : BelowOf[x] \subseteq Found

CInit ==
    /\ Init
    /\ objects = {} /\ late = {}
    /\ known = [c \in Client |-> WellKnown]

Knows(c, S) == known' = [known EXCEPT ![c] = @ \cup S]
Forgets(c) == known' = [known EXCEPT ![c] = WellKnown]

\* Between loading and publishing, in a transaction or a merge of heads.
Working(c) == pc[c] \in {"loaded", "resolve"}

\* The slip of not waiting for the entries of a tree to be written.
DescribesAhead(c, x) == Working(c) /\ x \notin WellKnown

\* An object the client can describe and has to write.
Describes(c, x) == Working(c) /\ x \notin WellKnown /\ RefsOf[x] \subseteq known[c]

\* put_file, put_tree, put_commit
PutObject(x) == registered /\ objects' = objects \cup {x}

\* The slip of computing the id at the client and not waiting for the server.
WriteObjectUnanswered(c) ==
    /\ \E x \in ObjectId :
          /\ Describes(c, x) /\ registered
          /\ objects' = objects \cup {x} \/ UNCHANGED objects
          /\ Knows(c, {x})
    /\ UNCHANGED <<vars, late>>

\* write_file, write_tree, write_commit: the server's answer names the object.
WriteObject(c) ==
    /\ \E x \in ObjectId : Describes(c, x) /\ PutObject(x) /\ Knows(c, {x})
    /\ UNCHANGED <<vars, late>>

\* read_tree, read_commit: what the object refers to becomes known.
ReadObject(c) ==
    /\ Working(c)
    /\ \E x \in known[c] :
          /\ x \in WellKnown \/ (registered /\ x \in objects)
          /\ Knows(c, RefsOf[x])
    /\ UNCHANGED <<vars, objects, late>>

\* An object is asked for that the server does not have, or written to a
\* server that has restarted: the command fails.
ObjectRefused(c) ==
    /\ Working(c) /\ (~registered \/ ~(known[c] \subseteq Found))
    /\ Goto(c, "idle") /\ Set(c, NoTx) /\ Quiet
    /\ Forgets(c) /\ UNCHANGED <<objects, late>>

\* The views of the heads that are to be merged.
ReadHeadViews(c) ==
    /\ pc[c] = "resolve" /\ registered /\ Resolvable(tx[c].old)
    /\ Knows(c, UNION {CommitsOf[ViewOf[o]] : o \in Maximal(tx[c].old)})
    /\ UNCHANGED <<vars, objects, late>>

\* A view is loaded.
LoadView(c) ==
    /\ ReadView(c) /\ Knows(c, CommitsOf[ViewOf[tx[c].op]])
    /\ UNCHANGED <<objects, late>>

\* An operation is made whose view names objects the client knows.
Build(c) ==
    /\ Commit(c) \/ MergeHeads(c)
    /\ CommitsOf[ViewOf[tx'[c].op]] \subseteq known[c]
    /\ UNCHANGED <<objects, known, late>>

\* The steps of OpHeads that objects have no part in.
LogStep(c) ==
    /\ \/ LoadSoleHead(c) \/ TakeLock(c) \/ LoadHeads(c) \/ DropAncestors(c)
       \/ ReadOperation(c) \/ WriteView(c) \/ WriteOperation(c)
       \/ UpdateOpHeads(c) \/ Continue(c)
    /\ UNCHANGED <<objects, known, late>>

StartOrEnd(c) ==
    /\ Begin(c) \/ Finish(c) \/ Fail(c)
    /\ Forgets(c) /\ UNCHANGED <<objects, late>>

\* The client dies, perhaps with the write of an object on its way.
Die(c) ==
    /\ Abort(c) /\ Forgets(c) /\ UNCHANGED objects
    /\ \/ UNCHANGED late
       \/ /\ Cardinality(orphans') + Cardinality(late) < MaxOrphans
          /\ \E x \in ObjectId : Describes(c, x) /\ late' = late \cup {x}

ServeLate(x) ==
    /\ PutObject(x) /\ late' = late \ {x}
    /\ UNCHANGED <<vars, known>>

ServeOrphanRequest(r) == ServeOrphan(r) /\ UNCHANGED <<objects, known, late>>

ServerRestart ==
    /\ Restart /\ objects' = {} /\ late' = {} /\ UNCHANGED known

CNext ==
    \/ \E c \in Client :
          \/ LogStep(c) \/ StartOrEnd(c) \/ LoadView(c) \/ ReadHeadViews(c)
          \/ WriteObject(c) \/ ReadObject(c) \/ ObjectRefused(c)
          \/ Build(c) \/ Die(c)
    \/ \E x \in late : ServeLate(x)
    \/ \E r \in orphans : ServeOrphanRequest(r)
    \/ ServerRestart

CSpec == CInit /\ [][CNext]_cvars

-----------------------------------------------------------------------------
(* Properties.                                                             *)

\* The variables this module adds hold values of their types.
CTypeOK ==
    /\ objects \subseteq ObjectId /\ late \subseteq ObjectId
    /\ known \in [Client -> SUBSET ObjectId]

\* Every operation a reader can arrive at, by the heads or because its
\* publication was acknowledged, can be checked out completely: all commits,
\* trees and files its view leads to are stored, although they were written
\* one by one, by several clients, some of which died on the way.
CheckoutOfHistory ==
    registered => \A o \in Published \cup
            UNION {AncestorsOf[tx[c].op] : c \in {d \in Client : pc[d] = "acked"}} :
        Complete(ViewOf[o])

\* What makes it hold in every step: stored objects have everything below them
\* stored, and so have the ids clients know, late writes, stored views, and the
\* views on their way to the server.
ObjectsInv ==
    /\ CTypeOK
    /\ registered =>
          /\ \A x \in Found : BelowOf[x] \subseteq Found
          /\ \A c \in Client : known[c] \subseteq Found
          /\ \A x \in late : RefsOf[x] \subseteq Found
          /\ \A v \in views : CommitsOf[v] \subseteq Found
          /\ \A c \in Client :
                pc[c] = "writeView" => CommitsOf[ViewOf[tx[c].op]] \subseteq Found
          /\ \A r \in orphans :
                r.kind = "writeView" => CommitsOf[ViewOf[r.op]] \subseteq Found

=============================================================================
