------------------------------ MODULE OpHeads ------------------------------
(***************************************************************************)
(* One repository's operation log: the server's op-store service over its  *)
(* MemoryStore, and the clients that load the log, build an operation on   *)
(* what they loaded and publish it through CommitCloudOpStore and          *)
(* CommitCloudOpHeadsStore.                                                *)
(*                                                                         *)
(* A server handler checks the registration and then takes one lock once,  *)
(* and the registration changes only when the process dies, so a handler   *)
(* is one step.  A client awaits each RPC before the next one; a client    *)
(* that dies or loses its connection may leave its last request behind,    *)
(* and the server may still handle it any time later.                      *)
(***************************************************************************)
EXTENDS OpGraph

CONSTANTS
    Client,
    Appender,   \* clients of the wire API that publish with no old heads
    MaxOrphans  \* bound: requests of dead clients still on their way

ASSUME ClientAssumption == Appender \subseteq Client /\ MaxOrphans \in Nat

VARIABLES
    registered, \* the repository's id is in MemoryStore.repos
    views,      \* keys of MemoryStore.views[repo]
    ops,        \* keys of MemoryStore.ops[repo]
    heads,      \* MemoryStore.op_heads[repo]: NoEntry, or the Vec as a bag
    pc,         \* pc[c]: what client c does next
    tx,         \* tx[c]: the operation c handles and the heads it supersedes
    orphans     \* mutating requests on the wire whose client is gone

server == <<registered, views, ops, heads>>
vars == <<registered, views, ops, heads, pc, tx, orphans>>

-----------------------------------------------------------------------------
(* The server's state.  The order of the Vec of heads is not modelled: no  *)
(* reader depends on it.                                                   *)

Bag == [OpId -> Nat]
NoEntry == [o \in {} |-> 0]
Only(o) == [p \in OpId |-> IF p = o THEN 1 ELSE 0]
Members(b) == {o \in OpId : b[o] > 0}

\* get_op_heads: a repository without an entry is at the root operation.
StoredHeads == IF heads = NoEntry THEN Only(Root) ELSE heads

HeadSet == Members(StoredHeads)
Published == Reach(HeadSet)

\* read_operation and read_view fall back to a synthesised root.
OperationFound(o) == o \in ops \/ o = Root
ViewFound(v) == v \in views \/ v = RootView

\* The slip of not looking whether it is there.
PushedBlindly(b, new) == [b EXCEPT ![new] = @ + 1]

\* MemoryStore::update_op_heads on a Vec: push unless it is already there.
Pushed(b, new) == IF b[new] > 0 THEN b ELSE [b EXCEPT ![new] = @ + 1]

\* Slips of the whole function, one condition of it left out each time.
LastWriterWins(b, old, new) ==
    IF old = {} THEN Pushed(b, new) ELSE Only(new)

RetainedPushAlways(b, old, new) ==
    LET rest == [o \in OpId |-> IF o \in old THEN 0 ELSE b[o]]
    IN  IF old = {} THEN Pushed(b, new) ELSE Pushed(rest, new)

SiblingsWiped(b, old, new) ==
    IF old = {} \/ \E o \in old : b[o] > 0 THEN Only(new) ELSE b

NeverRetained(b, old, new) ==
    IF old = {} \/ \E o \in old : b[o] > 0 THEN Pushed(b, new) ELSE b

RetainedNoPush(b, old, new) ==
    IF old = {} THEN Pushed(b, new)
    ELSE [o \in OpId |-> IF o \in old THEN 0 ELSE b[o]]

\* retain(): every old head goes; new is pushed only if one of them was there.
UpdatedHeads(b, old, new) ==
    LET rest == [o \in OpId |-> IF o \in old THEN 0 ELSE b[o]]
        removedAny == \E o \in old : b[o] > 0
    IN  IF old = {} \/ removedAny THEN Pushed(rest, new) ELSE rest

-----------------------------------------------------------------------------
(* The mutating handlers.  Each first refuses an unregistered repository.  *)

WriteViewRpc(v) ==
    /\ registered
    /\ views' = views \cup {v}
    /\ UNCHANGED <<registered, ops, heads>>

WriteOperationRpc(o) ==
    /\ registered
    /\ ops' = ops \cup {o}
    /\ UNCHANGED <<registered, views, heads>>

UpdateOpHeadsRpc(old, new) ==
    /\ registered
    /\ heads' = UpdatedHeads(StoredHeads, old, new)
    /\ UNCHANGED <<registered, views, ops>>

\* A mutating request, as it is on the wire.
Request == [kind : {"writeView", "writeOp", "publish"},
            op : OpId, old : SUBSET OpId]

Serve(r) ==
    \/ r.kind = "writeView" /\ WriteViewRpc(ViewOf[r.op])
    \/ r.kind = "writeOp" /\ WriteOperationRpc(r.op)
    \/ r.kind = "publish" /\ UpdateOpHeadsRpc(r.old, r.op)

-----------------------------------------------------------------------------
(* The clients.                                                            *)

Pc == {"idle", "getHeads", "lockedGetHeads", "resolve", "readOp", "readView",
       "loaded", "writeView", "writeOp", "publish", "acked"}

\* `merging' holds while the client publishes on behalf of resolve_op_heads.
Tx == [op : OpId, old : SUBSET OpId, merging : BOOLEAN]

NoTx == [op |-> Root, old |-> {}, merging |-> FALSE]

Request_(c) == [kind |-> pc[c], op |-> tx[c].op, old |-> tx[c].old]

Mutating(c) == pc[c] \in {"writeView", "writeOp", "publish"}

\* `jj cc init' has registered the repository, and may have had the server
\* make an entry that names the root operation.
Init ==
    /\ registered = TRUE
    /\ views = {} /\ ops = {} /\ heads \in {NoEntry, Only(Root)}
    /\ pc = [c \in Client |-> "idle"]
    /\ tx = [c \in Client |-> NoTx]
    /\ orphans = {}

Goto(c, p) == pc' = [pc EXCEPT ![c] = p]
Set(c, t) == tx' = [tx EXCEPT ![c] = t]
Quiet == UNCHANGED <<server, orphans>>

\* A command starts: RepoLoader::load_at_head.
Begin(c) ==
    /\ pc[c] = "idle"
    /\ Goto(c, "getHeads") /\ Set(c, NoTx) /\ Quiet

\* get_op_heads returned a single head: read that operation.
LoadSoleHead(c) ==
    /\ pc[c] \in {"getHeads", "lockedGetHeads"}
    /\ registered
    /\ \E h \in HeadSet :
          /\ StoredHeads = Only(h) \/ c \in Appender
          /\ Goto(c, "readOp") /\ Set(c, [NoTx EXCEPT !.op = h])
    /\ Quiet

\* Several heads: take the lock, which excludes nobody, and ask again.
TakeLock(c) ==
    /\ pc[c] = "getHeads" /\ c \notin Appender
    /\ registered
    /\ \A h \in HeadSet : StoredHeads # Only(h)
    /\ Goto(c, "lockedGetHeads") /\ UNCHANGED tx /\ Quiet

\* Still several: resolve them.
LoadHeads(c) ==
    /\ pc[c] = "lockedGetHeads"
    /\ registered
    /\ HeadSet # {}
    /\ \A h \in HeadSet : StoredHeads # Only(h)
    /\ Goto(c, "resolve") /\ Set(c, [NoTx EXCEPT !.old = HeadSet]) /\ Quiet

\* What the resolution reads: the heads with their history, and the views.
Resolvable(S) ==
    /\ \A o \in Reach(S) : OperationFound(o)
    /\ \A o \in Maximal(S) : ViewFound(ViewOf[o])

\* One head descends from all the others: drop those.
DropAncestors(c) ==
    /\ pc[c] = "resolve" /\ registered /\ Resolvable(tx[c].old)
    /\ \E h \in OpId :
          /\ Maximal(tx[c].old) = {h}
          /\ Set(c, [op |-> h, old |-> tx[c].old \ {h}, merging |-> TRUE])
    /\ Goto(c, "publish") /\ Quiet

\* Heads diverge: build a merge operation on all of them.
MergeHeads(c) ==
    /\ pc[c] = "resolve" /\ registered /\ Resolvable(tx[c].old)
    /\ Cardinality(Maximal(tx[c].old)) > 1
    /\ \E m \in OpId :
          /\ ParentsOf[m] = Maximal(tx[c].old)
          /\ Set(c, [op |-> m, old |-> tx[c].old, merging |-> TRUE])
    /\ Goto(c, "writeView") /\ Quiet

ReadOperation(c) ==
    /\ pc[c] = "readOp" /\ registered /\ OperationFound(tx[c].op)
    /\ Goto(c, "readView") /\ UNCHANGED tx /\ Quiet

ReadView(c) ==
    /\ pc[c] = "readView" /\ registered /\ ViewFound(ViewOf[tx[c].op])
    /\ Goto(c, "loaded") /\ UNCHANGED tx /\ Quiet

\* Transaction::commit on the loaded operation.
Commit(c) ==
    /\ pc[c] = "loaded"
    /\ \E o \in OpId :
          /\ ParentsOf[o] = {tx[c].op}
          /\ Set(c, [op |-> o, merging |-> FALSE,
                     old |-> IF c \in Appender THEN {} ELSE ParentsOf[o]])
    /\ Goto(c, "writeView") /\ Quiet

WriteView(c) ==
    /\ pc[c] = "writeView" /\ Serve(Request_(c))
    /\ Goto(c, "writeOp") /\ UNCHANGED <<tx, orphans>>

\* The slip of going on although the server refused, or never saw, the write.
WriteOperationUnchecked(c) ==
    /\ pc[c] = "writeOp" /\ (Serve(Request_(c)) \/ UNCHANGED server)
    /\ Goto(c, "publish") /\ UNCHANGED <<tx, orphans>>

WriteOperation(c) ==
    /\ pc[c] = "writeOp" /\ Serve(Request_(c))
    /\ Goto(c, "publish") /\ UNCHANGED <<tx, orphans>>

\* The response carries the current heads; the client does not look at them.
UpdateOpHeads(c) ==
    /\ pc[c] = "publish" /\ Serve(Request_(c))
    /\ Goto(c, IF tx[c].merging THEN "readView" ELSE "acked")
    /\ UNCHANGED <<tx, orphans>>

\* A command with several transactions, as one that first snapshots the working
\* copy, builds the next operation on its last one without loading the heads.
Continue(c) ==
    /\ pc[c] = "acked" /\ c \notin Appender
    /\ Goto(c, "loaded") /\ Set(c, [NoTx EXCEPT !.op = tx[c].op]) /\ Quiet

\* The command ends: it read only, or its operation is acknowledged.
Finish(c) ==
    /\ pc[c] \in {"loaded", "acked"}
    /\ Goto(c, "idle") /\ Set(c, NoTx) /\ Quiet

\* The server answers the client's next RPC with an error (NotFound): the
\* command fails.  One predicate says which RPCs are refused.
Refused(c) ==
    \/ pc[c] \notin {"idle", "loaded", "acked"} /\ ~registered
    \/ pc[c] = "lockedGetHeads" /\ HeadSet = {}
    \/ pc[c] = "resolve" /\ ~Resolvable(tx[c].old)
    \/ pc[c] = "readOp" /\ ~OperationFound(tx[c].op)
    \/ pc[c] = "readView" /\ ~ViewFound(ViewOf[tx[c].op])

Fail(c) ==
    /\ Refused(c)
    /\ Goto(c, "idle") /\ Set(c, NoTx) /\ Quiet

\* The process is killed or its connection breaks.  The request it awaited
\* never left, or was handled and only the answer is lost, or is on its way.
Abort(c) ==
    /\ pc[c] # "idle"
    /\ Goto(c, "idle") /\ Set(c, NoTx)
    /\ \/ UNCHANGED orphans
       \/ /\ Mutating(c) /\ Cardinality(orphans) < MaxOrphans
          /\ orphans' = orphans \cup {Request_(c)}
    /\ UNCHANGED server

ServeOrphan(r) ==
    /\ Serve(r)
    /\ orphans' = orphans \ {r}
    /\ UNCHANGED <<pc, tx>>

\* A restart that kept the heads but not the operations they name.
RestartKeepingHeads ==
    /\ registered
    /\ ops' = {} /\ orphans' = {}
    /\ UNCHANGED <<registered, views, heads, pc, tx>>

\* The server process restarts: all its maps were in memory.  Nothing registers
\* the old id again (`jj cc init' obtains a fresh one).
Restart ==
    /\ registered
    /\ registered' = FALSE
    /\ views' = {} /\ ops' = {} /\ heads' = NoEntry /\ orphans' = {}
    /\ UNCHANGED <<pc, tx>>

Step(c) ==
    \/ LoadSoleHead(c) \/ TakeLock(c) \/ LoadHeads(c)
    \/ DropAncestors(c) \/ MergeHeads(c)
    \/ ReadOperation(c) \/ ReadView(c)
    \/ Commit(c)
    \/ WriteView(c) \/ WriteOperation(c) \/ UpdateOpHeads(c)
    \/ Continue(c) \/ Finish(c) \/ Fail(c)

Next ==
    \/ \E c \in Client : Begin(c) \/ Step(c) \/ Abort(c)
    \/ \E r \in orphans : ServeOrphan(r)
    \/ Restart

Spec == Init /\ [][Next]_vars

-----------------------------------------------------------------------------
(* Properties.                                                             *)

\* The variables hold values of their types.
TypeOK ==
    /\ registered \in BOOLEAN
    /\ views \subseteq ViewId /\ ops \subseteq OpId
    /\ heads \in Bag \cup {NoEntry}
    /\ pc \in [Client -> Pc] /\ tx \in [Client -> Tx]
    /\ orphans \subseteq Request

\* The Vec of heads never becomes empty (a client would report NoHeads) and
\* never holds an id twice (a lone head listed twice would look divergent),
\* whatever mixture of stale, repeated and late updates the server handles.
HeadsWellFormed ==
    /\ HeadSet # {}
    /\ \A o \in OpId : StoredHeads[o] <= 1

\* Clients that are killed between their three writes, whose writes arrive
\* late or are lost, never leave a head whose history a reader cannot load:
\* each operation under the heads is stored, and so is its view.
HistoryReadable ==
    registered =>
        \A o \in Published : OperationFound(o) /\ ViewFound(ViewOf[o])

\* The updates of the heads the server may still be asked for.
PendingUpdates ==
    {r \in orphans : r.kind = "publish"} \cup
    {Request_(c) : c \in {d \in Client : pc[d] = "publish"}}

\* An update the server would accept now, however stale the client that sent
\* it, names an operation built on published history, and every head that it
\* removes is an ancestor of that operation.
AcceptedUpdatesBuildOnHistory ==
    registered => \A r \in PendingUpdates :
        /\ r.old \cap HeadSet # {} \/ r.old = {} =>
              ParentsOf[r.op] \subseteq Published
        /\ r.old \subseteq AncestorsOf[r.op] \ {r.op}

\* An operation whose publication was acknowledged can be read back with all
\* its history, even when the heads do not lead to it: the user who learns
\* its id can still restore it.
AckedIsRecoverable ==
    registered => \A c \in Client : pc[c] = "acked" =>
        \A o \in AncestorsOf[tx[c].op] :
            OperationFound(o) /\ ViewFound(ViewOf[o])

\* What makes these hold in every step.  Stored operations have their history
\* and their views; heads and whatever clients learned are stored; a request
\* superseding heads names a stored history that contains them, and either its
\* operation's parents are published already or it replaces its only parent.
ReplacesParent(r) ==
    \E p \in OpId : ParentsOf[r.op] = {p} /\ r.old = {p}

Stored == ops \cup {Root}

StoreClosed ==
    \A o \in Stored : AncestorsOf[o] \subseteq Stored /\ ViewFound(ViewOf[o])

RequestOK(r) ==
    /\ AncestorsOf[r.op] \ {r.op} \subseteq Stored
    /\ r.old \subseteq AncestorsOf[r.op] \ {r.op}
    /\ ParentsOf[r.op] \subseteq Published \/ ReplacesParent(r)
    /\ r.kind # "writeView" => ViewFound(ViewOf[r.op])
    /\ r.kind = "publish" => r.op \in Stored

ClientOK(c) ==
    /\ pc[c] \in {"readOp", "readView", "loaded"} =>
          /\ tx[c].op \in Stored
          /\ c \in Appender => tx[c].op \in Published
    /\ pc[c] = "lockedGetHeads" => c \notin Appender
    /\ pc[c] = "resolve" =>
          /\ tx[c].old \subseteq Published
          /\ \A h \in OpId : tx[c].old # {h}
          /\ tx[c].old # {}
          /\ c \notin Appender
    /\ Mutating(c) =>
          RequestOK(Request_(c)) /\ (c \in Appender => ~tx[c].merging)
    /\ pc[c] = "acked" => tx[c].op \in Stored

IInv ==
    /\ TypeOK
    /\ HeadsWellFormed
    /\ registered =>
          /\ HeadSet \subseteq Stored
          /\ StoreClosed
          /\ \A c \in Client : ClientOK(c)
          /\ \A r \in orphans : RequestOK(r)

\* What keeps the log at one head when nobody appends: no client gets as far
\* as resolving heads, and every request replaces its operation's one parent.
LineInv ==
    /\ TypeOK
    /\ \E h \in OpId : StoredHeads = Only(h)
    /\ \A c \in Client :
          /\ pc[c] \notin {"lockedGetHeads", "resolve"}
          /\ Mutating(c) => ~tx[c].merging /\ ReplacesParent(Request_(c))
    /\ \A r \in orphans : ReplacesParent(r)

\* With jj-lib as the only caller the log never diverges: concurrent commits
\* on one operation leave one head, because an update whose old head is gone
\* adds nothing.
SingleHead == \E h \in OpId : StoredHeads = Only(h)

\* memorystore.rs says update_op_heads preserves concurrent sibling heads so
\* that clients can merge them: an acknowledged operation is in the history.
AckedOpIsPublished ==
    registered => \A c \in Client :
        pc[c] = "acked" => tx[c].op \in Published

\* The heads implement an ever-growing history, closed under parents.
History == INSTANCE OpHistory WITH live <- registered, published <- Published

ImplementsHistory == History!HSpec

\* With jj-lib as the only caller they implement a single line of operations.
Linear == INSTANCE LinearHistory WITH
    live <- registered, tip <- CHOOSE h \in OpId : StoredHeads = Only(h)

ImplementsLinear == Linear!LSpec

\* A client's steps are not postponed for ever, and a user who keeps running
\* commands is not interrupted at the same point of every one of them.
Fairness ==
    \A c \in Client \ Appender :
        /\ WF_vars(Begin(c)) /\ WF_vars(Finish(c)) /\ WF_vars(Fail(c))
        /\ SF_vars(LoadSoleHead(c)) /\ SF_vars(TakeLock(c))
        /\ SF_vars(LoadHeads(c)) /\ SF_vars(DropAncestors(c))
        /\ SF_vars(MergeHeads(c))
        /\ SF_vars(ReadOperation(c)) /\ SF_vars(ReadView(c))
        /\ SF_vars(WriteView(c)) /\ SF_vars(WriteOperation(c))
        /\ SF_vars(UpdateOpHeads(c))

FairSpec == Spec /\ Fairness

\* One client that keeps loading the log resolves every divergence that
\* finitely many appended operations can cause, through interrupted attempts,
\* and the log stays at one head.
Convergence == <>[](SingleHead \/ ~registered)

=============================================================================
