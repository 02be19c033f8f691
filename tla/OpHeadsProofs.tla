--------------------------- MODULE OpHeadsProofs ---------------------------
(***************************************************************************)
(* Proofs about OpHeads, for every operation graph, every set of clients   *)
(* and any number of late requests.                                        *)
(***************************************************************************)
EXTENDS OpHeads, TLAPS

-----------------------------------------------------------------------------
(* The operation graph.                                                    *)

\* An operation is among its ancestors, its parents are, and any other
\* ancestor is reached through a parent.
LEMMA AncestorFacts ==
    ASSUME NEW o \in OpId
    PROVE  /\ o \in AncestorsOf[o]
           /\ AncestorsOf[o] \subseteq OpId
           /\ \A p \in ParentsOf[o] : p \in OpId /\ AncestorsOf[p] \subseteq AncestorsOf[o]
           /\ \A a \in AncestorsOf[o] : a = o \/ \E p \in ParentsOf[o] : a \in AncestorsOf[p]
<1>1. AncestorsOf[o] = {o} \cup UNION {AncestorsOf[p] : p \in ParentsOf[o]}
  BY AncestorAssumption
<1>2. ParentsOf[o] \subseteq OpId /\ AncestorsOf[o] \subseteq OpId
  BY GraphTypes
<1> QED
  BY <1>1, <1>2

\* The root operation has no ancestor but itself.
LEMMA RootAncestors == AncestorsOf[Root] = {Root} /\ Root \in OpId
  BY AncestorFacts, RootAssumption, GraphTypes

\* The history under a set of operations is closed under ancestors.
LEMMA ReachFacts ==
    ASSUME NEW S \in SUBSET OpId
    PROVE  /\ S \subseteq Reach(S)
           /\ Reach(S) \subseteq OpId
           /\ \A o \in Reach(S) : AncestorsOf[o] \subseteq Reach(S)
<1>1. \A o \in S : o \in AncestorsOf[o] /\ AncestorsOf[o] \subseteq OpId
  BY AncestorFacts
<1>2. \A o \in S : \A a \in AncestorsOf[o] : AncestorsOf[a] \subseteq AncestorsOf[o]
  BY <1>1, AncestorAssumption
<1> QED
  BY <1>1, <1>2 DEF Reach

\* A merge operation on the maximal members of a set descends from all of it
\* and is not one of them.
LEMMA MergeAncestors ==
    ASSUME NEW S \in SUBSET OpId, NEW m \in OpId, ParentsOf[m] = Maximal(S)
    PROVE  S \subseteq AncestorsOf[m] \ {m}
<1>1. S \subseteq Reach(ParentsOf[m])
  BY MaximalAssumption
<1>2. ASSUME NEW s \in S
      PROVE  s \in AncestorsOf[m] /\ s # m
  <2>1. PICK p \in ParentsOf[m] : s \in AncestorsOf[p]
    BY <1>1 DEF Reach
  <2>2. p \in OpId /\ AncestorsOf[p] \subseteq AncestorsOf[m] /\ p \in AncestorsOf[p]
    BY AncestorFacts
  <2>3. s # m
    <3> SUFFICES ASSUME s = m PROVE FALSE
      OBVIOUS
    <3>1. m \in AncestorsOf[p] /\ p \in AncestorsOf[m]
      BY <2>1, <2>2
    <3>2. m = p
      BY <3>1, <2>2, AncestorAssumption
    <3> QED
      BY <3>2, <2>1, AncestorAssumption
  <2> QED
    BY <2>1, <2>2, <2>3
<1> QED
  BY <1>2

-----------------------------------------------------------------------------
(* The list of heads.                                                      *)

\* An absent entry is not a list.
LEMMA NoEntryIsNoBag == NoEntry \notin Bag
<1>1. DOMAIN NoEntry = {}
  BY DEF NoEntry
<1>2. \A b \in Bag : DOMAIN b = OpId
  BY DEF Bag
<1> QED
  BY <1>1, <1>2, GraphTypes

\* The list with one operation.
LEMMA OnlyFacts ==
    ASSUME NEW o \in OpId
    PROVE  /\ Only(o) \in Bag
           /\ Members(Only(o)) = {o}
           /\ \A p \in OpId : Only(o)[p] <= 1
  BY DEF Only, Bag, Members

\* A repository without an entry is at the root, any other at its list.
LEMMA StoredHeadsType ==
    ASSUME heads \in Bag \cup {NoEntry}
    PROVE  StoredHeads \in Bag
  BY OnlyFacts, GraphTypes DEF StoredHeads

\* What update_op_heads makes of a list: its type, its members, and no id
\* twice if there was none before.
LEMMA UpdatedFacts ==
    ASSUME NEW b \in Bag, NEW old \in SUBSET OpId, NEW new \in OpId
    PROVE  /\ UpdatedHeads(b, old, new) \in Bag
           /\ Members(UpdatedHeads(b, old, new)) =
                 IF old = {} \/ old \cap Members(b) # {}
                 THEN (Members(b) \ old) \cup {new} ELSE Members(b)
           /\ (\A o \in OpId : b[o] <= 1) =>
                 \A o \in OpId : UpdatedHeads(b, old, new)[o] <= 1
<1> DEFINE rest == [o \in OpId |-> IF o \in old THEN 0 ELSE b[o]]
<1> DEFINE accepted == old = {} \/ old \cap Members(b) # {}
<1>1. rest \in Bag /\ Members(rest) = Members(b) \ old
  BY DEF Bag, Members
<1>2. (\A o \in OpId : b[o] <= 1) => \A o \in OpId : rest[o] <= 1
  BY DEF Bag
<1>3. UpdatedHeads(b, old, new) = IF accepted THEN Pushed(rest, new) ELSE rest
  BY DEF UpdatedHeads, Members, Bag
<1>4. /\ Pushed(rest, new) \in Bag
      /\ Members(Pushed(rest, new)) = Members(rest) \cup {new}
      /\ (\A o \in OpId : rest[o] <= 1) => \A o \in OpId : Pushed(rest, new)[o] <= 1
  <2>1. CASE rest[new] > 0
    BY <2>1, <1>1 DEF Pushed, Members
  <2>2. CASE ~(rest[new] > 0)
    <3> HIDE DEF rest
    <3>1. rest[new] = 0 /\ rest \in [OpId -> Nat]
      BY <2>2, <1>1 DEF Bag
    <3>2. Pushed(rest, new) = [rest EXCEPT ![new] = 1]
      BY <2>2, <3>1 DEF Pushed
    <3> QED
      BY <3>1, <3>2 DEF Bag, Members
  <2> QED
    BY <2>1, <2>2
<1> HIDE DEF rest
<1>5. CASE accepted
  BY <1>1, <1>2, <1>3, <1>4, <1>5
<1>6. CASE ~accepted
  BY <1>1, <1>2, <1>3, <1>6
<1> QED
  BY <1>5, <1>6

-----------------------------------------------------------------------------
(* Types.                                                                  *)

\* The request of a client that awaits a mutating RPC.
LEMMA RequestType ==
    ASSUME TypeOK, NEW c \in Client, Mutating(c)
    PROVE  Request_(c) \in Request
  BY DEF TypeOK, Mutating, Request_, Request, Tx

\* A mutating handler keeps the types of the server's state.
LEMMA ServeType ==
    ASSUME TypeOK, NEW r \in Request, Serve(r)
    PROVE  /\ registered /\ registered' = registered
           /\ views' \subseteq ViewId /\ ops' \subseteq OpId
           /\ heads' \in Bag \cup {NoEntry}
<1>1. r.op \in OpId /\ r.old \in SUBSET OpId /\ ViewOf[r.op] \in ViewId
  BY GraphTypes DEF Request
<1>2. CASE WriteViewRpc(ViewOf[r.op])
  BY <1>1, <1>2 DEF WriteViewRpc, TypeOK
<1>3. CASE WriteOperationRpc(r.op)
  BY <1>1, <1>3 DEF WriteOperationRpc, TypeOK
<1>4. CASE UpdateOpHeadsRpc(r.old, r.op)
  <2>1. StoredHeads \in Bag
    BY StoredHeadsType DEF TypeOK
  <2>2. UpdatedHeads(StoredHeads, r.old, r.op) \in Bag
    BY <1>1, <2>1, UpdatedFacts
  <2> QED
    BY <1>4, <2>2 DEF UpdateOpHeadsRpc, TypeOK
<1> QED
  BY <1>2, <1>3, <1>4 DEF Serve

\* Every step keeps the types.
LEMMA TypeStep ==
    ASSUME TypeOK, [Next]_vars
    PROVE  TypeOK'
<1> USE DEF TypeOK
<1>1. NoTx \in Tx /\ \A h \in OpId : [NoTx EXCEPT !.op = h] \in Tx
  BY GraphTypes DEF NoTx, Tx
<1>2. ASSUME NEW c \in Client, NEW p \in Pc, Goto(c, p)
      PROVE  pc' \in [Client -> Pc]
  BY <1>2 DEF Goto
<1>3. ASSUME NEW c \in Client, NEW t \in Tx, Set(c, t)
      PROVE  tx' \in [Client -> Tx]
  BY <1>3 DEF Set
<1>4. ASSUME Quiet
      PROVE  UNCHANGED <<registered, views, ops, heads, orphans>>
  BY <1>4 DEF Quiet, server
<1>5. HeadSet \in SUBSET OpId
  BY DEF HeadSet, Members
<1>6. ASSUME NEW c \in Client, Begin(c)
      PROVE  TypeOK'
  BY <1>1, <1>2, <1>3, <1>4, <1>6 DEF Begin, Pc
<1>7. ASSUME NEW c \in Client, Step(c)
      PROVE  TypeOK'
  <2>1. CASE LoadSoleHead(c)
    BY <1>1, <1>2, <1>3, <1>4, <1>5, <2>1 DEF LoadSoleHead, Pc
  <2>2. CASE TakeLock(c)
    BY <1>2, <1>4, <2>2 DEF TakeLock, Pc
  <2>3. CASE LoadHeads(c)
    <3>1. [NoTx EXCEPT !.old = HeadSet] \in Tx
      BY <1>5, GraphTypes DEF NoTx, Tx
    <3> QED
      BY <1>2, <1>3, <1>4, <2>3, <3>1 DEF LoadHeads, Pc
  <2>4. CASE DropAncestors(c)
    <3>1. \A h \in OpId : [op |-> h, old |-> tx[c].old \ {h}, merging |-> TRUE] \in Tx
      BY DEF Tx
    <3> QED
      BY <1>2, <1>3, <1>4, <2>4, <3>1 DEF DropAncestors, Pc
  <2>5. CASE MergeHeads(c)
    <3>1. \A m \in OpId : [op |-> m, old |-> tx[c].old, merging |-> TRUE] \in Tx
      BY DEF Tx
    <3> QED
      BY <1>2, <1>3, <1>4, <2>5, <3>1 DEF MergeHeads, Pc
  <2>6. CASE ReadOperation(c)
    BY <1>2, <1>4, <2>6 DEF ReadOperation, Pc
  <2>7. CASE ReadView(c)
    BY <1>2, <1>4, <2>7 DEF ReadView, Pc
  <2>8. CASE Commit(c)
    <3>1. \A o \in OpId : [op |-> o, merging |-> FALSE,
              old |-> IF c \in Appender THEN {} ELSE ParentsOf[o]] \in Tx
      BY GraphTypes DEF Tx
    <3> QED
      BY <1>2, <1>3, <1>4, <2>8, <3>1 DEF Commit, Pc
  <2>9. CASE WriteView(c) \/ WriteOperation(c) \/ UpdateOpHeads(c)
    <3>1. Mutating(c) /\ Serve(Request_(c)) /\ UNCHANGED <<tx, orphans>>
      BY <2>9 DEF WriteView, WriteOperation, UpdateOpHeads, Mutating
    <3>2. pc' \in [Client -> Pc]
      BY <1>2, <2>9 DEF WriteView, WriteOperation, UpdateOpHeads, Pc
    <3> QED
      BY <3>1, <3>2, RequestType, ServeType
  <2>10. CASE Finish(c) \/ Fail(c)
    BY <1>1, <1>2, <1>3, <1>4, <2>10 DEF Finish, Fail, Pc
  <2>11. CASE Continue(c)
    <3>1. tx[c].op \in OpId
      BY DEF Tx
    <3> QED
      BY <1>1, <1>2, <1>3, <1>4, <2>11, <3>1 DEF Continue, Pc
  <2> QED
    BY <1>7, <2>1, <2>2, <2>3, <2>4, <2>5, <2>6, <2>7, <2>8, <2>9, <2>10, <2>11
       DEF Step
<1>8. ASSUME NEW c \in Client, Abort(c)
      PROVE  TypeOK'
  <2>1. orphans' \subseteq Request
    BY <1>8, RequestType DEF Abort
  <2> QED
    BY <1>1, <1>2, <1>3, <1>8, <2>1 DEF Abort, Pc, server
<1>9. ASSUME NEW r \in orphans, ServeOrphan(r)
      PROVE  TypeOK'
  BY <1>9, ServeType DEF ServeOrphan
<1>10. CASE Restart
  BY <1>10 DEF Restart
<1>11. CASE UNCHANGED vars
  BY <1>11 DEF vars
<1> QED
  BY <1>6, <1>7, <1>8, <1>9, <1>10, <1>11 DEF Next

\* Every variable keeps its type.
THEOREM TypeCorrect == Spec => []TypeOK
<1>1. Init => TypeOK
  BY GraphTypes DEF Init, TypeOK, Bag, Only, Pc, Tx, NoTx
<1>2. TypeOK /\ [Next]_vars => TypeOK'
  BY TypeStep
<1> QED
  BY <1>1, <1>2, PTL DEF Spec

-----------------------------------------------------------------------------
(* The inductive invariant.                                                *)

\* An accepted update only adds its operation to the published history.
LEMMA UpdateStep ==
    ASSUME TypeOK, HeadsWellFormed, NEW r \in Request, RequestOK(r),
           UpdateOpHeadsRpc(r.old, r.op)
    PROVE  /\ HeadsWellFormed'
           /\ HeadSet' \subseteq HeadSet \cup {r.op}
           /\ Published \subseteq Published'
           /\ Published' \subseteq Published \cup {r.op}
           /\ Published' # Published => ParentsOf[r.op] \subseteq Published
<1> DEFINE accepted == r.old = {} \/ r.old \cap HeadSet # {}
<1>1. r.op \in OpId /\ r.old \in SUBSET OpId
  BY DEF Request
<1>2. StoredHeads \in Bag
  BY StoredHeadsType DEF TypeOK
<1>3. /\ heads' = UpdatedHeads(StoredHeads, r.old, r.op)
      /\ heads' \in Bag
  BY <1>1, <1>2, UpdatedFacts DEF UpdateOpHeadsRpc
<1>4. StoredHeads' = heads'
  BY <1>3, NoEntryIsNoBag DEF StoredHeads
<1>5. /\ HeadSet' = IF accepted THEN (HeadSet \ r.old) \cup {r.op} ELSE HeadSet
      /\ \A o \in OpId : StoredHeads'[o] <= 1
  <2>1. \A o \in OpId : StoredHeads[o] <= 1
    BY DEF HeadsWellFormed
  <2> QED
    BY <2>1, <1>1, <1>2, <1>3, <1>4, UpdatedFacts DEF HeadSet
<1>6. HeadSet \in SUBSET OpId
  BY DEF HeadSet, Members
<1>7. CASE ~accepted
  BY <1>5, <1>7 DEF HeadsWellFormed, Published
<1>8. CASE accepted
  <2>1. ParentsOf[r.op] \subseteq Published
    <3>1. CASE ParentsOf[r.op] \subseteq Published
      BY <3>1
    <3>2. CASE ReplacesParent(r)
      BY <1>6, <1>8, <3>2, ReachFacts DEF Published, ReplacesParent
    <3> QED
      BY <3>1, <3>2 DEF RequestOK
  <2>2. \A p \in ParentsOf[r.op] : AncestorsOf[p] \subseteq Published
    BY <2>1, <1>6, ReachFacts DEF Published
  <2>3. AncestorsOf[r.op] \subseteq Published \cup {r.op}
    BY <1>1, <2>2, AncestorFacts
  <2>4. \A h \in r.old : AncestorsOf[h] \subseteq AncestorsOf[r.op]
    BY <1>1, AncestorAssumption DEF RequestOK
  <2>5. HeadSet' = (HeadSet \ r.old) \cup {r.op}
    BY <1>5, <1>8
  <2>6. Published \subseteq Published'
    BY <2>4, <2>5 DEF Published, Reach
  <2>7. Published' \subseteq Published \cup {r.op}
    BY <2>3, <2>5 DEF Published, Reach
  <2> QED
    BY <1>5, <2>1, <2>5, <2>6, <2>7 DEF HeadsWellFormed
<1> QED
  BY <1>7, <1>8

\* A mutating handler keeps the store closed under history and the heads in
\* it, and makes nothing that was stored or published disappear.
LEMMA ServeStep ==
    ASSUME TypeOK, HeadsWellFormed, HeadSet \subseteq Stored, StoreClosed,
           NEW r \in Request, RequestOK(r), Serve(r)
    PROVE  /\ HeadsWellFormed'
           /\ HeadSet' \subseteq Stored'
           /\ StoreClosed'
           /\ Stored \subseteq Stored' /\ views \subseteq views'
           /\ Published \subseteq Published'
           /\ Published' \subseteq Published \cup {r.op}
           /\ r.kind = "writeView" => ViewFound(ViewOf[r.op])'
           /\ r.kind = "writeOp" => r.op \in Stored'
<1>1. CASE r.kind = "writeView" /\ WriteViewRpc(ViewOf[r.op])
  <2>1. UNCHANGED <<ops, heads>> /\ views' = views \cup {ViewOf[r.op]}
    BY <1>1 DEF WriteViewRpc
  <2>2. UNCHANGED <<Stored, StoredHeads, HeadSet, Published>>
    BY <2>1 DEF Stored, StoredHeads, HeadSet, Published
  <2>3. HeadsWellFormed'
    BY <2>2 DEF HeadsWellFormed
  <2>4. StoreClosed'
    BY <2>1, <2>2 DEF StoreClosed, ViewFound
  <2> QED
    BY <1>1, <2>1, <2>2, <2>3, <2>4 DEF ViewFound
<1>2. CASE r.kind = "writeOp" /\ WriteOperationRpc(r.op)
  <2>1. UNCHANGED <<views, heads>> /\ Stored' = Stored \cup {r.op}
    BY <1>2 DEF WriteOperationRpc, Stored
  <2>2. UNCHANGED <<StoredHeads, HeadSet, Published>>
    BY <2>1 DEF StoredHeads, HeadSet, Published
  <2>3. HeadsWellFormed'
    BY <2>2 DEF HeadsWellFormed
  <2>4. AncestorsOf[r.op] \ {r.op} \subseteq Stored /\ ViewFound(ViewOf[r.op])
    BY <1>2 DEF RequestOK
  <2>5. StoreClosed'
    BY <2>1, <2>4 DEF StoreClosed, ViewFound
  <2> QED
    BY <1>2, <2>1, <2>2, <2>3, <2>5
<1>3. CASE r.kind = "publish" /\ UpdateOpHeadsRpc(r.old, r.op)
  <2>1. UNCHANGED <<views, ops>>
    BY <1>3 DEF UpdateOpHeadsRpc
  <2>2. UNCHANGED Stored /\ StoreClosed'
    BY <2>1 DEF Stored, StoreClosed, ViewFound
  <2>3. r.op \in Stored
    BY <1>3 DEF RequestOK
  <2> QED
    BY <1>3, <2>1, <2>2, <2>3, UpdateStep
<1> QED
  BY <1>1, <1>2, <1>3 DEF Serve

\* What holds of a request holds while the store and the history grow.
LEMMA RequestStable ==
    ASSUME Stored \subseteq Stored', views \subseteq views',
           Published \subseteq Published',
           NEW r, RequestOK(r)
    PROVE  RequestOK(r)'
  BY DEF RequestOK, ViewFound

\* What holds of a client holds while it rests and the others add things.
LEMMA ClientStable ==
    ASSUME Stored \subseteq Stored', views \subseteq views',
           Published \subseteq Published',
           NEW c \in Client, pc'[c] = pc[c], tx'[c] = tx[c], ClientOK(c)
    PROVE  ClientOK(c)'
<1>1. Mutating(c)' <=> Mutating(c)
  BY DEF Mutating
<1>2. CASE Mutating(c)
  <2>1. RequestOK(Request_(c))'
    BY <1>2 DEF ClientOK, RequestOK, Request_, ViewFound
  <2> QED
    BY <1>2, <2>1 DEF ClientOK, Mutating
<1>3. CASE ~Mutating(c)
  BY <1>1, <1>3 DEF ClientOK
<1> QED
  BY <1>2, <1>3

\* While the server's state rests, so does everything read off it.
LEMMA QuietFacts ==
    ASSUME UNCHANGED server
    PROVE  UNCHANGED <<registered, views, Stored, StoredHeads, HeadSet, Published>>
  BY DEF server, Stored, StoredHeads, HeadSet, Published

\* The other clients, when one client moves.
LEMMA OthersRest ==
    ASSUME TypeOK, NEW c \in Client, NEW p, Goto(c, p),
           \/ UNCHANGED tx
           \/ \E t \in Tx : Set(c, t)
    PROVE  \A d \in Client \ {c} : pc'[d] = pc[d] /\ tx'[d] = tx[d]
  BY DEF TypeOK, Goto, Set

\* A step of one client that leaves the server's state alone keeps the
\* invariant if it leaves that client in order.
LEMMA QuietStep ==
    ASSUME IInv, TypeOK', UNCHANGED server, NEW c \in Client,
           \A d \in Client \ {c} : pc'[d] = pc[d] /\ tx'[d] = tx[d],
           registered => ClientOK(c)',
           registered => \A r \in orphans' \ orphans : RequestOK(r)
    PROVE  IInv'
<1>1. UNCHANGED <<registered, views, Stored, StoredHeads, HeadSet, Published>>
  BY QuietFacts
<1>2. HeadsWellFormed'
  BY <1>1 DEF IInv, HeadsWellFormed
<1>3. ASSUME registered
      PROVE  /\ HeadSet' \subseteq Stored' /\ StoreClosed'
             /\ \A d \in Client : ClientOK(d)'
             /\ \A r \in orphans' : RequestOK(r)'
  <2>1. HeadSet' \subseteq Stored' /\ StoreClosed'
    BY <1>1, <1>3 DEF IInv, StoreClosed, ViewFound
  <2>2. ASSUME NEW d \in Client
        PROVE  ClientOK(d)'
    <3>1. CASE d = c
      BY <1>3, <3>1
    <3>2. CASE d # c
      BY <1>1, <1>3, <3>2, ClientStable DEF IInv
    <3> QED
      BY <3>1, <3>2
  <2>3. ASSUME NEW r \in orphans'
        PROVE  RequestOK(r)'
    <3>1. RequestOK(r)
      BY <1>3 DEF IInv
    <3> QED
      BY <1>1, <3>1, RequestStable
  <2> QED
    BY <2>1, <2>2, <2>3
<1> QED
  BY <1>1, <1>2, <1>3 DEF IInv

\* The steps of a client that ask the server for nothing or only read.
LEMMA ReadingStep ==
    ASSUME IInv, TypeOK', NEW c \in Client,
           \/ Begin(c) \/ LoadSoleHead(c) \/ TakeLock(c) \/ LoadHeads(c)
           \/ ReadOperation(c) \/ ReadView(c) \/ Finish(c) \/ Fail(c)
    PROVE  IInv'
<1>1. TypeOK
  BY DEF IInv
<1>2. UNCHANGED server /\ orphans' = orphans
  BY DEF Begin, LoadSoleHead, TakeLock, LoadHeads, ReadOperation, ReadView,
         Finish, Fail, Quiet
<1>3. UNCHANGED <<registered, views, Stored, StoredHeads, HeadSet, Published>>
  BY <1>2, QuietFacts
<1>4. HeadSet \in SUBSET OpId /\ HeadSet \subseteq Published
  BY ReachFacts DEF HeadSet, Members, Published
<1>5. NoTx \in Tx /\ (\A h \in OpId : [NoTx EXCEPT !.op = h] \in Tx)
      /\ [NoTx EXCEPT !.old = HeadSet] \in Tx
  BY <1>4, GraphTypes DEF NoTx, Tx
<1>6. ASSUME ClientOK(c)',
             \E p : Goto(c, p), UNCHANGED tx \/ \E t \in Tx : Set(c, t)
      PROVE  IInv'
  BY <1>1, <1>2, <1>6, OthersRest, QuietStep
<1>7. CASE Begin(c) \/ Finish(c) \/ Fail(c)
  <2>1. pc'[c] \in {"getHeads", "idle"} /\ Set(c, NoTx)
    BY <1>1, <1>7 DEF Begin, Finish, Fail, Goto, TypeOK
  <2>2. ClientOK(c)'
    BY <2>1 DEF ClientOK, Mutating
  <2>3. \E p : Goto(c, p)
    BY <1>7 DEF Begin, Finish, Fail
  <2> QED
    BY <1>5, <1>6, <2>1, <2>2, <2>3
<1>8. CASE LoadSoleHead(c)
  <2>1. PICK h \in HeadSet : Goto(c, "readOp") /\ Set(c, [NoTx EXCEPT !.op = h])
    BY <1>8 DEF LoadSoleHead
  <2>2. pc'[c] = "readOp" /\ tx'[c].op = h
    BY <1>1, <2>1 DEF TypeOK, Goto, Set, NoTx
  <2>3. h \in Stored' /\ h \in Published'
    BY <1>3, <1>4, <1>8 DEF IInv, LoadSoleHead
  <2>4. ClientOK(c)'
    BY <2>2, <2>3 DEF ClientOK, Mutating
  <2> QED
    BY <1>4, <1>5, <1>6, <2>1, <2>4
<1>9. CASE TakeLock(c)
  <2>1. pc'[c] = "lockedGetHeads" /\ c \notin Appender
    BY <1>1, <1>9 DEF TypeOK, TakeLock, Goto
  <2>2. ClientOK(c)'
    BY <2>1 DEF ClientOK, Mutating
  <2> QED
    BY <1>6, <1>9, <2>2 DEF TakeLock
<1>10. CASE LoadHeads(c)
  <2>1. pc'[c] = "resolve" /\ tx'[c].old = HeadSet
    BY <1>1, <1>10 DEF TypeOK, LoadHeads, Goto, Set, NoTx
  <2>2. c \notin Appender
    BY <1>10 DEF IInv, LoadHeads, ClientOK
  <2>3. ASSUME NEW h \in OpId, HeadSet = {h}
        PROVE  FALSE
    <3>1. StoredHeads \in Bag /\ \A o \in OpId : StoredHeads[o] <= 1
      BY <1>1, StoredHeadsType DEF IInv, HeadsWellFormed, TypeOK
    <3>2. \A o \in OpId : StoredHeads[o] = IF o = h THEN 1 ELSE 0
      BY <2>3, <3>1 DEF HeadSet, Members, Bag
    <3>3. StoredHeads = Only(h)
      BY <3>1, <3>2 DEF Only, Bag
    <3> QED
      BY <1>10, <2>3, <3>3 DEF LoadHeads
  <2>4. HeadSet # {}
    BY <1>10 DEF LoadHeads
  <2>5. ClientOK(c)'
    BY <1>3, <1>4, <2>1, <2>2, <2>3, <2>4 DEF ClientOK, Mutating
  <2> QED
    BY <1>5, <1>6, <1>10, <2>5 DEF LoadHeads
<1>11. CASE ReadOperation(c) \/ ReadView(c)
  <2>1. /\ pc[c] \in {"readOp", "readView"} /\ pc'[c] \in {"readView", "loaded"}
        /\ UNCHANGED tx /\ registered
    BY <1>1, <1>11 DEF TypeOK, ReadOperation, ReadView, Goto
  <2>2. ClientOK(c)
    BY <2>1 DEF IInv
  <2>3. ClientOK(c)'
    BY <1>3, <2>1, <2>2 DEF ClientOK, Mutating
  <2>4. \E p : Goto(c, p)
    BY <1>11 DEF ReadOperation, ReadView
  <2> QED
    BY <1>6, <2>1, <2>3, <2>4
<1> QED
  BY <1>7, <1>8, <1>9, <1>10, <1>11

\* The steps of a client that decide what to write.
LEMMA DecidingStep ==
    ASSUME IInv, TypeOK', NEW c \in Client,
           DropAncestors(c) \/ MergeHeads(c) \/ Commit(c) \/ Continue(c)
    PROVE  IInv'
<1>1. TypeOK
  BY DEF IInv
<1>2. UNCHANGED server /\ orphans' = orphans
  BY DEF DropAncestors, MergeHeads, Commit, Continue, Quiet
<1>3. UNCHANGED <<registered, views, Stored, StoredHeads, HeadSet, Published>>
  BY <1>2, QuietFacts
<1>4. HeadSet \in SUBSET OpId
  BY DEF HeadSet, Members
<1>5. ASSUME NEW p, NEW t \in Tx, Goto(c, p), Set(c, t),
             registered => ClientOK(c)'
      PROVE  IInv'
  BY <1>1, <1>2, <1>5, OthersRest, QuietStep
<1>7. CASE DropAncestors(c)
  <2>1. PICK h \in OpId :
           /\ Maximal(tx[c].old) = {h}
           /\ Set(c, [op |-> h, old |-> tx[c].old \ {h}, merging |-> TRUE])
    BY <1>7 DEF DropAncestors
  <2> DEFINE t == [op |-> h, old |-> tx[c].old \ {h}, merging |-> TRUE]
  <2>2. t \in Tx /\ tx[c].old \in SUBSET OpId
    BY <1>1 DEF TypeOK, Tx
  <2>3. registered /\ Goto(c, "publish") /\ ClientOK(c) /\ pc[c] = "resolve"
    BY <1>7 DEF DropAncestors, IInv
  <2>4. pc'[c] = "publish" /\ tx'[c] = t
    BY <1>1, <2>1, <2>2, <2>3 DEF TypeOK, Goto, Set
  <2>5. tx[c].old \subseteq Published /\ c \notin Appender
    BY <2>3 DEF ClientOK
  <2>6. h \in tx[c].old /\ tx[c].old \subseteq AncestorsOf[h]
    <3>1. h \in tx[c].old
      BY <2>1 DEF Maximal
    <3>2. tx[c].old \subseteq Reach({h})
      BY <2>1, <2>2, MaximalAssumption
    <3> QED
      BY <3>1, <3>2 DEF Reach
  <2>7. HeadSet \subseteq Stored /\ StoreClosed
    BY <2>3 DEF IInv
  <2>8. Published \subseteq Stored
    BY <2>7 DEF Published, Reach, StoreClosed
  <2>9. h \in Stored /\ AncestorsOf[h] \subseteq Stored /\ ViewFound(ViewOf[h])
    BY <2>5, <2>6, <2>7, <2>8 DEF StoreClosed
  <2>10. ParentsOf[h] \subseteq Published
    <3>1. AncestorsOf[h] \subseteq Published
      BY <1>4, <2>5, <2>6, ReachFacts DEF Published
    <3> QED
      BY <3>1, AncestorFacts
  <2>11. ClientOK(c)'
    <3>1. Request_(c)' = [kind |-> "publish", op |-> h, old |-> tx[c].old \ {h}]
      BY <2>4 DEF Request_
    <3>2. RequestOK(Request_(c))'
      BY <1>3, <2>6, <2>9, <2>10, <3>1 DEF RequestOK, ViewFound
    <3> QED
      BY <2>4, <2>5, <3>2 DEF ClientOK, Mutating
  <2> QED
    BY <1>5, <2>1, <2>2, <2>3, <2>11
<1>8. CASE MergeHeads(c)
  <2>1. PICK m \in OpId :
           /\ ParentsOf[m] = Maximal(tx[c].old)
           /\ Set(c, [op |-> m, old |-> tx[c].old, merging |-> TRUE])
    BY <1>8 DEF MergeHeads
  <2> DEFINE t == [op |-> m, old |-> tx[c].old, merging |-> TRUE]
  <2>2. t \in Tx /\ tx[c].old \in SUBSET OpId
    BY <1>1 DEF TypeOK, Tx
  <2>3. registered /\ Goto(c, "writeView") /\ ClientOK(c) /\ pc[c] = "resolve"
    BY <1>8 DEF MergeHeads, IInv
  <2>4. pc'[c] = "writeView" /\ tx'[c] = t
    BY <1>1, <2>1, <2>2, <2>3 DEF TypeOK, Goto, Set
  <2>5. tx[c].old \subseteq Published /\ c \notin Appender
    BY <2>3 DEF ClientOK
  <2>6. tx[c].old \subseteq AncestorsOf[m] \ {m}
    BY <2>1, <2>2, MergeAncestors
  <2>7. HeadSet \subseteq Stored /\ StoreClosed
    BY <2>3 DEF IInv
  <2>8. ParentsOf[m] \subseteq Published /\ Published \subseteq Stored
    BY <2>1, <2>5, <2>7 DEF Published, Reach, StoreClosed, Maximal
  <2>9. AncestorsOf[m] \ {m} \subseteq Stored
    BY <2>7, <2>8, AncestorFacts DEF StoreClosed
  <2>10. ClientOK(c)'
    <3>1. Request_(c)' = [kind |-> "writeView", op |-> m, old |-> tx[c].old]
      BY <2>4 DEF Request_
    <3>2. RequestOK(Request_(c))'
      BY <1>3, <2>6, <2>8, <2>9, <3>1 DEF RequestOK
    <3> QED
      BY <2>4, <2>5, <3>2 DEF ClientOK, Mutating
  <2> QED
    BY <1>5, <2>1, <2>2, <2>3, <2>10
<1>9. CASE Commit(c)
  <2> DEFINE t(o) == [op |-> o, merging |-> FALSE,
                      old |-> IF c \in Appender THEN {} ELSE ParentsOf[o]]
  <2>1. PICK o \in OpId : ParentsOf[o] = {tx[c].op} /\ Set(c, t(o))
    BY <1>9 DEF Commit
  <2>2. t(o) \in Tx /\ tx[c].op \in OpId
    BY <1>1, GraphTypes DEF TypeOK, Tx
  <2>3. Goto(c, "writeView") /\ pc[c] = "loaded"
    BY <1>9 DEF Commit
  <2>4. pc'[c] = "writeView" /\ tx'[c] = t(o)
    BY <1>1, <2>1, <2>2, <2>3 DEF TypeOK, Goto, Set
  <2>5. ASSUME registered
        PROVE  ClientOK(c)'
    <3>1. tx[c].op \in Stored /\ (c \in Appender => tx[c].op \in Published)
      BY <2>3, <2>5 DEF IInv, ClientOK
    <3>2. AncestorsOf[tx[c].op] \subseteq Stored
      BY <2>5, <3>1 DEF IInv, StoreClosed
    <3>3. AncestorsOf[o] \ {o} \subseteq Stored
      BY <2>1, <3>2, AncestorFacts
    <3>4. tx[c].op \in AncestorsOf[o] \ {o}
      BY <2>1, <2>2, AncestorFacts, AncestorAssumption
    <3>5. Request_(c)' = [kind |-> "writeView", op |-> o,
                          old |-> IF c \in Appender THEN {} ELSE ParentsOf[o]]
      BY <2>4 DEF Request_
    <3>6. RequestOK(Request_(c))'
      BY <1>3, <2>1, <2>2, <3>1, <3>3, <3>4, <3>5 DEF RequestOK, ReplacesParent
    <3> QED
      BY <2>4, <3>6 DEF ClientOK, Mutating
  <2> QED
    BY <1>5, <2>1, <2>2, <2>3, <2>5
<1>10. CASE Continue(c)
  <2> DEFINE t == [NoTx EXCEPT !.op = tx[c].op]
  <2>1. t \in Tx /\ t.op = tx[c].op
    BY <1>1, GraphTypes DEF TypeOK, Tx, NoTx
  <2>2. /\ Goto(c, "loaded") /\ Set(c, t)
        /\ pc[c] = "acked" /\ c \notin Appender
    BY <1>10 DEF Continue
  <2>3. pc'[c] = "loaded" /\ tx'[c] = t
    BY <1>1, <2>1, <2>2 DEF TypeOK, Goto, Set
  <2>4. ASSUME registered
        PROVE  ClientOK(c)'
    <3>1. tx[c].op \in Stored
      BY <2>2, <2>4 DEF IInv, ClientOK
    <3> QED
      BY <1>3, <2>1, <2>2, <2>3, <3>1 DEF ClientOK, Mutating
  <2> QED
    BY <1>5, <2>1, <2>2, <2>4
<1> QED
  BY <1>7, <1>8, <1>9, <1>10

\* A client's mutating request handled by the server.
LEMMA WritingStep ==
    ASSUME IInv, TypeOK', NEW c \in Client,
           WriteView(c) \/ WriteOperation(c) \/ UpdateOpHeads(c)
    PROVE  IInv'
<1>1. TypeOK
  BY DEF IInv
<1>2. /\ Serve(Request_(c)) /\ UNCHANGED <<tx, orphans>> /\ Mutating(c)
      /\ Request_(c).kind = pc[c]
      /\ Request_(c).op = tx[c].op /\ Request_(c).old = tx[c].old
  BY DEF WriteView, WriteOperation, UpdateOpHeads, Mutating, Request_
<1>3. PICK r \in Request : r = Request_(c)
  BY <1>1, <1>2, RequestType
<1>4. registered /\ registered' = registered
  BY <1>1, <1>2, <1>3, ServeType
<1>5. /\ RequestOK(r) /\ (c \in Appender => ~tx[c].merging)
      /\ HeadsWellFormed /\ HeadSet \subseteq Stored /\ StoreClosed
  BY <1>2, <1>3, <1>4 DEF IInv, ClientOK
<1>6. /\ HeadsWellFormed' /\ HeadSet' \subseteq Stored' /\ StoreClosed'
      /\ Stored \subseteq Stored' /\ views \subseteq views'
      /\ Published \subseteq Published'
      /\ r.kind = "writeView" => ViewFound(ViewOf[r.op])'
      /\ r.kind = "writeOp" => r.op \in Stored'
  BY <1>1, <1>2, <1>3, <1>5, ServeStep
<1>7. /\ pc' = [pc EXCEPT ![c] = pc'[c]]
      /\ pc[c] = "writeView" => pc'[c] = "writeOp"
      /\ pc[c] = "writeOp" => pc'[c] = "publish"
      /\ pc[c] = "publish" =>
            pc'[c] = IF tx[c].merging THEN "readView" ELSE "acked"
  BY <1>1 DEF TypeOK, WriteView, WriteOperation, UpdateOpHeads, Goto
<1>8. ClientOK(c)'
  <2>1. RequestOK(r)'
    BY <1>5, <1>6, RequestStable
  <2>2. tx'[c] = tx[c] /\ r.op = tx[c].op /\ r.old = tx[c].old
    BY <1>2, <1>3
  <2>3. CASE pc[c] \in {"writeView", "writeOp"}
    <3>1. Request_(c)' = [kind |-> pc'[c], op |-> r.op, old |-> r.old]
      BY <2>2 DEF Request_
    <3>2. /\ pc'[c] \in {"writeOp", "publish"}
          /\ ViewFound(ViewOf[r.op])'
          /\ pc'[c] = "publish" => r.op \in Stored'
      BY <1>2, <1>3, <1>6, <1>7, <2>1, <2>3 DEF RequestOK
    <3>3. /\ AncestorsOf[r.op] \ {r.op} \subseteq Stored'
          /\ r.old \subseteq AncestorsOf[r.op] \ {r.op}
          /\ \/ ParentsOf[r.op] \subseteq Published'
             \/ \E p \in OpId : ParentsOf[r.op] = {p} /\ r.old = {p}
      BY <2>1 DEF RequestOK, ReplacesParent
    <3>4. RequestOK(Request_(c))'
      BY <3>1, <3>2, <3>3 DEF RequestOK, ReplacesParent
    <3> QED
      BY <1>5, <2>2, <3>2, <3>4 DEF ClientOK, Mutating
  <2>4. CASE pc[c] = "publish"
    <3>1. r.op \in Stored
      BY <1>2, <1>3, <1>5, <2>4 DEF RequestOK
    <3> QED
      BY <1>5, <1>6, <1>7, <2>2, <2>4, <3>1 DEF ClientOK, Mutating
  <2> QED
    BY <1>2, <2>3, <2>4 DEF Mutating
<1>9. ASSUME NEW d \in Client
      PROVE  ClientOK(d)'
  <2>1. CASE d = c
    BY <1>8, <2>1
  <2>2. CASE d # c
    <3>1. pc'[d] = pc[d] /\ tx'[d] = tx[d] /\ ClientOK(d)
      BY <1>1, <1>2, <1>4, <1>7, <2>2 DEF IInv, TypeOK
    <3> QED
      BY <1>6, <3>1, ClientStable
  <2> QED
    BY <2>1, <2>2
<1>10. ASSUME NEW q \in orphans'
       PROVE  RequestOK(q)'
  BY <1>2, <1>4, <1>6, RequestStable DEF IInv
<1> QED
  BY <1>6, <1>9, <1>10 DEF IInv

\* Every step keeps the inductive invariant.
LEMMA InvariantStep ==
    ASSUME IInv, [Next]_vars
    PROVE  IInv'
<1>1. TypeOK /\ TypeOK'
  BY TypeStep DEF IInv
<1>2. ASSUME NEW c \in Client, Begin(c) \/ Step(c)
      PROVE  IInv'
  BY <1>1, <1>2, ReadingStep, DecidingStep, WritingStep DEF Step
<1>3. ASSUME NEW c \in Client, Abort(c)
      PROVE  IInv'
  <2>1. UNCHANGED server /\ Goto(c, "idle") /\ Set(c, NoTx)
    BY <1>3 DEF Abort
  <2>2. NoTx \in Tx
    BY GraphTypes DEF NoTx, Tx
  <2>3. ClientOK(c)'
    BY <1>1, <2>1 DEF TypeOK, Goto, ClientOK, Mutating
  <2>4. ASSUME registered, NEW r \in orphans' \ orphans
        PROVE  RequestOK(r)
    <3>1. r = Request_(c) /\ Mutating(c)
      BY <1>3 DEF Abort
    <3> QED
      BY <2>4, <3>1 DEF IInv, ClientOK
  <2> QED
    BY <1>1, <2>1, <2>2, <2>3, <2>4, OthersRest, QuietStep
<1>4. ASSUME NEW r \in orphans, ServeOrphan(r)
      PROVE  IInv'
  <2>1. r \in Request /\ Serve(r) /\ UNCHANGED <<pc, tx>> /\ orphans' \subseteq orphans
    BY <1>1, <1>4 DEF TypeOK, ServeOrphan
  <2>2. registered /\ registered' = registered
    BY <1>1, <2>1, ServeType
  <2>3. /\ HeadsWellFormed /\ HeadSet \subseteq Stored /\ StoreClosed
        /\ \A q \in orphans : RequestOK(q)
        /\ \A c \in Client : ClientOK(c)
    BY <2>2 DEF IInv
  <2>4. /\ HeadsWellFormed' /\ HeadSet' \subseteq Stored' /\ StoreClosed'
        /\ Stored \subseteq Stored' /\ views \subseteq views'
        /\ Published \subseteq Published'
    BY <1>1, <2>1, <2>3, ServeStep
  <2>5. ASSUME NEW c \in Client
        PROVE  ClientOK(c)'
    BY <2>1, <2>3, <2>4, ClientStable
  <2>6. ASSUME NEW q \in orphans'
        PROVE  RequestOK(q)'
    BY <2>1, <2>3, <2>4, RequestStable
  <2> QED
    BY <1>1, <2>4, <2>5, <2>6 DEF IInv
<1>5. CASE Restart
  <2>1. heads' = NoEntry /\ registered' = FALSE
    BY <1>5 DEF Restart
  <2>2. StoredHeads' = Only(Root)
    BY <2>1 DEF StoredHeads
  <2>3. HeadsWellFormed'
    BY <2>2, OnlyFacts, RootAncestors DEF HeadsWellFormed, HeadSet
  <2> QED
    BY <1>1, <2>1, <2>3 DEF IInv
<1>6. CASE UNCHANGED vars
  <2>1. /\ UNCHANGED <<registered, views, Stored, StoredHeads, HeadSet, Published>>
        /\ UNCHANGED <<pc, tx, orphans>>
    BY <1>6, QuietFacts DEF vars, server
  <2>2. HeadsWellFormed'
    BY <2>1 DEF IInv, HeadsWellFormed
  <2>3. ASSUME registered
        PROVE  /\ HeadSet' \subseteq Stored' /\ StoreClosed'
               /\ \A c \in Client : ClientOK(c)'
               /\ \A q \in orphans' : RequestOK(q)'
    BY <2>1, <2>3, ClientStable, RequestStable DEF IInv, StoreClosed, ViewFound
  <2> QED
    BY <1>1, <2>1, <2>2, <2>3 DEF IInv
<1> QED
  BY <1>2, <1>3, <1>4, <1>5, <1>6 DEF Next

\* The inductive invariant holds in every reachable state.
THEOREM InvariantHolds == Spec => []IInv
<1>1. Init => IInv
  <2> SUFFICES ASSUME Init PROVE IInv
    OBVIOUS
  <2>1. TypeOK
    BY GraphTypes DEF Init, TypeOK, Bag, Only, Pc, Tx, NoTx
  <2>2. StoredHeads = Only(Root) /\ Stored = {Root}
    BY DEF Init, StoredHeads, Stored
  <2>3. HeadSet = {Root} /\ HeadsWellFormed
    BY <2>2, OnlyFacts, RootAncestors DEF HeadSet, HeadsWellFormed
  <2>4. StoreClosed
    BY <2>2, RootAncestors, RootAssumption DEF StoreClosed, ViewFound
  <2>5. \A c \in Client : ClientOK(c)
    BY DEF Init, ClientOK, Mutating
  <2> QED
    BY <2>1, <2>2, <2>3, <2>4, <2>5 DEF IInv, Init
<1>2. IInv /\ [Next]_vars => IInv'
  BY InvariantStep
<1> QED
  BY <1>1, <1>2, PTL DEF Spec

-----------------------------------------------------------------------------
(* What follows.                                                           *)

\* The list of heads is never empty and names no operation twice.
THEOREM HeadsAreWellFormed == Spec => []HeadsWellFormed
<1>1. IInv => HeadsWellFormed
  BY DEF IInv
<1> QED
  BY <1>1, InvariantHolds, PTL

\* Whatever the heads lead to can be read, however many clients died on the
\* way and in whatever order their last requests were handled.
THEOREM HistoryIsReadable == Spec => []HistoryReadable
<1>1. IInv => HistoryReadable
  <2> SUFFICES ASSUME IInv, registered, NEW o \in Published
               PROVE  OperationFound(o) /\ ViewFound(ViewOf[o])
    BY DEF HistoryReadable
  <2>1. o \in Stored
    BY DEF IInv, Published, Reach, StoreClosed
  <2> QED
    BY <2>1 DEF IInv, StoreClosed, Stored, OperationFound
<1> QED
  BY <1>1, InvariantHolds, PTL

\* The operation of an acknowledged command can be read with all its history.
THEOREM AckedCanBeRecovered == Spec => []AckedIsRecoverable
<1>1. IInv => AckedIsRecoverable
  <2> SUFFICES ASSUME IInv, registered, NEW c \in Client, pc[c] = "acked",
                      NEW o \in AncestorsOf[tx[c].op]
               PROVE  OperationFound(o) /\ ViewFound(ViewOf[o])
    BY DEF AckedIsRecoverable
  <2>1. o \in Stored
    BY DEF IInv, ClientOK, StoreClosed
  <2> QED
    BY <2>1 DEF IInv, StoreClosed, Stored, OperationFound
<1> QED
  BY <1>1, InvariantHolds, PTL

\* An update that the server would accept is built on published history and
\* supersedes only ancestors of its operation.
THEOREM AcceptedUpdatesAreSound == Spec => []AcceptedUpdatesBuildOnHistory
<1>1. IInv => AcceptedUpdatesBuildOnHistory
  <2> SUFFICES ASSUME IInv, registered, NEW r \in PendingUpdates
               PROVE  /\ r.old \cap HeadSet # {} \/ r.old = {} =>
                            ParentsOf[r.op] \subseteq Published
                      /\ r.old \subseteq AncestorsOf[r.op] \ {r.op}
    BY DEF AcceptedUpdatesBuildOnHistory
  <2>1. RequestOK(r)
    BY DEF IInv, PendingUpdates, ClientOK, Mutating
  <2>2. HeadSet \subseteq Published
    BY ReachFacts DEF HeadSet, Members, Published
  <2> QED
    BY <2>1, <2>2 DEF RequestOK, ReplacesParent
<1> QED
  BY <1>1, InvariantHolds, PTL

-----------------------------------------------------------------------------
(* Refinement of the growing history.                                      *)

\* A handled request publishes nothing, or its operation on top of published
\* parents.
LEMMA ServeRefinesHistory ==
    ASSUME IInv, NEW r \in Request, RequestOK(r), Serve(r)
    PROVE  [History!HNext]_(History!hvars)
<1>1. TypeOK /\ HeadsWellFormed
  BY DEF IInv
<1>2. registered /\ UNCHANGED registered
  BY <1>1, ServeType
<1>3. CASE WriteViewRpc(ViewOf[r.op]) \/ WriteOperationRpc(r.op)
  <2>1. UNCHANGED heads
    BY <1>3 DEF WriteViewRpc, WriteOperationRpc
  <2>2. UNCHANGED Published
    BY <2>1 DEF Published, HeadSet, StoredHeads
  <2> QED
    BY <1>2, <2>2 DEF History!hvars
<1>4. CASE UpdateOpHeadsRpc(r.old, r.op)
  <2>1. /\ Published \subseteq Published'
        /\ Published' \subseteq Published \cup {r.op}
        /\ Published' # Published => ParentsOf[r.op] \subseteq Published
    BY <1>1, <1>4, UpdateStep
  <2>2. CASE Published' = Published
    BY <1>2, <2>2 DEF History!hvars
  <2>3. CASE Published' # Published
    <3>1. Published' = Published \cup {r.op} /\ ParentsOf[r.op] \subseteq Published
      BY <2>1, <2>3
    <3>2. r.op \in OpId
      BY DEF Request
    <3>3. History!HPublish(r.op)
      BY <1>2, <3>1 DEF History!HPublish
    <3> QED
      BY <3>2, <3>3 DEF History!HNext
  <2> QED
    BY <2>2, <2>3
<1> QED
  BY <1>3, <1>4 DEF Serve

\* A step of the system is a step of the growing history, or none.
LEMMA HistoryStep ==
    ASSUME IInv, [Next]_vars
    PROVE  [History!HNext]_(History!hvars)
<1>1. TypeOK
  BY DEF IInv
<1>2. ASSUME UNCHANGED server
      PROVE  [History!HNext]_(History!hvars)
  BY <1>2, QuietFacts DEF History!hvars
<1>3. ASSUME NEW c \in Client,
             WriteView(c) \/ WriteOperation(c) \/ UpdateOpHeads(c)
      PROVE  [History!HNext]_(History!hvars)
  <2>1. Serve(Request_(c)) /\ Mutating(c)
    BY <1>3 DEF WriteView, WriteOperation, UpdateOpHeads, Mutating
  <2>2. PICK r \in Request : r = Request_(c)
    BY <1>1, <2>1, RequestType
  <2>3. registered
    BY <1>1, <2>1, <2>2, ServeType
  <2>4. RequestOK(r)
    BY <2>1, <2>2, <2>3 DEF IInv, ClientOK
  <2> QED
    BY <2>1, <2>2, <2>4, ServeRefinesHistory
<1>4. ASSUME NEW r \in orphans, ServeOrphan(r)
      PROVE  [History!HNext]_(History!hvars)
  <2>1. r \in Request /\ Serve(r)
    BY <1>1, <1>4 DEF TypeOK, ServeOrphan
  <2>2. registered
    BY <1>1, <2>1, ServeType
  <2> QED
    BY <2>1, <2>2, ServeRefinesHistory DEF IInv
<1>5. CASE Restart
  <2>1. registered' = FALSE /\ heads' = NoEntry
    BY <1>5 DEF Restart
  <2>2. HeadSet' = {Root}
    BY <2>1, OnlyFacts, RootAncestors DEF HeadSet, StoredHeads
  <2>3. Published' = {Root}
    BY <2>2, RootAncestors DEF Published, Reach
  <2> QED
    BY <2>1, <2>3 DEF History!HNext, History!HForget
<1>6. ASSUME NEW c \in Client, Begin(c) \/ Step(c) \/ Abort(c)
      PROVE  [History!HNext]_(History!hvars)
  BY <1>2, <1>3, <1>6
     DEF Begin, Step, Abort, LoadSoleHead, TakeLock, LoadHeads, DropAncestors,
         MergeHeads, ReadOperation, ReadView, Commit, Continue, Finish, Fail, Quiet
<1>7. CASE UNCHANGED vars
  BY <1>2, <1>7 DEF vars, server
<1> QED
  BY <1>4, <1>5, <1>6, <1>7 DEF Next

\* The service implements an ever-growing history closed under parents.
THEOREM HistoryIsImplemented == Spec => ImplementsHistory
<1>1. Init => History!HInit
  <2> SUFFICES ASSUME Init PROVE History!HInit
    OBVIOUS
  <2>1. HeadSet = {Root}
    BY OnlyFacts, RootAncestors DEF Init, HeadSet, StoredHeads
  <2>2. Published = {Root}
    BY <2>1, RootAncestors DEF Published, Reach
  <2> QED
    BY <2>2 DEF Init, History!HInit
<1>2. IInv /\ [Next]_vars => [History!HNext]_(History!hvars)
  BY HistoryStep
<1> QED
  BY <1>1, <1>2, InvariantHolds, PTL DEF Spec, ImplementsHistory, History!HSpec

-----------------------------------------------------------------------------
(* The operation log when jj-lib is the only caller (nobody appends): it   *)
(* is one line, for any number of clients, kills and late requests.        *)

\* Two lists of one operation are equal only if the operations are.
LEMMA OnlyInjective ==
    ASSUME NEW g \in OpId, NEW h \in OpId, Only(g) = Only(h)
    PROVE  g = h
  BY DEF Only

\* update_op_heads on one head: it is replaced if it is the old one.
LEMMA UpdatedOnly ==
    ASSUME NEW h \in OpId, NEW p \in OpId, NEW o \in OpId
    PROVE  UpdatedHeads(Only(h), {p}, o) = IF p = h THEN Only(o) ELSE Only(h)
<1> DEFINE rest == [q \in OpId |-> IF q \in {p} THEN 0 ELSE Only(h)[q]]
<1>1. UpdatedHeads(Only(h), {p}, o) = IF p = h THEN Pushed(rest, o) ELSE rest
  BY DEF UpdatedHeads, Only
<1>2. CASE p = h
  <2>1. rest = [q \in OpId |-> 0]
    BY <1>2 DEF Only
  <2>2. Pushed(rest, o) = [rest EXCEPT ![o] = 1]
    <3>1. rest[o] = 0
      BY <2>1
    <3> HIDE DEF rest
    <3> QED
      BY <3>1 DEF Pushed
  <2>3. [rest EXCEPT ![o] = 1] = Only(o)
    BY <2>1 DEF Only
  <2> QED
    BY <1>1, <1>2, <2>2, <2>3
<1>3. CASE p # h
  <2>1. rest = Only(h)
    BY <1>3 DEF Only
  <2> QED
    BY <1>1, <1>3, <2>1
<1> QED
  BY <1>2, <1>3

\* A handled request leaves the one head or replaces it by a child of it.
LEMMA ServeOnLine ==
    ASSUME LineInv, NEW r \in Request, ReplacesParent(r), Serve(r),
           NEW h \in OpId, StoredHeads = Only(h)
    PROVE  \/ StoredHeads' = Only(h)
           \/ ParentsOf[r.op] = {h} /\ StoredHeads' = Only(r.op)
<1>1. CASE WriteViewRpc(ViewOf[r.op]) \/ WriteOperationRpc(r.op)
  BY <1>1 DEF WriteViewRpc, WriteOperationRpc, StoredHeads
<1>2. CASE UpdateOpHeadsRpc(r.old, r.op)
  <2>1. PICK p \in OpId : ParentsOf[r.op] = {p} /\ r.old = {p}
    BY DEF ReplacesParent
  <2>2. r.op \in OpId
    BY DEF Request
  <2>3. heads' = IF p = h THEN Only(r.op) ELSE Only(h)
    BY <1>2, <2>1, <2>2, UpdatedOnly DEF UpdateOpHeadsRpc
  <2>4. StoredHeads' = heads'
    BY <2>2, <2>3, OnlyFacts, NoEntryIsNoBag DEF StoredHeads
  <2> QED
    BY <2>1, <2>3, <2>4
<1> QED
  BY <1>1, <1>2 DEF Serve

\* A client that never sees two heads only loads, and only replaces parents.
LEMMA LineStep ==
    ASSUME LineInv, [Next]_vars, Appender = {}
    PROVE  LineInv'
<1>1. TypeOK /\ TypeOK'
  BY TypeStep DEF LineInv
<1>2. PICK h \in OpId : StoredHeads = Only(h)
  BY DEF LineInv
<1>3. h \in HeadSet
  BY <1>2, OnlyFacts DEF HeadSet
<1> DEFINE OnLine(c) ==
      /\ pc[c] \notin {"lockedGetHeads", "resolve"}
      /\ Mutating(c) => ~tx[c].merging /\ ReplacesParent(Request_(c))
<1>4. /\ \A c \in Client : OnLine(c)
      /\ \A r \in orphans : ReplacesParent(r)
  BY DEF LineInv
<1>5. ASSUME NEW c \in Client, pc'[c] = pc[c], tx'[c] = tx[c]
      PROVE  OnLine(c)'
  BY <1>4, <1>5 DEF Mutating, Request_, ReplacesParent
<1>6. ASSUME NEW c \in Client,
             \A d \in Client \ {c} : pc'[d] = pc[d] /\ tx'[d] = tx[d],
             OnLine(c)',
             \A r \in orphans' : ReplacesParent(r),
             \E k \in OpId : StoredHeads' = Only(k)
      PROVE  LineInv'
  <2>1. \A d \in Client : OnLine(d)'
    BY <1>5, <1>6
  <2>2. \A r \in orphans' : ReplacesParent(r)'
    BY <1>6 DEF ReplacesParent
  <2> HIDE DEF OnLine
  <2>3. LineInv' <=> /\ TypeOK'
                     /\ \E k \in OpId : StoredHeads' = Only(k)
                     /\ \A d \in Client : OnLine(d)'
                     /\ \A r \in orphans' : ReplacesParent(r)'
    BY DEF LineInv, OnLine
  <2> QED
    BY <1>1, <1>6, <2>1, <2>2, <2>3
<1>7. /\ NoTx \in Tx /\ \A k \in OpId : [NoTx EXCEPT !.op = k] \in Tx
      /\ HeadSet \in SUBSET OpId
      /\ \A c \in Client : tx[c].op \in OpId
  BY <1>1, GraphTypes DEF TypeOK, NoTx, Tx, HeadSet, Members
<1>8. ASSUME UNCHANGED heads
      PROVE  StoredHeads' = Only(h)
  BY <1>2, <1>8 DEF StoredHeads
<1> USE DEF TypeOK
<1>9. ASSUME NEW c \in Client,
             \/ Begin(c) \/ LoadSoleHead(c) \/ ReadOperation(c) \/ ReadView(c)
             \/ Continue(c) \/ Finish(c) \/ Fail(c)
      PROVE  LineInv'
  <2>1. UNCHANGED <<heads, orphans>>
    BY <1>9 DEF Begin, LoadSoleHead, ReadOperation, ReadView, Continue, Finish, Fail,
                Quiet, server
  <2>2. /\ \E p : Goto(c, p)
        /\ UNCHANGED tx \/ \E t \in Tx : Set(c, t)
    BY <1>7, <1>9
       DEF Begin, LoadSoleHead, ReadOperation, ReadView, Continue, Finish, Fail
  <2>3. \A d \in Client \ {c} : pc'[d] = pc[d] /\ tx'[d] = tx[d]
    BY <1>1, <2>2, OthersRest
  <2>4. pc'[c] \in {"idle", "getHeads", "readOp", "readView", "loaded"}
    BY <1>1, <1>9
       DEF Begin, LoadSoleHead, ReadOperation, ReadView, Continue, Finish, Fail, Goto
  <2>5. OnLine(c)'
    BY <2>4 DEF Mutating
  <2> QED
    BY <1>4, <1>6, <1>8, <2>1, <2>3, <2>5
<1>10. ASSUME NEW c \in Client, TakeLock(c) \/ LoadHeads(c) \/ DropAncestors(c) \/ MergeHeads(c)
       PROVE  FALSE
  BY <1>2, <1>3, <1>4, <1>10 DEF TakeLock, LoadHeads, DropAncestors, MergeHeads
<1>11. ASSUME NEW c \in Client, Commit(c)
       PROVE  LineInv'
  <2>1. PICK o \in OpId : /\ ParentsOf[o] = {tx[c].op}
                          /\ Set(c, [op |-> o, merging |-> FALSE, old |-> ParentsOf[o]])
    BY <1>11, Appender = {} DEF Commit
  <2>2. [op |-> o, merging |-> FALSE, old |-> ParentsOf[o]] \in Tx /\ tx[c].op \in OpId
    BY <1>1, GraphTypes DEF Tx
  <2>3. Goto(c, "writeView") /\ UNCHANGED <<heads, orphans>>
    BY <1>11 DEF Commit, Quiet, server
  <2>4. \A d \in Client \ {c} : pc'[d] = pc[d] /\ tx'[d] = tx[d]
    BY <1>1, <2>1, <2>2, <2>3, OthersRest
  <2>5. /\ pc'[c] = "writeView"
        /\ tx'[c] = [op |-> o, merging |-> FALSE, old |-> ParentsOf[o]]
    BY <1>1, <2>1, <2>2, <2>3 DEF Goto, Set
  <2>6. OnLine(c)'
    BY <2>1, <2>2, <2>5 DEF Request_, ReplacesParent
  <2> QED
    BY <1>4, <1>6, <1>8, <2>3, <2>4, <2>6
<1>12. ASSUME NEW c \in Client,
              WriteView(c) \/ WriteOperation(c) \/ UpdateOpHeads(c)
       PROVE  LineInv'
  <2>1. /\ Serve(Request_(c)) /\ UNCHANGED <<tx, orphans>> /\ Mutating(c)
        /\ \E p : Goto(c, p)
    BY <1>12 DEF WriteView, WriteOperation, UpdateOpHeads, Mutating
  <2>2. PICK r \in Request : r = Request_(c)
    BY <1>1, <2>1, RequestType
  <2>3. ~tx[c].merging /\ ReplacesParent(r)
    BY <1>4, <2>1, <2>2
  <2>4. r.op \in OpId
    BY DEF Request
  <2>5. \E k \in OpId : StoredHeads' = Only(k)
    BY <1>2, <2>1, <2>2, <2>3, <2>4, ServeOnLine
  <2>6. \A d \in Client \ {c} : pc'[d] = pc[d] /\ tx'[d] = tx[d]
    BY <1>1, <2>1, OthersRest
  <2>7. pc'[c] \in {"writeOp", "publish", "acked"}
    BY <1>1, <1>12, <2>3 DEF WriteView, WriteOperation, UpdateOpHeads, Goto
  <2>8. Request_(c)'.op = r.op /\ Request_(c)'.old = r.old
    BY <2>1, <2>2 DEF Request_
  <2>9. OnLine(c)'
    BY <2>1, <2>3, <2>7, <2>8 DEF Mutating, ReplacesParent
  <2> QED
    BY <1>4, <1>6, <2>1, <2>5, <2>6, <2>9
<1>13. ASSUME NEW c \in Client, Abort(c)
       PROVE  LineInv'
  <2>1. UNCHANGED heads /\ Goto(c, "idle") /\ Set(c, NoTx)
    BY <1>13 DEF Abort, server
  <2>2. \A d \in Client \ {c} : pc'[d] = pc[d] /\ tx'[d] = tx[d]
    BY <1>1, <1>7, <2>1, OthersRest
  <2>3. OnLine(c)'
    BY <1>1, <2>1 DEF Goto, Mutating
  <2>4. \A r \in orphans' : ReplacesParent(r)
    BY <1>4, <1>13 DEF Abort
  <2> QED
    BY <1>6, <1>8, <2>1, <2>2, <2>3, <2>4
<1>14. ASSUME UNCHANGED <<pc, tx>>, orphans' \subseteq orphans,
              \E k \in OpId : StoredHeads' = Only(k)
       PROVE  LineInv'
  <2>1. \A c \in Client : OnLine(c)'
    BY <1>5, <1>14
  <2>2. \A r \in orphans' : ReplacesParent(r)'
    BY <1>4, <1>14 DEF ReplacesParent
  <2> QED
    BY <1>1, <1>14, <2>1, <2>2 DEF LineInv
<1>15. ASSUME NEW r \in orphans, ServeOrphan(r)
       PROVE  LineInv'
  <2>1. r \in Request /\ Serve(r) /\ r.op \in OpId /\ ReplacesParent(r)
    BY <1>1, <1>4, <1>15 DEF ServeOrphan, Request
  <2>2. \E k \in OpId : StoredHeads' = Only(k)
    BY <1>2, <2>1, ServeOnLine
  <2> QED
    BY <1>14, <1>15, <2>2 DEF ServeOrphan
<1>16. CASE Restart
  <2>1. StoredHeads' = Only(Root)
    BY <1>16 DEF Restart, StoredHeads
  <2> QED
    BY <1>14, <1>16, <2>1, RootAncestors DEF Restart
<1>17. CASE UNCHANGED vars
  BY <1>8, <1>14, <1>17 DEF vars
<1> QED
  BY <1>9, <1>10, <1>11, <1>12, <1>13, <1>15, <1>16, <1>17 DEF Next, Step

\* The invariant of the line holds in every reachable state.
THEOREM LineInvariantHolds ==
    ASSUME Appender = {}
    PROVE  Spec => []LineInv
<1>1. Init => LineInv
  <2> SUFFICES ASSUME Init PROVE LineInv
    OBVIOUS
  <2>1. TypeOK
    BY GraphTypes DEF Init, TypeOK, Bag, Only, Pc, Tx, NoTx
  <2>2. StoredHeads = Only(Root)
    BY DEF Init, StoredHeads
  <2> QED
    BY <2>1, <2>2, RootAncestors DEF Init, LineInv, Mutating
<1>2. LineInv /\ [Next]_vars => LineInv'
  BY LineStep
<1> QED
  BY <1>1, <1>2, PTL DEF Spec

\* The log never has two heads, however many clients commit at once.
THEOREM LogHasOneHead ==
    ASSUME Appender = {}
    PROVE  Spec => []SingleHead
<1>1. LineInv => SingleHead
  BY DEF LineInv, SingleHead
<1> QED
  BY <1>1, LineInvariantHolds, PTL

-----------------------------------------------------------------------------
(* Refinement of the line of operations.                                   *)

Tip == CHOOSE h \in OpId : StoredHeads = Only(h)

\* The tip is the one head.
LEMMA TipFacts ==
    ASSUME NEW h \in OpId, StoredHeads = Only(h)
    PROVE  Tip = h
  BY OnlyInjective DEF Tip

\* The same in the next state.
LEMMA TipFactsNext ==
    ASSUME NEW h \in OpId, StoredHeads' = Only(h)
    PROVE  Tip' = h
<1>1. \A k \in OpId : StoredHeads' = Only(k) => k = h
  BY OnlyInjective
<1> QED
  BY <1>1 DEF Tip

\* A handled request extends the line by a child of its tip, or not at all.
LEMMA ServeRefinesLine ==
    ASSUME LineInv, NEW r \in Request, ReplacesParent(r), Serve(r)
    PROVE  [Linear!LNext]_(Linear!lvars)
<1>1. PICK h \in OpId : StoredHeads = Only(h)
  BY DEF LineInv
<1>2. registered /\ UNCHANGED registered /\ r.op \in OpId
  BY ServeType DEF LineInv, Request
<1>3. CASE StoredHeads' = Only(h)
  BY <1>1, <1>2, <1>3, TipFacts, TipFactsNext DEF Linear!lvars, Tip
<1>4. CASE ParentsOf[r.op] = {h} /\ StoredHeads' = Only(r.op)
  <2>1. Tip = h /\ Tip' = r.op
    BY <1>1, <1>2, <1>4, TipFacts, TipFactsNext
  <2>2. Linear!LExtend(r.op)
    BY <1>2, <1>4, <2>1 DEF Linear!LExtend, Tip
  <2> QED
    BY <1>2, <2>2 DEF Linear!LNext
<1> QED
  BY <1>1, <1>3, <1>4, ServeOnLine

\* A step of the system is a step of the line, or none.
LEMMA LinearStep ==
    ASSUME LineInv, [Next]_vars
    PROVE  [Linear!LNext]_(Linear!lvars)
<1>1. ASSUME UNCHANGED <<registered, heads>>
      PROVE  [Linear!LNext]_(Linear!lvars)
  BY <1>1 DEF Linear!lvars, StoredHeads
<1>2. ASSUME NEW c \in Client,
             WriteView(c) \/ WriteOperation(c) \/ UpdateOpHeads(c)
      PROVE  [Linear!LNext]_(Linear!lvars)
  <2>1. Serve(Request_(c)) /\ Mutating(c)
    BY <1>2 DEF WriteView, WriteOperation, UpdateOpHeads, Mutating
  <2>2. PICK r \in Request : r = Request_(c)
    BY <2>1, RequestType DEF LineInv
  <2> QED
    BY <2>1, <2>2, ServeRefinesLine DEF LineInv
<1>3. ASSUME NEW r \in orphans, ServeOrphan(r)
      PROVE  [Linear!LNext]_(Linear!lvars)
  <2>1. r \in Request /\ Serve(r) /\ ReplacesParent(r)
    BY <1>3 DEF LineInv, TypeOK, ServeOrphan
  <2> QED
    BY <2>1, ServeRefinesLine
<1>4. CASE Restart
  <2>1. registered' = FALSE /\ StoredHeads' = Only(Root)
    BY <1>4 DEF Restart, StoredHeads
  <2>2. Tip' = Root
    BY <2>1, RootAncestors, TipFactsNext
  <2> QED
    BY <2>1, <2>2 DEF Linear!LNext, Linear!LForget, Tip
<1>5. ASSUME NEW c \in Client, Begin(c) \/ Step(c) \/ Abort(c)
      PROVE  [Linear!LNext]_(Linear!lvars)
  BY <1>1, <1>2, <1>5
     DEF Begin, Step, Abort, LoadSoleHead, TakeLock, LoadHeads, DropAncestors,
         MergeHeads, ReadOperation, ReadView, Commit, Continue, Finish, Fail,
         Quiet, server
<1>6. CASE UNCHANGED vars
  BY <1>1, <1>6 DEF vars
<1> QED
  BY <1>3, <1>4, <1>5, <1>6 DEF Next

\* Concurrent commits, kills and late requests leave one line of operations:
\* every accepted operation is a child of the one accepted before it.
THEOREM LineIsImplemented ==
    ASSUME Appender = {}
    PROVE  Spec => ImplementsLinear
<1>1. Init => Linear!LInit
  <2> SUFFICES ASSUME Init PROVE Linear!LInit
    OBVIOUS
  <2>1. StoredHeads = Only(Root)
    BY DEF Init, StoredHeads
  <2>2. Tip = Root
    BY <2>1, RootAncestors, TipFacts
  <2> QED
    BY <2>2 DEF Init, Linear!LInit, Tip
<1>2. LineInv /\ [Next]_vars => [Linear!LNext]_(Linear!lvars)
  BY LinearStep
<1> QED
  BY <1>1, <1>2, LineInvariantHolds, PTL DEF Spec, ImplementsLinear, Linear!LSpec

=============================================================================
