-------------------------- MODULE CloudStoreProofs --------------------------
(***************************************************************************)
(* Proofs about CloudStore, for every graph of operations and objects, any *)
(* clients and any number of late requests.  They use what OpHeadsProofs   *)
(* shows of the operation log, of which CloudStore is a strengthening.     *)
(***************************************************************************)
EXTENDS CloudStore, OpHeadsProofs

-----------------------------------------------------------------------------
(* The operation log inside CloudStore.                                    *)

\* A refused object read or write looks to the operation log as the death of
\* the client, and every other step is a step of the log or leaves it alone.
LEMMA LogStepSimulated ==
    ASSUME [CNext]_cvars
    PROVE  [Next]_vars
<1>1. ASSUME NEW c \in Client, LogStep(c) \/ StartOrEnd(c) \/ LoadView(c) \/ Build(c)
      PROVE  Next
  BY <1>1 DEF LogStep, StartOrEnd, LoadView, Build, Next, Step
<1>2. ASSUME NEW c \in Client, WriteObject(c) \/ ReadObject(c) \/ ReadHeadViews(c)
      PROVE  UNCHANGED vars
  BY <1>2 DEF WriteObject, ReadObject, ReadHeadViews
<1>3. ASSUME NEW c \in Client, ObjectRefused(c)
      PROVE  Abort(c)
  BY <1>3 DEF ObjectRefused, Working, Abort, Quiet
<1>4. ASSUME NEW c \in Client, Die(c)
      PROVE  Abort(c)
  BY <1>4 DEF Die
<1>5. ASSUME NEW x \in late, ServeLate(x)
      PROVE  UNCHANGED vars
  BY <1>5 DEF ServeLate
<1>6. ASSUME NEW r \in orphans, ServeOrphanRequest(r)
      PROVE  ServeOrphan(r)
  BY <1>6 DEF ServeOrphanRequest
<1>7. CASE UNCHANGED cvars
  BY <1>7 DEF cvars
<1>8. CASE ServerRestart
  BY <1>8 DEF ServerRestart, Next
<1> QED
  BY <1>1, <1>2, <1>3, <1>4, <1>5, <1>6, <1>7, <1>8 DEF CNext, Next

\* Storing objects beside the log changes nothing about the log: whatever
\* OpHeadsProofs shows of Spec holds of CSpec.
THEOREM LogIsKept == CSpec => Spec
<1>1. CInit => Init
  BY DEF CInit
<1>2. [CNext]_cvars => [Next]_vars
  BY LogStepSimulated
<1> QED
  BY <1>1, <1>2, PTL DEF CSpec, Spec

-----------------------------------------------------------------------------
(* Objects.                                                                *)

\* An object is below itself, and what its references lead to is below it.
LEMMA BelowFacts ==
    ASSUME NEW x \in ObjectId
    PROVE  /\ x \in BelowOf[x] /\ BelowOf[x] \subseteq ObjectId
           /\ \A S : x \in S /\ (\A y \in RefsOf[x] : BelowOf[y] \subseteq S)
                        => BelowOf[x] \subseteq S
<1>1. BelowOf[x] = {x} \cup UNION {BelowOf[y] : y \in RefsOf[x]}
  BY BelowAssumption
<1>2. BelowOf[x] \subseteq ObjectId
  BY ObjectTypes
<1> QED
  BY <1>1, <1>2

\* What the objects of a repository satisfy on their own.
ObjectsClosed == \A x \in Found : BelowOf[x] \subseteq Found

\* Storing an object whose references are stored keeps the store closed.
LEMMA PutKeepsClosed ==
    ASSUME CTypeOK, ObjectsClosed, NEW x \in ObjectId, RefsOf[x] \subseteq Found, PutObject(x)
    PROVE  /\ ObjectsClosed'
           /\ Found \subseteq Found' /\ x \in Found'
           /\ objects' \subseteq ObjectId
<1>1. Found' = Found \cup {x}
  BY DEF PutObject, Found
<1>2. \A y \in RefsOf[x] : BelowOf[y] \subseteq Found'
  BY <1>1 DEF ObjectsClosed
<1>3. BelowOf[x] \subseteq Found'
  BY <1>1, <1>2, BelowFacts
<1>4. \A y \in Found' : BelowOf[y] \subseteq Found'
  BY <1>1, <1>3 DEF ObjectsClosed
<1> QED
  BY <1>1, <1>4 DEF ObjectsClosed, CTypeOK, PutObject

\* The invariant while the server lives, in the parts the steps disturb.
PendingComplete ==
    /\ \A c \in Client :
          pc[c] = "writeView" => CommitsOf[ViewOf[tx[c].op]] \subseteq Found
    /\ \A r \in orphans :
          r.kind = "writeView" => CommitsOf[ViewOf[r.op]] \subseteq Found

LEMMA ObjectsInvParts ==
    ObjectsInv <=> /\ CTypeOK
                   /\ registered =>
                        /\ ObjectsClosed /\ PendingComplete
                        /\ \A c \in Client : known[c] \subseteq Found
                        /\ \A x \in late : RefsOf[x] \subseteq Found
                        /\ \A v \in views : CommitsOf[v] \subseteq Found
  BY DEF ObjectsInv, ObjectsClosed, PendingComplete

-----------------------------------------------------------------------------
(* What the steps of the log do to the requests and the views.             *)

\* A handled request adds the view it carries, if it carries one.
LEMMA ServedViews ==
    ASSUME NEW r, Serve(r)
    PROVE  /\ registered /\ registered' = registered
           /\ \/ views' = views
              \/ r.kind = "writeView" /\ views' = views \cup {ViewOf[r.op]}
  BY DEF Serve, WriteViewRpc, WriteOperationRpc, UpdateOpHeadsRpc

\* No step but the building of an operation starts to send a view.
LEMMA NoNewView ==
    ASSUME TypeOK, NEW c \in Client,
           \/ LogStep(c) \/ StartOrEnd(c) \/ LoadView(c)
           \/ ObjectRefused(c) \/ Die(c)
    PROVE  \A d \in Client :
              pc'[d] = "writeView" => pc[d] = "writeView" /\ tx'[d] = tx[d]
<1> USE DEF TypeOK, Goto, Set
<1>1. CASE LoadSoleHead(c) \/ TakeLock(c) \/ LoadHeads(c) \/ DropAncestors(c)
  BY <1>1 DEF LoadSoleHead, TakeLock, LoadHeads, DropAncestors
<1>2. CASE ReadOperation(c) \/ ReadView(c) \/ WriteView(c) \/ WriteOperation(c)
  BY <1>2 DEF ReadOperation, ReadView, WriteView, WriteOperation
<1>3. CASE UpdateOpHeads(c)
  <2>1. pc' = [pc EXCEPT ![c] = IF tx[c].merging THEN "readView" ELSE "acked"]
    BY <1>3 DEF UpdateOpHeads
  <2>2. tx' = tx
    BY <1>3 DEF UpdateOpHeads
  <2> QED
    BY <2>1, <2>2
<1>4. CASE Continue(c) \/ Begin(c) \/ Finish(c) \/ Fail(c) \/ Abort(c)
  BY <1>4 DEF Continue, Begin, Finish, Fail, Abort
<1>5. CASE ObjectRefused(c)
  BY <1>5 DEF ObjectRefused
<1> QED
  BY <1>1, <1>2, <1>3, <1>4, <1>5 DEF LogStep, StartOrEnd, LoadView, Die

\* These steps leave the server's views alone, or store the view on its way;
\* a request they leave behind is the one the client was sending.
LEMMA LogEffects ==
    ASSUME NEW c \in Client,
           \/ LogStep(c) \/ StartOrEnd(c) \/ LoadView(c)
           \/ ObjectRefused(c) \/ Die(c) \/ Build(c)
    PROVE  /\ registered' = registered
           /\ \/ views' = views
              \/ pc[c] = "writeView" /\ views' = views \cup {ViewOf[tx[c].op]}
           /\ orphans' \subseteq orphans \cup {Request_(c)}
           /\ objects' = objects
<1>1. CASE UNCHANGED server /\ orphans' \subseteq orphans \cup {Request_(c)}
  BY <1>1 DEF server, LogStep, StartOrEnd, LoadView, ObjectRefused, Die, Build
<1>2. CASE WriteView(c) \/ WriteOperation(c) \/ UpdateOpHeads(c)
  <2>1. Serve(Request_(c)) /\ orphans' = orphans
    BY <1>2 DEF WriteView, WriteOperation, UpdateOpHeads
  <2>2. Request_(c).kind = pc[c] /\ Request_(c).op = tx[c].op
    BY DEF Request_
  <2>3. objects' = objects
    BY DEF LogStep, StartOrEnd, LoadView, ObjectRefused, Die, Build
  <2> QED
    BY <2>1, <2>2, <2>3, ServedViews
<1>3. CASE LogStep(c) /\ ~(WriteView(c) \/ WriteOperation(c) \/ UpdateOpHeads(c))
  BY <1>3, <1>1 DEF LogStep, LoadSoleHead, TakeLock, LoadHeads, DropAncestors,
                    ReadOperation, Continue, Quiet
<1>4. CASE StartOrEnd(c) \/ LoadView(c) \/ ObjectRefused(c)
  BY <1>4, <1>1 DEF StartOrEnd, LoadView, ObjectRefused, Begin, Finish, Fail,
                    ReadView, Quiet
<1>5. CASE Die(c) \/ Build(c)
  BY <1>5, <1>1 DEF Die, Build, Abort, Commit, MergeHeads, Quiet
<1> QED
  BY <1>2, <1>3, <1>4, <1>5

-----------------------------------------------------------------------------
(* Every step keeps the invariant.                                         *)

\* A view that can be read names stored objects only.
LEMMA ViewsNameFound ==
    ASSUME ObjectsInv, registered, NEW v \in ViewId, ViewFound(v)
    PROVE  CommitsOf[v] \subseteq Found
<1>1. CASE v \in views
  BY <1>1 DEF ObjectsInv
<1>2. CASE v = RootView
  BY <1>2, WellKnownAssumption DEF Found
<1> QED
  BY <1>1, <1>2 DEF ViewFound

\* Steps of a client that start no view and store no object.
LEMMA LogSteps ==
    ASSUME IInv, ObjectsInv, NEW c \in Client,
           \/ LogStep(c) \/ StartOrEnd(c) \/ LoadView(c)
           \/ ObjectRefused(c) \/ Die(c)
    PROVE  ObjectsInv'
<1>1. TypeOK /\ CTypeOK
  BY DEF IInv, ObjectsInv
<1>2. /\ registered' = registered /\ Found' = Found
      /\ \/ views' = views
         \/ pc[c] = "writeView" /\ views' = views \cup {ViewOf[tx[c].op]}
      /\ orphans' \subseteq orphans \cup {Request_(c)}
      /\ objects' = objects
  BY LogEffects DEF Found
<1>3. \/ UNCHANGED known \/ Forgets(c)
      \/ LoadView(c)
  BY DEF LogStep, StartOrEnd, ObjectRefused, Die
<1>4. \/ UNCHANGED late
      \/ \E x \in ObjectId : Describes(c, x) /\ late' = late \cup {x}
  BY DEF LogStep, StartOrEnd, LoadView, ObjectRefused, Die
<1>5. CTypeOK'
  <2>1. known' \in [Client -> SUBSET ObjectId]
    <3>1. CASE Forgets(c)
      BY <3>1, <1>1, ObjectTypes DEF Forgets, CTypeOK
    <3>2. CASE LoadView(c)
      <4>1. CommitsOf[ViewOf[tx[c].op]] \subseteq ObjectId
        BY <1>1, GraphTypes, ObjectTypes DEF TypeOK, Tx
      <4> QED
        BY <4>1, <3>2, <1>1 DEF LoadView, Knows, CTypeOK
    <3> QED
      BY <1>1, <1>3, <3>1, <3>2 DEF CTypeOK
  <2> QED
    BY <2>1, <1>1, <1>2, <1>4 DEF CTypeOK
<1>6. SUFFICES ASSUME registered
               PROVE  /\ ObjectsClosed' /\ PendingComplete'
                      /\ \A d \in Client : known'[d] \subseteq Found
                      /\ \A x \in late' : RefsOf[x] \subseteq Found
                      /\ \A v \in views' : CommitsOf[v] \subseteq Found
  BY <1>2, <1>5 DEF ObjectsInv, ObjectsClosed, PendingComplete
<1>7. /\ ObjectsClosed /\ PendingComplete
      /\ \A d \in Client : known[d] \subseteq Found
      /\ \A x \in late : RefsOf[x] \subseteq Found
      /\ \A v \in views : CommitsOf[v] \subseteq Found
  BY <1>6, ObjectsInvParts
<1>8. ObjectsClosed'
  BY <1>2, <1>7 DEF ObjectsClosed
<1>9. \A d \in Client : known'[d] \subseteq Found
  <2>1. CASE Forgets(c)
    BY <2>1, <1>1, <1>7 DEF Forgets, CTypeOK, Found
  <2>2. CASE LoadView(c)
    <3>1. ViewFound(ViewOf[tx[c].op]) /\ ViewOf[tx[c].op] \in ViewId
      BY <2>2, <1>1, GraphTypes DEF LoadView, ReadView, TypeOK, Tx
    <3>2. CommitsOf[ViewOf[tx[c].op]] \subseteq Found
      BY <3>1, <1>6, ViewsNameFound
    <3> QED
      BY <3>2, <2>2, <1>1, <1>7 DEF LoadView, Knows, CTypeOK
  <2> QED
    BY <2>1, <2>2, <1>3, <1>7
<1>10. \A x \in late' : RefsOf[x] \subseteq Found
  BY <1>4, <1>7 DEF Describes
<1>11. \A v \in views' : CommitsOf[v] \subseteq Found
  BY <1>2, <1>7 DEF PendingComplete
<1>12. PendingComplete'
  <2>1. \A d \in Client :
           pc'[d] = "writeView" => CommitsOf[ViewOf[tx'[d].op]] \subseteq Found
    BY <1>1, <1>7, NoNewView DEF PendingComplete
  <2>2. Request_(c).kind = pc[c] /\ Request_(c).op = tx[c].op
    BY DEF Request_
  <2>3. \A r \in orphans' :
           r.kind = "writeView" => CommitsOf[ViewOf[r.op]] \subseteq Found
    BY <1>2, <1>7, <2>2 DEF PendingComplete
  <2> QED
    BY <2>1, <2>3, <1>2 DEF PendingComplete
<1> QED
  BY <1>8, <1>9, <1>10, <1>11, <1>12

\* An operation is built whose view names what the client knows.
LEMMA BuildStep ==
    ASSUME IInv, ObjectsInv, NEW c \in Client, Build(c)
    PROVE  ObjectsInv'
<1>1. TypeOK /\ CTypeOK
  BY DEF IInv, ObjectsInv
<1>2. UNCHANGED <<registered, views, orphans, objects, known, late>>
  BY DEF Build, Commit, MergeHeads, Quiet, server
<1>3. Found' = Found
  BY <1>2 DEF Found
<1>4. \A d \in Client \ {c} : pc'[d] = pc[d] /\ tx'[d] = tx[d]
  BY <1>1 DEF Build, Commit, MergeHeads, Goto, Set, TypeOK
<1>5. CommitsOf[ViewOf[tx'[c].op]] \subseteq known[c]
  BY DEF Build
<1>6. PendingComplete' \/ ~registered
  BY <1>2, <1>3, <1>4, <1>5 DEF ObjectsInv, PendingComplete
<1> QED
  BY <1>2, <1>3, <1>6 DEF ObjectsInv, CTypeOK, PendingComplete

\* A client reads or writes an object, or reads the views of divergent heads.
LEMMA ObjectSteps ==
    ASSUME IInv, ObjectsInv, NEW c \in Client,
           WriteObject(c) \/ ReadObject(c) \/ ReadHeadViews(c)
    PROVE  ObjectsInv'
<1>1. TypeOK /\ CTypeOK
  BY DEF IInv, ObjectsInv
<1>2. UNCHANGED <<registered, views, orphans, pc, tx, late>>
  BY DEF WriteObject, ReadObject, ReadHeadViews, vars, server
<1>3. registered => /\ ObjectsClosed /\ PendingComplete
                    /\ \A d \in Client : known[d] \subseteq Found
                    /\ \A x \in late : RefsOf[x] \subseteq Found
                    /\ \A v \in views : CommitsOf[v] \subseteq Found
  BY ObjectsInvParts
<1>4. PICK S \in SUBSET ObjectId :
         /\ Knows(c, S) /\ objects' \subseteq ObjectId
         /\ registered => ObjectsClosed' /\ Found \subseteq Found' /\ S \subseteq Found'
  <2>1. CASE WriteObject(c)
    <3>1. PICK x \in ObjectId : Describes(c, x) /\ PutObject(x) /\ Knows(c, {x})
      BY <2>1 DEF WriteObject
    <3>2. registered /\ RefsOf[x] \subseteq Found
      BY <3>1, <1>3 DEF PutObject, Describes
    <3> QED
      BY <3>1, <3>2, <1>1, <1>3, PutKeepsClosed
  <2>2. CASE ReadObject(c)
    <3>1. PICK x \in known[c] : Knows(c, RefsOf[x])
      BY <2>2 DEF ReadObject
    <3>2. x \in ObjectId /\ objects' = objects
      BY <2>2, <3>1, <1>1 DEF ReadObject, CTypeOK
    <3>3. RefsOf[x] \subseteq BelowOf[x] /\ RefsOf[x] \subseteq ObjectId
      BY <3>2, BelowAssumption, BelowFacts, ObjectTypes
    <3>4. registered => RefsOf[x] \subseteq Found
      BY <3>1, <3>3, <1>3 DEF ObjectsClosed
    <3> QED
      BY <3>1, <3>2, <3>3, <3>4, <1>1, <1>3 DEF ObjectsClosed, Found, CTypeOK
  <2>3. CASE ReadHeadViews(c)
    <3> DEFINE S == UNION {CommitsOf[ViewOf[o]] : o \in Maximal(tx[c].old)}
    <3>1. registered /\ Resolvable(tx[c].old) /\ Knows(c, S) /\ objects' = objects
      BY <2>3 DEF ReadHeadViews
    <3>2. Maximal(tx[c].old) \subseteq OpId
      BY <1>1 DEF Maximal, TypeOK, Tx
    <3>3. \A o \in Maximal(tx[c].old) :
             /\ ViewOf[o] \in ViewId /\ CommitsOf[ViewOf[o]] \subseteq ObjectId
             /\ CommitsOf[ViewOf[o]] \subseteq Found
      <4>1. \A o \in Maximal(tx[c].old) :
               ViewOf[o] \in ViewId /\ CommitsOf[ViewOf[o]] \subseteq ObjectId
        BY <3>2, GraphTypes, ObjectTypes
      <4>2. \A o \in Maximal(tx[c].old) : ViewFound(ViewOf[o])
        BY <3>1 DEF Resolvable
      <4> QED
        BY <4>1, <4>2, <3>1, ViewsNameFound
    <3>4. S \subseteq ObjectId /\ S \subseteq Found
      BY <3>3
    <3> HIDE DEF S
    <3>5. Found' = Found
      BY <3>1 DEF Found
    <3> QED
      BY <3>1, <3>4, <3>5, <1>1, <1>3 DEF ObjectsClosed, CTypeOK
  <2> QED
    BY <2>1, <2>2, <2>3
<1>5. CTypeOK'
  BY <1>1, <1>2, <1>4 DEF CTypeOK, Knows
<1>6. registered => \A d \in Client : known'[d] \subseteq Found'
  BY <1>1, <1>3, <1>4 DEF CTypeOK, Knows
<1>7. registered => PendingComplete'
  BY <1>2, <1>3, <1>4 DEF PendingComplete
<1> QED
  BY <1>2, <1>3, <1>4, <1>5, <1>6, <1>7 DEF ObjectsInv, ObjectsClosed, PendingComplete

\* The server handles what a client that is gone has sent, or restarts.
LEMMA ServerSteps ==
    ASSUME IInv, ObjectsInv,
           \/ \E x \in late : ServeLate(x)
           \/ \E r \in orphans : ServeOrphanRequest(r)
           \/ ServerRestart
    PROVE  ObjectsInv'
<1>1. TypeOK /\ CTypeOK
  BY DEF IInv, ObjectsInv
<1>2. registered => /\ ObjectsClosed /\ PendingComplete
                    /\ \A d \in Client : known[d] \subseteq Found
                    /\ \A x \in late : RefsOf[x] \subseteq Found
                    /\ \A v \in views : CommitsOf[v] \subseteq Found
  BY ObjectsInvParts
<1>3. CASE \E x \in late : ServeLate(x)
  <2>1. PICK x \in late : ServeLate(x)
    BY <1>3
  <2>2. /\ registered /\ x \in ObjectId /\ PutObject(x) /\ late' = late \ {x}
        /\ UNCHANGED <<registered, views, orphans, pc, tx, known>>
    BY <2>1, <1>1 DEF ServeLate, PutObject, CTypeOK, vars, server
  <2>3. ObjectsClosed' /\ Found \subseteq Found' /\ objects' \subseteq ObjectId
    BY <2>2, <1>1, <1>2, PutKeepsClosed
  <2>4. PendingComplete'
    BY <2>2, <2>3, <1>2 DEF PendingComplete
  <2>5. CTypeOK'
    BY <2>2, <2>3, <1>1 DEF CTypeOK
  <2> QED
    BY <2>2, <2>3, <2>4, <2>5, <1>2 DEF ObjectsInv, ObjectsClosed, PendingComplete
<1>4. CASE \E r \in orphans : ServeOrphanRequest(r)
  <2>1. PICK r \in orphans : Serve(r) /\ orphans' = orphans \ {r}
                             /\ UNCHANGED <<pc, tx, objects, known, late>>
    BY <1>4 DEF ServeOrphanRequest, ServeOrphan
  <2>2. /\ registered /\ registered' = registered
        /\ \/ views' = views
           \/ r.kind = "writeView" /\ views' = views \cup {ViewOf[r.op]}
    BY <2>1, ServedViews
  <2>3. Found' = Found
    BY <2>1 DEF Found
  <2>4. \A v \in views' : CommitsOf[v] \subseteq Found
    BY <2>2, <1>2 DEF PendingComplete
  <2>5. PendingComplete'
    BY <2>1, <2>2, <2>3, <1>2 DEF PendingComplete
  <2> QED
    BY <2>1, <2>2, <2>3, <2>4, <2>5, <1>1, <1>2
       DEF ObjectsInv, ObjectsClosed, PendingComplete, CTypeOK
<1>5. CASE ServerRestart
  BY <1>5, <1>1 DEF ServerRestart, Restart, ObjectsInv, CTypeOK
<1> QED
  BY <1>3, <1>4, <1>5

\* Whatever clients and server do, and whenever they die, everything that is
\* stored, known, sent or named by a stored view is complete.
THEOREM ObjectsInvariantHolds == CSpec => []ObjectsInv
<1>1. CInit => ObjectsInv
  <2> SUFFICES ASSUME CInit PROVE ObjectsInv
    OBVIOUS
  <2>1. CTypeOK
    BY ObjectTypes DEF CInit, CTypeOK
  <2>2. Found = WellKnown
    BY DEF CInit, Found
  <2> QED
    BY <2>1, <2>2, WellKnownAssumption DEF CInit, Init, ObjectsInv
<1>2. IInv /\ ObjectsInv /\ [CNext]_cvars => ObjectsInv'
  <2> SUFFICES ASSUME IInv, ObjectsInv, [CNext]_cvars PROVE ObjectsInv'
    OBVIOUS
  <2>1. CASE UNCHANGED cvars
    BY <2>1 DEF cvars, vars, server, ObjectsInv, CTypeOK, Found
  <2> QED
    BY <2>1, LogSteps, BuildStep, ObjectSteps, ServerSteps DEF CNext
<1>3. CSpec => []IInv
  BY LogIsKept, InvariantHolds, PTL
<1> QED
  BY <1>1, <1>2, <1>3, PTL DEF CSpec

\* Every operation that the heads lead to, and every one that was acknowledged
\* with its history, can be checked out completely.
THEOREM HistoryCanBeCheckedOut == CSpec => []CheckoutOfHistory
<1>1. ObjectsInv /\ HistoryReadable /\ AckedIsRecoverable /\ TypeOK => CheckoutOfHistory
  <2> SUFFICES ASSUME ObjectsInv, HistoryReadable, AckedIsRecoverable, TypeOK, registered,
                      NEW o \in Published \cup UNION {AncestorsOf[tx[c].op] :
                                           c \in {d \in Client : pc[d] = "acked"}}
               PROVE  Complete(ViewOf[o])
    BY DEF CheckoutOfHistory
  <2>1. ViewFound(ViewOf[o])
    BY DEF HistoryReadable, AckedIsRecoverable
  <2>2. o \in OpId
    <3>1. HeadSet \subseteq OpId
      BY DEF HeadSet, Members
    <3>2. Published \subseteq OpId
      BY <3>1, ReachFacts DEF Published
    <3>3. \A c \in Client : AncestorsOf[tx[c].op] \subseteq OpId
      BY AncestorFacts DEF TypeOK, Tx
    <3> QED
      BY <3>2, <3>3
  <2>3. CommitsOf[ViewOf[o]] \subseteq Found
    BY <2>1, <2>2, GraphTypes, ViewsNameFound
  <2> QED
    BY <2>3 DEF Complete, ObjectsInv
<1> QED
  BY <1>1, ObjectsInvariantHolds, LogIsKept, HistoryIsReadable, AckedCanBeRecovered,
     TypeCorrect, PTL

=============================================================================
