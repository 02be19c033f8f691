----------------------------- MODULE OpObjects -----------------------------
(***************************************************************************)
(* Views and operations as content-addressed objects: what a client hands  *)
(* to CommitCloudOpStore, what goes over the wire, the id under which the  *)
(* server keeps it, and what a client gets back for an id.                 *)
(***************************************************************************)
EXTENDS Digests

CONSTANTS
    Client,
    Char,       \* the characters of names
    View,       \* the views clients write
    Operation   \* the operations clients write

VARIABLES
    registered, \* the repository's id is in MemoryStore.repos
    views,      \* MemoryStore.views[repo]: view id -> wire view
    operations, \* MemoryStore.ops[repo]: operation id -> wire operation
    heldView,   \* heldView[c]: nothing, or an id c knows and the view it has
    heldOp      \* the same for operations

Name == Seq(Char)
Target == [removes : Seq(Nat), adds : Seq(Nat)]
IsMap(f, K, V) ==
    IsFiniteSet(DOMAIN f) /\ DOMAIN f \subseteq K /\ f \in [DOMAIN f -> V]

IsView(v) ==
    /\ IsFiniteSet(v.heads) /\ v.heads \subseteq Nat
    /\ IsMap(v.wc, Name, Nat) /\ IsMap(v.local, Name, Target)
    /\ IsMap(v.remote, Name \X Name, [target : Target, tracked : BOOLEAN])

IsOperation(o) ==
    /\ o \in [view : Nat, parents : Seq(Nat), text : Name, snapshot : BOOLEAN,
              start : [millis : Int, tz : Int], end : [millis : Int, tz : Int],
              workspace : Seq(Name), attributes : {o.attributes},
              predecessors : {o.predecessors}]
    /\ IsMap(o.attributes, Name, Name)
    /\ Len(o.workspace) <= 1
    /\ \/ o.predecessors = <<>>
       \/ /\ o.predecessors = <<o.predecessors[1]>>
          /\ IsMap(o.predecessors[1], Nat, Seq(Nat))

ASSUME CharAssumption == "@" \in Char

ASSUME ObjectsAssumption ==
    (\A v \in View : IsView(v)) /\ (\A o \in Operation : IsOperation(o))

vars == <<registered, views, operations, heldView, heldOp>>

Nothing == <<>>

-----------------------------------------------------------------------------
(* Conversions.  A view is [heads, wc, local, remote, tags]: a set of      *)
(* commits, and maps from workspace names to commits, from bookmark names  *)
(* to targets, from <<remote, bookmark>> to a target and whether it is     *)
(* tracked, and from tag names to targets.  A target is a merge of         *)
(* possibly absent commits: `adds' has one term more than `removes'.  The   *)
(* workspace and the predecessors of an operation may be missing: they are *)
(* <<>>, or <<w>> and <<map>> from rewritten commits to lists of commits.  *)

Absent == 0
Present(s) == Without(s, Absent)
Padded(s, n) == s \o [i \in 1..(n - Len(s)) |-> Absent]

\* ref_target_to_proto keeps the commits and drops the absent terms.
TargetToProto(t) == [removes |-> Present(t.removes), adds |-> Present(t.adds)]

\* ref_target_from_proto: RefTarget::from_legacy_form pads with absent terms.
TargetFromProto(p) ==
    LET n == IF Len(p.adds) > Len(p.removes) THEN Len(p.adds)
             ELSE Len(p.removes) + 1
    IN  [removes |-> Padded(p.removes, n - 1), adds |-> Padded(p.adds, n)]

\* "{bookmark}@{remote}", and split_once / rsplit_once at the first / last '@'.
RemoteKey(remote, bookmark) == bookmark \o <<"@">> \o remote

SplitAt(key, at) == <<SubSeq(key, at + 1, Len(key)), SubSeq(key, 1, at - 1)>>

SplitFirst(key) ==
    SplitAt(key, CHOOSE i \in DOMAIN key :
                    key[i] = "@" /\ \A j \in 1..(i - 1) : key[j] # "@")

SplitKey(key) ==
    SplitAt(key, CHOOSE i \in DOMAIN key :
                    key[i] = "@" /\ \A j \in (i + 1)..Len(key) : key[j] # "@")

\* view_to_proto.  The heads come out of a HashSet in any order; tags (and
\* the git refs) have no place on the wire.
ViewToProto(v, order) ==
    [heads |-> order,
     wc |-> v.wc,
     local |-> [b \in DOMAIN v.local |-> TargetToProto(v.local[b])],
     remote |->
        [key \in {RemoteKey(rb[1], rb[2]) : rb \in DOMAIN v.remote} |->
            LET ref == v.remote[CHOOSE rb \in DOMAIN v.remote :
                                    RemoteKey(rb[1], rb[2]) = key]
            IN  [target |-> TargetToProto(ref.target), tracked |-> ref.tracked]]]

\* view_from_proto
ViewFromProto(p) ==
    [heads |-> ToSet(p.heads),
     wc |-> p.wc,
     local |-> [b \in DOMAIN p.local |-> TargetFromProto(p.local[b])],
     remote |->
        [rb \in {SplitKey(key) : key \in DOMAIN p.remote} |->
            LET ref == p.remote[RemoteKey(rb[1], rb[2])]
            IN  [target |-> TargetFromProto(ref.target), tracked |-> ref.tracked]],
     tags |-> <<>>]

\* The predecessors leave a BTreeMap in key order.
PredecessorsToProto(map) ==
    LET commits == Sorted(SetToSeq(DOMAIN map))
    IN  [i \in DOMAIN commits |->
            [commit |-> commits[i], predecessors |-> map[commits[i]]]]

\* operation_to_proto.  A flag tells no map from an empty one.
OperationToProto(o) ==
    [view |-> o.view, parents |-> o.parents,
     start |-> o.start.millis, end |-> o.end.millis,
     text |-> o.text, snapshot |-> o.snapshot, workspace |-> o.workspace,
     attributes |-> o.attributes,
     predecessors |-> IF o.predecessors = <<>> THEN <<>>
                      ELSE PredecessorsToProto(o.predecessors[1]),
     predecessorsSet |-> o.predecessors # <<>>]

\* Losing the predecessors on the way back.
PredecessorsLost(list) == <<>>

\* The list of predecessors becomes a map again.
PredecessorsFromProto(list) ==
    [commit \in {e.commit : e \in ToSet(list)} |->
        (CHOOSE e \in ToSet(list) : e.commit = commit).predecessors]

\* operation_from_proto: the time zones did not travel.
OperationFromProto(p) ==
    [view |-> p.view, parents |-> p.parents,
     start |-> [millis |-> p.start, tz |-> 0],
     end |-> [millis |-> p.end, tz |-> 0],
     text |-> p.text, snapshot |-> p.snapshot, workspace |-> p.workspace,
     attributes |-> p.attributes,
     predecessors |-> IF p.predecessorsSet
                      THEN <<PredecessorsFromProto(p.predecessors)>> ELSE <<>>]

-----------------------------------------------------------------------------

Init ==
    /\ registered = TRUE
    /\ views = <<>> /\ operations = <<>>
    /\ heldView = [c \in Client |-> Nothing]
    /\ heldOp = [c \in Client |-> Nothing]

\* write_view on both sides.  Each client writes one view of its own.
WriteView(c) ==
    /\ registered /\ heldView[c] = Nothing
    /\ \E v \in View : \E order \in SetToSeqs(v.heads) :
          LET p == ViewToProto(v, order)
          IN  /\ views' = Put(views, HashView(p), p)
              /\ heldView' = [heldView EXCEPT ![c] = <<HashView(p), v>>]
    /\ UNCHANGED <<registered, operations, heldOp>>

\* read_view on both sides, at an id that some client knows.
ReadView(c) ==
    /\ registered
    /\ \E d \in Client :
          /\ heldView[d] # Nothing /\ heldView[d][1] \in DOMAIN views
          /\ heldView' = [heldView EXCEPT ![c] =
                <<heldView[d][1], ViewFromProto(views[heldView[d][1]])>>]
    /\ UNCHANGED <<registered, views, operations, heldOp>>

\* write_operation on both sides.
WriteOperation(c) ==
    /\ registered /\ heldOp[c] = Nothing
    /\ \E o \in Operation :
          LET p == OperationToProto(o)
          IN  /\ operations' = Put(operations, HashOperation(p), p)
              /\ heldOp' = [heldOp EXCEPT ![c] = <<HashOperation(p), o>>]
    /\ UNCHANGED <<registered, views, heldView>>

\* read_operation on both sides.
ReadOperation(c) ==
    /\ registered
    /\ \E d \in Client :
          /\ heldOp[d] # Nothing /\ heldOp[d][1] \in DOMAIN operations
          /\ heldOp' = [heldOp EXCEPT ![c] =
                <<heldOp[d][1], OperationFromProto(operations[heldOp[d][1]])>>]
    /\ UNCHANGED <<registered, views, operations, heldView>>

\* The server restarts and has lost its maps; clients keep what they hold.
Restart ==
    /\ registered' = FALSE /\ views' = <<>> /\ operations' = <<>>
    /\ UNCHANGED <<heldView, heldOp>>

Next ==
    \/ \E c \in Client :
          WriteView(c) \/ ReadView(c) \/ WriteOperation(c) \/ ReadOperation(c)
    \/ Restart

Spec == Init /\ [][Next]_vars

-----------------------------------------------------------------------------
(* Properties.                                                             *)

\* A view up to what the wire carries: the targets in legacy form, no tags.
Carried(v) ==
    [heads |-> v.heads, wc |-> v.wc,
     local |-> [b \in DOMAIN v.local |-> TargetToProto(v.local[b])],
     remote |-> [rb \in DOMAIN v.remote |->
        [target |-> TargetToProto(v.remote[rb].target),
         tracked |-> v.remote[rb].tracked]]]

\* An operation up to the time zones.
CarriedOperation(o) ==
    [o EXCEPT !.start.tz = 0, !.end.tz = 0]

\* The rewritten commits of an operation, each with its predecessors after it,
\* in one list that does not say where the next rewritten commit begins.
Rewrites(o) ==
    IF o.predecessors = <<>> THEN <<>>
    ELSE LET list == PredecessorsToProto(o.predecessors[1])
         IN  FlattenSeq([i \in DOMAIN list |->
                            <<list[i].commit>> \o list[i].predecessors])

\* What an operation's id tells of it: the same, with the bare list of rewrites.
ToldById(o) ==
    [CarriedOperation(o) EXCEPT !.predecessors = Rewrites(o)]

Held(held) == {held[c] : c \in {d \in Client : held[d] # Nothing}}

\* id is what a client gets that writes a view, or an operation, like w.
WrittenView(id, w) ==
    \E v \in View :
        /\ Carried(w) = Carried(v)
        /\ \E order \in SetToSeqs(v.heads) : id = HashView(ViewToProto(v, order))
WrittenOperation(id, w) ==
    \E o \in Operation :
        /\ CarriedOperation(w) = CarriedOperation(o)
        /\ id = HashOperation(OperationToProto(o))

\* Whatever a client wrote or read under an id is, up to what the wire carries,
\* a view or an operation that clients write and that gets that very id: no
\* remote, bookmark, commit or predecessor is another one after the way to the
\* server and back.
HeldWasWritten ==
    /\ \A h \in Held(heldView) : WrittenView(h[1], h[2])
    /\ \A h \in Held(heldOp) : WrittenOperation(h[1], h[2])

\* hash_view computes a unique ViewId (hash_utils.rs): whatever two clients
\* wrote or read under one id is the same view.
IdNamesOneView ==
    \A a, b \in Held(heldView) : a[1] = b[1] => Carried(a[2]) = Carried(b[2])

\* A view that was read and is written again, by any client and with its heads
\* in any order, gets the id it was read under: nothing the conversions change
\* is hashed and no order of a map or a list on the wire shows in the id.
ReadBackKeepsViewId ==
    \A id \in DOMAIN views :
        LET v == ViewFromProto(views[id])
        IN  \A order \in SetToSeqs(v.heads) : HashView(ViewToProto(v, order)) = id

\* What two clients hold under one operation id is the same operation, up to
\* the time zones, to how the list of rewritten commits and predecessors falls
\* into entries, and to no map of predecessors or an empty one (hash_operation
\* feeds the list without its lengths and not the flag): no view, parent, name,
\* attribute or commit is taken for another.
IdNamesOneOperation ==
    \A a, b \in Held(heldOp) : a[1] = b[1] => ToldById(a[2]) = ToldById(b[2])

\* An operation that was read and is written again gets the id it had, with a
\* map of predecessors, an empty one or none.
ReadBackKeepsOperationId ==
    \A id \in DOMAIN operations :
        HashOperation(OperationToProto(OperationFromProto(operations[id]))) = id

\* op_store.proto says ReadView serves to look up workspace heads, bookmarks
\* and tags: whoever holds a view under an id holds the tags it was made with.
IdNamesTags ==
    \A a, b \in Held(heldView) : a[1] = b[1] => a[2].tags = b[2].tags

=============================================================================
