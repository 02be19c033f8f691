---------------------------- MODULE MCOpObjects ----------------------------
(***************************************************************************)
(* Small sets of views and operations for OpObjects.                       *)
(***************************************************************************)
EXTENDS OpObjects

CONSTANTS c1, c2

a == <<"a">>    \* a bookmark
at == <<"a", "@", "b">>  \* a bookmark with an '@' in its name
o == <<"o">>    \* a remote
w == <<"w">>    \* a workspace

At(commit) == [removes |-> <<>>, adds |-> <<commit>>]
Maps(keys, values) == UNION {[ks -> values] : ks \in SUBSET keys}

MkView(heads, wc, local, remote, tags) ==
    [heads |-> heads, wc |-> wc, local |-> local, remote |-> remote, tags |-> tags]

RemoteRefs == [target : {At(1), At(2)}, tracked : BOOLEAN]

\* No conflict, no tag, and no workspace named like a bookmark.
PlainViews ==
    {MkView(h, wc, l, r, <<>>) :
        h \in {{1}, {1, 2}}, wc \in Maps({w}, {1, 2}),
        l \in Maps({a}, {At(1), At(2)}), r \in Maps({<<o, at>>}, RemoteRefs)}

\* Bookmarks that are conflicted: added twice, or moved here and deleted there.
AddedTwice == [removes |-> <<Absent>>, adds |-> <<1, 2>>]
MovedAndDeleted == [removes |-> <<1>>, adds |-> <<Absent, 2>>]
ConflictedViews ==
    {MkView({1, 2}, <<>>, a :> t, <<>>, <<>>) :
        t \in {AddedTwice, MovedAndDeleted, At(1), At(2)}}

TaggedViews ==
    {MkView(h, wc, <<>>, <<>>, tags) :
        h \in {{1}, {1, 2}}, wc \in Maps({w}, {1, 2}), tags \in Maps({a}, {At(1)})}

\* No map of predecessors, an empty one, one rewritten commit, or two; the last
\* two maps are fed to the hash alike.
Predecessors ==
    {<<>>, << <<>> >>, <<3 :> <<1>> >>, <<3 :> <<1, 2>> >>,
     <<3 :> <<>> @@ 4 :> <<1>> >>, <<3 :> <<4, 1>> >>}

PlainOperations ==
    {[view |-> 1, parents |-> ps, text |-> <<"x">>, snapshot |-> s,
      start |-> [millis |-> 1000, tz |-> tz], end |-> [millis |-> 1500, tz |-> tz],
      workspace |-> ws, attributes |-> attrs, predecessors |-> pred] :
        ps \in {<<1>>, <<1, 2>>}, s \in {TRUE}, tz \in {0, 60},
        ws \in {<<>>, <<w>>}, attrs \in Maps({a}, {<<"x">>}),
        pred \in Predecessors}

\* The maps of views and of operations have nothing to do with each other: no
\* operation touches both, and a behaviour of both is one of each.
SeparateNext ==
    \/ operations = <<>> /\ \E c \in Client : WriteView(c) \/ ReadView(c)
    \/ views = <<>> /\ \E c \in Client : WriteOperation(c) \/ ReadOperation(c)
    \/ Restart

SeparateSpec == Init /\ [][SeparateNext]_vars

=============================================================================
