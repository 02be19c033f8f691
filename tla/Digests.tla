------------------------------ MODULE Digests ------------------------------
(***************************************************************************)
(* The ids the server computes (server/src/hash_utils.rs).  SHA-1 is taken *)
(* to be injective, so an id is modelled by what is fed to the hash:       *)
(*   - operations and views feed length-prefixed byte strings and raw      *)
(*     bytes, modelled as a sequence of tokens;                            *)
(*   - commits, trees and blobs are fed in git's object format, which can  *)
(*     be parsed back, and are modelled by the record of what is fed.  One *)
(*     signature stands for the author's and the committer's.              *)
(* Commit ids of views and operations are numbers, names are sequences of  *)
(* characters; a name is never the same byte string as an id.              *)
(***************************************************************************)
EXTENDS Integers, SequencesExt, TLC

\* The elements of s that are not x.
Without(s, x) ==
    FlattenSeq([i \in DOMAIN s |-> IF s[i] = x THEN <<>> ELSE <<s[i]>>])

\* insert of a map on the server: the entry of an id is replaced.
Put(map, id, value) ==
    [x \in DOMAIN map \cup {id} |-> IF x = id THEN value ELSE map[x]]

-----------------------------------------------------------------------------
(* Token streams.                                                          *)

\* append_length_prefixed_bytes, append_length_prefixed_str: the prefix
\* delimits one string, but not the list that the string belongs to.
Id(i) == <<"id", i>>
Str(n) == <<"str", n>>
Ids(s) == [i \in DOMAIN s |-> Id(s[i])]

\* Fixed-width bytes, without a prefix.
Raw(x) == <<"raw", x>>

\* The slip of not sorting.
AsGiven(s) == s

\* At i: the element that fewer than i are below and at least i are not above.
Sorted(s) ==
    [i \in DOMAIN s |->
        CHOOSE x \in ToSet(s) :
            /\ Cardinality({j \in DOMAIN s : s[j] < x}) < i
            /\ i <= Cardinality({j \in DOMAIN s : s[j] <= x})]

\* A map is fed entry by entry, each name before what is fed of its value, in
\* the order of the names (BTreeMap).  Which order that is does not matter: it
\* depends on nothing but the names.
FeedMap(fed) ==
    LET keys == SetToSeq(DOMAIN fed)
    IN  FlattenSeq([i \in DOMAIN keys |-> <<Str(keys[i])>> \o fed[keys[i]]])

\* append_ref_target: the removed ids, then the added ids.
FeedTarget(t) == Ids(Sorted(t.removes)) \o Ids(Sorted(t.adds))

\* Without the state of tracking.
FeedRemoteUntracked(ref) == FeedTarget(ref.target)

FeedRemote(ref) == <<Raw(ref.tracked)>> \o FeedTarget(ref.target)

HashView(v) ==
    Ids(Sorted(v.heads))
    \o FeedMap([w \in DOMAIN v.wc |-> <<Id(v.wc[w])>>])
    \o FeedMap([b \in DOMAIN v.local |-> FeedTarget(v.local[b])])
    \o FeedMap([key \in DOMAIN v.remote |-> FeedRemote(v.remote[key])])

\* Without the predecessors.
FeedNothing(pred) == <<>>

FeedPredecessors(pred) == <<Id(pred.commit)>> \o Ids(pred.predecessors)

HashOperation(o) ==
    <<Id(o.view)>> \o Ids(o.parents)
    \o <<Raw(o.start), Raw(o.end), Str(o.text), Raw(o.snapshot)>>
    \o [i \in DOMAIN o.workspace |-> Str(o.workspace[i])]
    \o FeedMap([a \in DOMAIN o.attributes |-> <<Str(o.attributes[a])>>])
    \o FlattenSeq([i \in DOMAIN o.predecessors |->
                      FeedPredecessors(o.predecessors[i])])

-----------------------------------------------------------------------------
(* Git objects.  An id says what kind of object it names.                  *)

RootCommit == <<"rootCommit">>     \* ROOT_COMMIT_ID_BYTES
EmptyTree == <<"emptyTree">>       \* EMPTY_TREE_ID_BYTES
RootCopy == "zeros"                \* ROOT_COMMIT_ID_BYTES used as a copy id

\* compute_git_blob_hash
HashBlob(content) == <<"blob", content>>

\* With the copy id among what is hashed.
HashTreeWithCopies(entries) == <<"tree", entries>>

\* compute_git_tree_hash: the mode, the name and the id of each entry; git's
\* order makes the order of the entries irrelevant.  The copy id is left out.
HashTree(entries) ==
    IF entries = {} THEN EmptyTree
    ELSE <<"tree", {[name |-> e.name, mode |-> e.mode, id |-> e.id] : e \in entries}>>

\* signature_to_git: whole seconds, and no empty name.
GitSignature(s) ==
    [name |-> IF s.name = "" THEN "JJ_EMPTY_STRING" ELSE s.name,
     secs |-> s.millis \div 1000, tz |-> s.tz]

\* compute_git_commit_hash without the parents.
HashOrphanCommit(c) ==
    <<"commit", [tree |-> Head(c.trees), parents |-> <<>>,
                 committer |-> GitSignature(c.committer),
                 change |-> c.change, message |-> c.description]>>

\* The parents that are fed to the hash.
WithoutRoot(parents) == Without(parents, RootCommit)

\* With the first parent only, as the first tree only is hashed.
HashMainline(c) ==
    LET fed == WithoutRoot(c.parents)
    IN  <<"commit", [tree |-> Head(c.trees),
                     parents |-> SubSeq(fed, 1, IF fed = <<>> THEN 0 ELSE 1),
                     committer |-> GitSignature(c.committer),
                     change |-> c.change, message |-> c.description]>>

\* compute_git_commit_hash: the first tree only, the parents without the root;
\* neither predecessors nor conflict labels nor a signature.
HashCommit(c) ==
    <<"commit", [tree |-> Head(c.trees),
                 parents |-> WithoutRoot(c.parents),
                 committer |-> GitSignature(c.committer),
                 change |-> c.change, message |-> c.description]>>

=============================================================================
