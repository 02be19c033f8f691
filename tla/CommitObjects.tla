--------------------------- MODULE CommitObjects ---------------------------
(***************************************************************************)
(* Files, trees and commits: clients that write a snapshot bottom up       *)
(* through CommitCloudBackend, the server's three maps under the ids it    *)
(* computes, and clients that walk a commit they heard of down to its      *)
(* files.  An answer may be lost after the server has done its part.       *)
(***************************************************************************)
EXTENDS Digests

CONSTANTS
    Client,
    Content,     \* contents of files
    Signature,   \* [name, millis, tz]; one stands for author and committer
    Description,
    MaxParents,  \* bound on the parents of a commit
    MaxFiles, MaxTrees, MaxCommits   \* bounds on what the server comes to hold

VARIABLES
    registered,  \* the repository's id is in MemoryStore.repos
    files,       \* MemoryStore.files[repo]: id -> contents
    trees,       \* MemoryStore.trees[repo]: id -> set of entries
    commits,     \* MemoryStore.commits[repo]: id -> wire commit
    known        \* known[c]: the ids the server or another client told c

vars == <<registered, files, trees, commits, known>>

-----------------------------------------------------------------------------
(* Conversions.  An entry is [name, mode, id, copy]; jj gives a new file   *)
(* no copy id.                                                             *)

NoCopy == ""
NoId == <<>>

\* tree_entry_from_proto: a copy id that is not 20 bytes long reads as zeros.
EntryFromProto(e) ==
    IF e.mode # "tree" /\ e.copy = NoCopy THEN [e EXCEPT !.copy = RootCopy] ELSE e

\* commit_to_proto and commit_from_proto.
CommitToProto(c) ==
    [id |-> NoId, trees |-> c.trees, parents |-> c.parents,
     committer |-> c.committer, description |-> c.description, change |-> c.change]
CommitFromProto(p) ==
    [trees |-> p.trees, parents |-> p.parents, committer |-> p.committer,
     description |-> p.description, change |-> p.change]

\* read_tree, read_commit: the well-known objects need no request.
TreeFound(id) == id = EmptyTree \/ (registered /\ id \in DOMAIN trees)
CommitFound(id) == id = RootCommit \/ (registered /\ id \in DOMAIN commits)
FileFound(id) == registered /\ id \in DOMAIN files

ReadTreeEntries(id) ==
    IF id = EmptyTree THEN {} ELSE {EntryFromProto(e) : e \in trees[id]}

RootParents == <<>>
ReadCommitParents(id) ==
    IF id = RootCommit THEN RootParents ELSE CommitFromProto(commits[id]).parents

\* The id under which the server puts a commit: the caller's, when it names one.
CommitId(p) == IF p.id = NoId THEN HashCommit(p) ELSE p.id

-----------------------------------------------------------------------------

Kind(id) == id[1]
Known(c, kind) == {id \in known[c] : Kind(id) = kind}
Room(map, id, max) == id \in DOMAIN map \/ Cardinality(DOMAIN map) < max

\* The client hears the answer, or does not.
Heard(c, ids) ==
    \/ known' = [known EXCEPT ![c] = @ \cup ids]
    \/ UNCHANGED known

Init ==
    /\ registered = TRUE
    /\ files = <<>> /\ trees = <<>> /\ commits = <<>>
    /\ known = [c \in Client |-> {}]

WriteFile(c) ==
    /\ registered
    /\ \E content \in Content :
          /\ Room(files, HashBlob(content), MaxFiles)
          /\ files' = Put(files, HashBlob(content), content)
          /\ Heard(c, {HashBlob(content)})
    /\ UNCHANGED <<registered, trees, commits>>

\* The entries a client can name: files and trees whose ids it has.  The empty
\* tree is a directory without files, which jj does not keep in a tree.
Entries(c) ==
    [name : {"a"}, mode : {"file", "executable"}, id : Known(c, "blob"),
     copy : {NoCopy, RootCopy}]
    \cup [name : {"d"}, mode : {"tree"}, id : Known(c, "tree"), copy : {NoCopy}]

\* One entry of each name.
TreesOver(entries) ==
    {es \in kSubset(1, entries) \cup kSubset(2, entries) :
        \A e, f \in es : e.name = f.name => e = f}

\* The slip of going on with an id that no answer has confirmed.
WriteTreeUnanswered(c) ==
    /\ registered
    /\ \E es \in TreesOver(Entries(c)) :
          /\ Room(trees, HashTree(es), MaxTrees)
          /\ trees' = Put(trees, HashTree(es), es) \/ trees' = trees
          /\ Heard(c, {HashTree(es)})
    /\ UNCHANGED <<registered, files, commits>>

WriteTree(c) ==
    /\ registered
    /\ \E es \in TreesOver(Entries(c)) :
          /\ Room(trees, HashTree(es), MaxTrees)
          /\ trees' = Put(trees, HashTree(es), es)
          /\ Heard(c, {HashTree(es)})
    /\ UNCHANGED <<registered, files, commits>>

\* The commits a client can build: a root tree, or a conflict between three,
\* and parents it knows, several of a merge, in any order and the root among
\* them as anywhere: unlike jj's Git backend, this one refuses no such merge.
\* Predecessors and conflict labels are left out: like
\* the further trees of a conflict they are stored and not hashed.
CommitsOf(c) ==
    LET roots == Known(c, "tree") \cup {EmptyTree}
        ancestors == Known(c, "commit") \cup {RootCommit}
        conflicts == {<<t, EmptyTree, u>> : t, u \in Known(c, "tree")}
    IN  [trees : {<<t>> : t \in roots} \cup {m \in conflicts : m[1] # m[3]},
         parents : SeqOf(ancestors, MaxParents) \ {<<>>},
         committer : Signature, description : Description, change : {"x"}]

WriteCommit(c) ==
    /\ registered
    /\ \E commit \in CommitsOf(c) :
          LET p == CommitToProto(commit)
              id == CommitId(p)
          IN  /\ Room(commits, id, MaxCommits)
              /\ commits' = Put(commits, id, [p EXCEPT !.id = id])
              /\ Heard(c, {id})
    /\ UNCHANGED <<registered, files, trees>>

\* What reading an object tells a client about others.
ReadTree(c) ==
    \E id \in Known(c, "tree") :
        /\ TreeFound(id)
        /\ known' = [known EXCEPT ![c] = @ \cup {e.id : e \in ReadTreeEntries(id)}]
        /\ UNCHANGED <<registered, files, trees, commits>>

ReadCommit(c) ==
    \E id \in Known(c, "commit") :
        /\ CommitFound(id)
        /\ LET commit == CommitFromProto(commits[id])
           IN  known' = [known EXCEPT ![c] = @ \cup
                    ((ToSet(commit.trees) \cup ToSet(commit.parents))
                     \ {EmptyTree, RootCommit})]
        /\ UNCHANGED <<registered, files, trees, commits>>

\* A client reads the view that another client has put its commit into.
Learn(c) ==
    /\ registered
    /\ \E d \in Client : \E id \in Known(d, "commit") :
          known' = [known EXCEPT ![c] = @ \cup {id}]
    /\ UNCHANGED <<registered, files, trees, commits>>

\* The maps are lost; clients keep the ids they know.
Restart ==
    /\ registered' = FALSE /\ files' = <<>> /\ trees' = <<>> /\ commits' = <<>>
    /\ UNCHANGED known

Next ==
    \/ \E c \in Client :
          WriteFile(c) \/ WriteTree(c) \/ WriteCommit(c)
          \/ ReadTree(c) \/ ReadCommit(c) \/ Learn(c)
    \/ Restart

Spec == Init /\ [][Next]_vars

-----------------------------------------------------------------------------
(* Properties.                                                             *)

\* The trees a checkout of root reads: root, and what the trees it reads name.
\* subtrees[t] are the trees that a stored tree t names.
Below(root, subtrees) ==
    LET all == {root} \cup UNION {subtrees[t] : t \in DOMAIN subtrees}
        closed == {S \in SUBSET all :
                      /\ root \in S
                      /\ \A t \in S \cap DOMAIN subtrees : subtrees[t] \subseteq S}
    IN  {x \in all : \A S \in closed : x \in S}

Subtrees ==
    [t \in DOMAIN trees |->
        {e.id : e \in {f \in ReadTreeEntries(t) : f.mode = "tree"}}]

\* What a checkout writes for an entry.  A directory is written from its tree.
Written(e) ==
    <<e.name, e.mode, IF e.mode = "tree" THEN e.id ELSE files[e.id]>>

\* What checking a commit out puts on disk, directory by directory.
CheckedOut(id) ==
    [t \in Below(Head(commits[id].trees), Subtrees) |->
        {Written(e) : e \in ReadTreeEntries(t)}]

\* Only what clients were told of can be missing after a restart: while the
\* server runs, any client that has the id of a commit can read the commit, its
\* parents, and every tree and file under each of its root trees.
CheckoutComplete ==
    registered =>
        \A c \in Client : \A id \in Known(c, "commit") :
            /\ CommitFound(id)
            /\ \A p \in ToSet(ReadCommitParents(id)) : CommitFound(p)
            /\ \A root \in ToSet(commits[id].trees) :
                  \A t \in Below(root, Subtrees) :
                     /\ TreeFound(t)
                     /\ \A e \in ReadTreeEntries(t) :
                           e.mode # "tree" => FileFound(e.id)

\* While the server runs, the files under a stored commit's first root tree and
\* its parents other than the root never change, whatever is written over the
\* commit or its trees.  The root does come and go: it is not hashed, and [X]
\* and [X, root] are written over each other.
CheckoutStable ==
    [][registered' =>
        \A id \in DOMAIN commits :
            /\ CheckedOut(id)' = CheckedOut(id)
            /\ WithoutRoot(commits'[id].parents) =
                   WithoutRoot(commits[id].parents)]_vars

\* The parents of commits, merges included, lead to the root: no commit is among
\* its ancestors, though the lists of parents may be overwritten.
AncestryAcyclic ==
    \A ids \in SUBSET DOMAIN commits :
        ids # {} => \E id \in ids : ToSet(commits[id].parents) \cap ids = {}

\* A tree or a commit that was read and is written again gets its id back.
ReadBackKeepsId ==
    /\ \A id \in DOMAIN trees : HashTree(ReadTreeEntries(id)) = id
    /\ \A id \in DOMAIN commits :
          CommitId(CommitToProto(CommitFromProto(commits[id]))) = id

-----------------------------------------------------------------------------
(* The inductive invariant.                                                *)

\* A restarted server holds nothing.
RestartInv ==
    /\ registered \in BOOLEAN
    /\ ~registered => DOMAIN files = {} /\ DOMAIN trees = {} /\ DOMAIN commits = {}

FileInv ==
    \A id \in DOMAIN files : files[id] \in Content /\ id = HashBlob(files[id])

\* A stored tree names stored files and trees only, and lies under its hash.
StoredEntry ==
    [name : {"a"}, mode : {"file", "executable"}, id : DOMAIN files,
     copy : {NoCopy, RootCopy}]
    \cup [name : {"d"}, mode : {"tree"}, id : DOMAIN trees, copy : {NoCopy}]

TreeInv ==
    \A id \in DOMAIN trees :
        /\ trees[id] # {} /\ trees[id] \subseteq StoredEntry
        /\ id = HashTree(trees[id])

\* A stored commit names stored trees and parents that are stored or the root,
\* and lies under its hash.
StoredRoots ==
    {<<t>> : t \in DOMAIN trees \cup {EmptyTree}}
    \cup {<<t, EmptyTree, u>> : t, u \in DOMAIN trees}

CommitInv ==
    \A id \in DOMAIN commits :
        /\ commits[id] \in
              [id : {id}, trees : StoredRoots,
               parents : Seq(DOMAIN commits \cup {RootCommit}),
               committer : Signature, description : Description, change : {"x"}]
        /\ id = HashCommit(commits[id])

\* Clients know ids of the server's only, which it holds until it restarts.
KnownInv ==
    /\ DOMAIN known = Client
    /\ registered =>
          \A c \in Client :
              known[c] \subseteq DOMAIN files \cup DOMAIN trees \cup DOMAIN commits

\* The server holds what it was told of, bottom up: what an object names was
\* there before it, and what is written over an object has the same id and so
\* names the same.
ObjectInv ==
    /\ RestartInv /\ FileInv /\ TreeInv /\ CommitInv /\ KnownInv
    /\ AncestryAcyclic

=============================================================================
