------------------------ MODULE CommitObjectsProofs ------------------------
(***************************************************************************)
(* Proofs about CommitObjects, for any clients, contents, signatures and   *)
(* bounds, for trees of any depth and merges of any number of parents.     *)
(***************************************************************************)
EXTENDS CommitObjects, DigestsProofs

-----------------------------------------------------------------------------
(* The trees below a root.                                                 *)

\* A set that holds the root and the subtrees of its members holds every tree
\* below the root.
LEMMA BelowSmallest ==
    ASSUME NEW root, NEW subtrees, NEW S,
           root \in S, \A t \in S \cap DOMAIN subtrees : subtrees[t] \subseteq S
    PROVE  Below(root, subtrees) \subseteq S
<1> DEFINE all == {root} \cup UNION {subtrees[t] : t \in DOMAIN subtrees}
<1>1. S \cap all \in SUBSET all
  OBVIOUS
<1>2. root \in S \cap all
  OBVIOUS
<1>3. \A t \in (S \cap all) \cap DOMAIN subtrees : subtrees[t] \subseteq S \cap all
  OBVIOUS
<1>4. QED
  BY <1>1, <1>2, <1>3 DEF Below

\* The trees below a root are themselves such a set.
LEMMA BelowClosed ==
    ASSUME NEW root, NEW subtrees
    PROVE  /\ root \in Below(root, subtrees)
           /\ \A t \in Below(root, subtrees) \cap DOMAIN subtrees :
                 subtrees[t] \subseteq Below(root, subtrees)
<1>1. root \in Below(root, subtrees)
  BY DEF Below
<1>2. ASSUME NEW t \in Below(root, subtrees) \cap DOMAIN subtrees, NEW x \in subtrees[t]
      PROVE  x \in Below(root, subtrees)
  BY <1>2 DEF Below
<1>3. QED
  BY <1>1, <1>2

\* What lies below a root depends on the trees there and on no other.
LEMMA BelowSame ==
    ASSUME NEW root, NEW f, NEW g,
           \A t \in Below(root, f) :
              /\ t \in DOMAIN f <=> t \in DOMAIN g
              /\ t \in DOMAIN f => f[t] = g[t]
    PROVE  Below(root, f) = Below(root, g)
<1>1. Below(root, g) \subseteq Below(root, f)
  <2>1. \A t \in Below(root, f) \cap DOMAIN g : g[t] \subseteq Below(root, f)
    BY BelowClosed
  <2>2. root \in Below(root, f)
    BY BelowClosed
  <2>3. QED
    BY <2>1, <2>2, BelowSmallest
<1>2. Below(root, f) \subseteq Below(root, g)
  <2>1. \A t \in Below(root, g) \cap DOMAIN f : f[t] \subseteq Below(root, g)
    BY <1>1, BelowClosed
  <2>2. root \in Below(root, g)
    BY BelowClosed
  <2>3. QED
    BY <2>1, <2>2, BelowSmallest
<1>3. QED
  BY <1>1, <1>2

-----------------------------------------------------------------------------
(* Hashes.                                                                 *)

\* Commits with the same hash have the same parents, the root aside, and the same
\* first tree.
LEMMA SameCommit ==
    ASSUME NEW a, NEW b, HashCommit(a) = HashCommit(b)
    PROVE  WithoutRoot(a.parents) = WithoutRoot(b.parents) /\ Head(a.trees) = Head(b.trees)
<1> DEFINE fed(c) == [tree |-> Head(c.trees), parents |-> WithoutRoot(c.parents),
                      committer |-> GitSignature(c.committer),
                      change |-> c.change, message |-> c.description]
<1>1. fed(a) = fed(b)
  BY DEF HashCommit
<1>2. \A c : fed(c).parents = WithoutRoot(c.parents) /\ fed(c).tree = Head(c.trees)
  OBVIOUS
<1> HIDE DEF fed
<1>3. QED
  BY <1>1, <1>2

\* The parents that count for the ancestry of a commit.
Ancestors(parents) == ToSet(parents) \ {RootCommit}

LEMMA SameAncestors ==
    ASSUME NEW T, NEW p \in Seq(T), NEW q \in Seq(T), WithoutRoot(p) = WithoutRoot(q)
    PROVE  Ancestors(p) = Ancestors(q)
BY WithoutKeepsOthers DEF WithoutRoot, Ancestors

\* Trees with the same hash have the same entries but for the copy ids.
LEMMA SameTree ==
    ASSUME NEW A, NEW B, A # {}, B # {}, HashTree(A) = HashTree(B)
    PROVE  \A e \in A : \E f \in B : f.name = e.name /\ f.mode = e.mode /\ f.id = e.id
<1> DEFINE fed(e) == [name |-> e.name, mode |-> e.mode, id |-> e.id]
<1>1. {fed(e) : e \in A} = {fed(e) : e \in B}
  BY DEF HashTree
<1>2. TAKE e \in A
<1>3. PICK f \in B : fed(f) = fed(e)
  <2> HIDE DEF fed
  <2>1. QED
    BY <1>1
<1>4. f.name = e.name /\ f.mode = e.mode /\ f.id = e.id
  BY <1>3
<1>5. QED
  BY <1>4

\* An id says what it names.
LEMMA Kinds ==
    /\ Kind(RootCommit) = "rootCommit" /\ Kind(EmptyTree) = "emptyTree"
    /\ \A content : Kind(HashBlob(content)) = "blob"
    /\ \A entries : entries # {} => Kind(HashTree(entries)) = "tree"
    /\ \A commit : Kind(HashCommit(commit)) = "commit"
BY DEF Kind, RootCommit, EmptyTree, HashBlob, HashTree, HashCommit

-----------------------------------------------------------------------------
(* What the invariant says of ids, and of maps that grow.                  *)

\* The server keeps every object among its kind, so a client that has an id of
\* that kind has one of the server's.
LEMMA StoredKinds ==
    ASSUME ObjectInv
    PROVE  /\ \A id \in DOMAIN files : Kind(id) = "blob"
           /\ \A id \in DOMAIN trees : Kind(id) = "tree"
           /\ \A id \in DOMAIN commits : Kind(id) = "commit"
BY Kinds DEF ObjectInv, FileInv, TreeInv, CommitInv

LEMMA KnownStored ==
    ASSUME ObjectInv, registered, NEW c \in Client
    PROVE  /\ Known(c, "blob") \subseteq DOMAIN files
           /\ Known(c, "tree") \subseteq DOMAIN trees
           /\ Known(c, "commit") \subseteq DOMAIN commits
<1>1. known[c] \subseteq DOMAIN files \cup DOMAIN trees \cup DOMAIN commits
  BY DEF ObjectInv, KnownInv
<1>2. QED
  BY <1>1, StoredKinds DEF Known

\* What Put does to a map.
LEMMA PutFacts ==
    ASSUME NEW map, NEW id, NEW value
    PROVE  /\ DOMAIN Put(map, id, value) = DOMAIN map \cup {id}
           /\ Put(map, id, value)[id] = value
           /\ \A x \in DOMAIN map \ {id} : Put(map, id, value)[x] = map[x]
BY DEF Put

\* The stored trees still name stored objects when the maps have grown.
LEMMA EntriesGrow ==
    ASSUME DOMAIN files \subseteq DOMAIN files', DOMAIN trees \subseteq DOMAIN trees'
    PROVE  StoredEntry \subseteq StoredEntry'
BY DEF StoredEntry

\* The stored commits still do.
LEMMA CommitsGrow ==
    ASSUME CommitInv, UNCHANGED commits, DOMAIN trees \subseteq DOMAIN trees'
    PROVE  CommitInv'
<1>1. StoredRoots \subseteq StoredRoots'
  BY DEF StoredRoots
<1>2. QED
  BY <1>1 DEF CommitInv

\* A client that hears the id of a stored object knows stored objects only.
LEMMA HeardStored ==
    ASSUME KnownInv, registered,
           DOMAIN files \subseteq DOMAIN files', DOMAIN trees \subseteq DOMAIN trees',
           DOMAIN commits \subseteq DOMAIN commits',
           NEW c \in Client, NEW ids,
           ids \subseteq DOMAIN files' \cup DOMAIN trees' \cup DOMAIN commits',
           Heard(c, ids)
    PROVE  KnownInv'
<1>1. DOMAIN known' = Client
  BY DEF Heard, KnownInv
<1>2. \A d \in Client : known'[d] \subseteq known[d] \cup ids
  BY DEF Heard, KnownInv
<1>3. QED
  BY <1>1, <1>2 DEF KnownInv

\* The root is never stored, so it does not matter where it is among parents.
LEMMA AncestorsMatter ==
    ASSUME RootCommit \notin DOMAIN commits
    PROVE  AncestryAcyclic <=>
               \A ids \in SUBSET DOMAIN commits :
                   ids # {} => \E id \in ids : Ancestors(commits[id].parents) \cap ids = {}
BY DEF AncestryAcyclic, Ancestors

\* The commits without cycles stay so when their parents stay the same.
LEMMA SameAncestry ==
    ASSUME AncestryAcyclic, UNCHANGED commits
    PROVE  AncestryAcyclic'
BY DEF AncestryAcyclic

-----------------------------------------------------------------------------
(* Every operation keeps the invariant.                                    *)

LEMMA InitKeeps == Init => ObjectInv
<1> SUFFICES ASSUME Init PROVE ObjectInv
  OBVIOUS
<1>1. DOMAIN files = {} /\ DOMAIN trees = {} /\ DOMAIN commits = {}
  BY DEF Init
<1>2. QED
  BY <1>1 DEF Init, ObjectInv, RestartInv, FileInv, TreeInv, CommitInv, KnownInv, AncestryAcyclic

LEMMA WriteFileKeeps ==
    ASSUME ObjectInv, NEW c \in Client, WriteFile(c)
    PROVE  ObjectInv'
<1>1. PICK content \in Content :
          /\ registered /\ UNCHANGED <<registered, trees, commits>>
          /\ files' = Put(files, HashBlob(content), content)
          /\ Heard(c, {HashBlob(content)})
  BY DEF WriteFile
<1>2. /\ DOMAIN files' = DOMAIN files \cup {HashBlob(content)}
      /\ files'[HashBlob(content)] = content
      /\ \A id \in DOMAIN files \ {HashBlob(content)} : files'[id] = files[id]
  BY <1>1 DEF Put
<1>3. RestartInv'
  BY <1>1 DEF ObjectInv, RestartInv
<1>4. FileInv'
  BY <1>2 DEF ObjectInv, FileInv
<1>5. TreeInv'
  BY <1>1, <1>2, EntriesGrow DEF ObjectInv, TreeInv
<1>6. CommitInv'
  BY <1>1, CommitsGrow DEF ObjectInv
<1>7. KnownInv'
  BY <1>1, <1>2, HeardStored DEF ObjectInv
<1>8. AncestryAcyclic'
  BY <1>1, SameAncestry DEF ObjectInv
<1>9. QED
  BY <1>3, <1>4, <1>5, <1>6, <1>7, <1>8 DEF ObjectInv

\* A client names in a tree what it knows, which is what the server holds.
LEMMA EntriesStored ==
    ASSUME ObjectInv, registered, NEW c \in Client
    PROVE  Entries(c) \subseteq StoredEntry
BY KnownStored DEF Entries, StoredEntry

\* A tree that a client builds is not empty.
LEMMA TreesOverFacts ==
    ASSUME NEW S, NEW es \in TreesOver(S)
    PROVE  es # {} /\ es \subseteq S
<1>1. es \in kSubset(1, S) \cup kSubset(2, S)
  BY DEF TreesOver
<1>2. es \in SUBSET S /\ Cardinality(es) \in {1, 2}
  BY <1>1 DEF kSubset
<1>3. es # {}
  BY <1>2, FS_EmptySet
<1>4. QED
  BY <1>2, <1>3

LEMMA WriteTreeKeeps ==
    ASSUME ObjectInv, NEW c \in Client, WriteTree(c)
    PROVE  ObjectInv'
<1>1. PICK es \in TreesOver(Entries(c)) :
          /\ registered /\ UNCHANGED <<registered, files, commits>>
          /\ trees' = Put(trees, HashTree(es), es)
          /\ Heard(c, {HashTree(es)})
  BY DEF WriteTree
<1>2. /\ DOMAIN trees' = DOMAIN trees \cup {HashTree(es)}
      /\ trees'[HashTree(es)] = es
      /\ \A id \in DOMAIN trees \ {HashTree(es)} : trees'[id] = trees[id]
  BY <1>1 DEF Put
<1>3. es # {} /\ es \subseteq StoredEntry
  BY <1>1, TreesOverFacts, EntriesStored
<1>4. StoredEntry \subseteq StoredEntry'
  BY <1>1, <1>2, EntriesGrow
<1>5. RestartInv'
  BY <1>1 DEF ObjectInv, RestartInv
<1>6. FileInv'
  BY <1>1 DEF ObjectInv, FileInv
<1>7. TreeInv'
  BY <1>2, <1>3, <1>4 DEF ObjectInv, TreeInv
<1>8. CommitInv'
  BY <1>1, <1>2, CommitsGrow DEF ObjectInv
<1>9. KnownInv'
  BY <1>1, <1>2, HeardStored DEF ObjectInv
<1>10. AncestryAcyclic'
  BY <1>1, SameAncestry DEF ObjectInv
<1>11. QED
  BY <1>5, <1>6, <1>7, <1>8, <1>9, <1>10 DEF ObjectInv

\* A commit that a client builds names stored trees and parents.
LEMMA CommitStored ==
    ASSUME ObjectInv, registered, NEW c \in Client, NEW commit \in CommitsOf(c)
    PROVE  /\ commit.trees \in StoredRoots
           /\ commit.parents \in Seq(DOMAIN commits \cup {RootCommit})
           /\ commit.committer \in Signature /\ commit.description \in Description
           /\ commit.change \in {"x"}
<1> DEFINE S == Known(c, "commit") \cup {RootCommit}
           T == DOMAIN commits \cup {RootCommit}
<1>1. S \subseteq T
  BY KnownStored
<1>2. commit.parents \in SeqOf(S, MaxParents)
  BY DEF CommitsOf
<1>3. PICK n \in 0..MaxParents : commit.parents \in [1..n -> S]
  BY <1>2 DEF SeqOf
<1> HIDE DEF S, T
<1>4. commit.parents \in Seq(T)
  <2> DEFINE q == commit.parents
  <2>1. n \in Nat /\ q \in [1..n -> T]
    BY <1>1, <1>3
  <2> HIDE DEF q
  <2>2. q \in Seq(T)
    BY <2>1
  <2>3. QED
    BY <2>2 DEF q
<1>5. /\ commit.trees \in StoredRoots
      /\ commit.committer \in Signature /\ commit.description \in Description
      /\ commit.change \in {"x"}
  BY KnownStored DEF CommitsOf, StoredRoots
<1>6. QED
  BY <1>4, <1>5 DEF T

\* A commit whose parents are stored goes under a new id, which no stored commit
\* names, or under the id of a commit with those same parents, the root aside.
LEMMA WriteCommitKeepsAncestry ==
    ASSUME AncestryAcyclic, CommitInv, RootCommit \notin DOMAIN commits,
           NEW id, id # RootCommit,
           DOMAIN commits' = DOMAIN commits \cup {id},
           Ancestors(commits'[id].parents) \subseteq DOMAIN commits,
           \A x \in DOMAIN commits \ {id} : commits'[x] = commits[x],
           id \in DOMAIN commits =>
               Ancestors(commits'[id].parents) = Ancestors(commits[id].parents)
    PROVE  AncestryAcyclic'
<1>1. \A ids \in SUBSET DOMAIN commits :
          ids # {} => \E x \in ids : Ancestors(commits[x].parents) \cap ids = {}
  BY AncestorsMatter
<1>2. RootCommit \notin DOMAIN commits'
  OBVIOUS
<1>3. SUFFICES ASSUME NEW ids \in SUBSET DOMAIN commits', ids # {}
               PROVE  \E x \in ids : ToSet(commits'[x].parents) \cap ids = {}
  BY DEF AncestryAcyclic
<1>4. SUFFICES \E x \in ids : Ancestors(commits'[x].parents) \cap ids = {}
  BY <1>2 DEF Ancestors
<1>5. CASE id \in DOMAIN commits
  <2>1. \A x \in DOMAIN commits :
            Ancestors(commits'[x].parents) = Ancestors(commits[x].parents)
    BY <1>5
  <2>2. QED
    BY <1>1, <1>3, <1>5, <2>1
<1>6. CASE id \notin DOMAIN commits
  <2>1. CASE ids \subseteq {id}
    BY <1>3, <1>6, <2>1
  <2>2. CASE ~(ids \subseteq {id})
    <3>1. ids \ {id} \in SUBSET DOMAIN commits /\ ids \ {id} # {}
      BY <2>2
    <3>2. PICK x \in ids \ {id} : Ancestors(commits[x].parents) \cap (ids \ {id}) = {}
      BY <1>1, <3>1
    <3>3. id \notin Ancestors(commits[x].parents)
      <4>1. commits[x].parents \in Seq(DOMAIN commits \cup {RootCommit})
        BY <3>1, <3>2 DEF CommitInv
      <4>2. ToSet(commits[x].parents) \subseteq DOMAIN commits \cup {RootCommit}
        BY <4>1 DEF ToSet
      <4>3. QED
        BY <1>6, <4>2 DEF Ancestors
    <3>4. commits'[x] = commits[x] /\ x \in ids
      BY <3>1, <3>2
    <3>5. QED
      BY <3>2, <3>3, <3>4
  <2>3. QED
    BY <2>1, <2>2
<1>7. QED
  BY <1>5, <1>6

LEMMA WriteCommitKeeps ==
    ASSUME ObjectInv, NEW c \in Client, WriteCommit(c)
    PROVE  ObjectInv'
<1>1. PICK commit \in CommitsOf(c) :
          LET w == CommitToProto(commit)
          IN  /\ registered /\ UNCHANGED <<registered, files, trees>>
              /\ commits' = Put(commits, CommitId(w), [w EXCEPT !.id = CommitId(w)])
              /\ Heard(c, {CommitId(w)})
  BY DEF WriteCommit
<1> DEFINE id == CommitId(CommitToProto(commit))
           stored == [CommitToProto(commit) EXCEPT !.id = id]
<1>2. commit.parents \in Seq(DOMAIN commits \cup {RootCommit})
  BY <1>1, CommitStored
<1>3. id = HashCommit(commit)
  BY DEF CommitId, CommitToProto, HashCommit
<1>4. stored = [id |-> id, trees |-> commit.trees, parents |-> commit.parents,
                committer |-> commit.committer, description |-> commit.description,
                change |-> commit.change]
  BY DEF CommitToProto
<1>5. HashCommit(stored) = HashCommit(commit)
  BY <1>4 DEF HashCommit
<1> HIDE DEF id, stored
<1>6. /\ DOMAIN commits' = DOMAIN commits \cup {id}
      /\ commits'[id] = stored
      /\ \A x \in DOMAIN commits \ {id} : commits'[x] = commits[x]
  BY <1>1 DEF Put, id, stored
<1>7. Heard(c, {id})
  BY <1>1 DEF id
<1>8. RestartInv'
  BY <1>1 DEF ObjectInv, RestartInv
<1>9. FileInv'
  BY <1>1 DEF ObjectInv, FileInv
<1>10. TreeInv'
  BY <1>1, EntriesGrow DEF ObjectInv, TreeInv
<1>11. CommitInv'
  <2>1. StoredRoots' = StoredRoots
    BY <1>1 DEF StoredRoots
  <2> DEFINE Wire(x) ==
          [id : {x}, trees : StoredRoots,
           parents : Seq(DOMAIN commits \cup {RootCommit}),
           committer : Signature, description : Description, change : {"x"}]
             Wire2(x) ==
          [id : {x}, trees : StoredRoots,
           parents : Seq(DOMAIN commits' \cup {RootCommit}),
           committer : Signature, description : Description, change : {"x"}]
  <2>2. stored \in Wire(id)
    BY <1>1, <1>4, CommitStored
  <2>3. \A x : Wire(x) \subseteq Wire2(x)
    BY <1>6
  <2>4. \A x \in DOMAIN commits : commits[x] \in Wire(x) /\ x = HashCommit(commits[x])
    BY DEF ObjectInv, CommitInv
  <2> HIDE DEF Wire, Wire2
  <2>5. \A x \in DOMAIN commits' : commits'[x] \in Wire2(x) /\ x = HashCommit(commits'[x])
    BY <1>3, <1>5, <1>6, <2>2, <2>3, <2>4
  <2>6. QED
    BY <2>1, <2>5 DEF CommitInv, Wire2
<1>12. KnownInv'
  BY <1>1, <1>6, <1>7, HeardStored DEF ObjectInv
<1>13. AncestryAcyclic'
  <2>1. RootCommit \notin DOMAIN commits /\ id # RootCommit
    BY <1>3, StoredKinds, Kinds
  <2>2. stored.parents = commit.parents
    BY <1>4
  <2>3. Ancestors(commit.parents) \subseteq DOMAIN commits
    BY <1>2 DEF Ancestors, ToSet
  <2>4. ASSUME id \in DOMAIN commits
        PROVE  Ancestors(commit.parents) = Ancestors(commits[id].parents)
    <3>1. commits[id].parents \in Seq(DOMAIN commits \cup {RootCommit})
      BY <2>4 DEF ObjectInv, CommitInv
    <3>2. HashCommit(commit) = HashCommit(commits[id])
      BY <1>3, <2>4 DEF ObjectInv, CommitInv
    <3>3. WithoutRoot(commit.parents) = WithoutRoot(commits[id].parents)
      BY <3>2, SameCommit
    <3>4. QED
      BY <1>2, <3>1, <3>3, SameAncestors
  <2>5. QED
    BY <1>6, <2>1, <2>2, <2>3, <2>4, WriteCommitKeepsAncestry DEF ObjectInv
<1>14. QED
  BY <1>8, <1>9, <1>10, <1>11, <1>12, <1>13 DEF ObjectInv

-----------------------------------------------------------------------------
(* Entries as they are stored and as they are read.                        *)

IsEntry(e) == e = [name |-> e.name, mode |-> e.mode, id |-> e.id, copy |-> e.copy]

LEMMA StoredEntries ==
    ASSUME NEW e \in StoredEntry
    PROVE  /\ IsEntry(e)
           /\ e.mode = "tree" => e.id \in DOMAIN trees
           /\ e.mode # "tree" => e.id \in DOMAIN files
BY DEF StoredEntry, IsEntry

\* Reading an entry changes its copy id only.
LEMMA EntryRead ==
    ASSUME NEW e, IsEntry(e)
    PROVE  /\ EntryFromProto(e).name = e.name /\ EntryFromProto(e).mode = e.mode
           /\ EntryFromProto(e).id = e.id
<1>1. CASE e.mode # "tree" /\ e.copy = NoCopy
  <2>1. EntryFromProto(e) =
            [name |-> e.name, mode |-> e.mode, id |-> e.id, copy |-> RootCopy]
    BY <1>1 DEF EntryFromProto, IsEntry
  <2>2. QED
    BY <2>1
<1>2. CASE ~(e.mode # "tree" /\ e.copy = NoCopy)
  BY <1>2 DEF EntryFromProto
<1>3. QED
  BY <1>1, <1>2

\* A tree hashes to the same id when it is written as it was read.
LEMMA HashOfRead ==
    ASSUME NEW A, \A e \in A : IsEntry(e)
    PROVE  HashTree({EntryFromProto(e) : e \in A}) = HashTree(A)
<1> DEFINE fed(e) == [name |-> e.name, mode |-> e.mode, id |-> e.id]
           R == {EntryFromProto(e) : e \in A}
<1>1. \A e \in A : fed(EntryFromProto(e)) = fed(e)
  BY EntryRead
<1>2. {fed(r) : r \in R} = {fed(e) : e \in A}
  <2> HIDE DEF fed
  <2>1. QED
    BY <1>1
<1>3. R = {} <=> A = {}
  OBVIOUS
<1>4. QED
  BY <1>2, <1>3 DEF HashTree

\* What was read from two trees with the same hash names the same objects in
\* the same way.
LEMMA SameRead ==
    ASSUME NEW A, NEW B, A # {}, B # {}, HashTree(A) = HashTree(B),
           \A e \in A : IsEntry(e), \A e \in B : IsEntry(e)
    PROVE  \A r \in {EntryFromProto(e) : e \in A} :
              \E s \in {EntryFromProto(e) : e \in B} :
                 s.name = r.name /\ s.mode = r.mode /\ s.id = r.id
<1>1. TAKE r \in {EntryFromProto(e) : e \in A}
<1>2. PICK e \in A : r = EntryFromProto(e)
  OBVIOUS
<1>3. PICK f \in B : f.name = e.name /\ f.mode = e.mode /\ f.id = e.id
  BY SameTree
<1>4. EntryFromProto(f) \in {EntryFromProto(g) : g \in B}
  OBVIOUS
<1>5. /\ EntryFromProto(f).name = r.name /\ EntryFromProto(f).mode = r.mode
      /\ EntryFromProto(f).id = r.id
  BY <1>2, <1>3, EntryRead
<1>6. QED
  BY <1>4, <1>5

\* What a stored tree reads as.
LEMMA TreeRead ==
    ASSUME TreeInv, NEW t \in DOMAIN trees
    PROVE  /\ t # EmptyTree
           /\ ReadTreeEntries(t) = {EntryFromProto(e) : e \in trees[t]}
           /\ \A r \in ReadTreeEntries(t) :
                 /\ r.mode = "tree" => r.id \in DOMAIN trees
                 /\ r.mode # "tree" => r.id \in DOMAIN files
<1>1. t # EmptyTree
  BY Kinds DEF TreeInv
<1>2. ReadTreeEntries(t) = {EntryFromProto(e) : e \in trees[t]}
  BY <1>1 DEF ReadTreeEntries
<1>3. \A e \in trees[t] :
         /\ IsEntry(e)
         /\ e.mode = "tree" => e.id \in DOMAIN trees
         /\ e.mode # "tree" => e.id \in DOMAIN files
  BY StoredEntries DEF TreeInv
<1>4. QED
  BY <1>1, <1>2, <1>3, EntryRead

-----------------------------------------------------------------------------
(* The operations that read, and the end of the server.                    *)

LEMMA SameMapsKeep ==
    ASSUME ObjectInv, UNCHANGED <<registered, files, trees, commits>>, KnownInv'
    PROVE  ObjectInv'
<1>1. RestartInv' /\ FileInv' /\ TreeInv'
  BY EntriesGrow DEF ObjectInv, RestartInv, FileInv, TreeInv
<1>2. CommitInv' /\ AncestryAcyclic'
  BY CommitsGrow, SameAncestry DEF ObjectInv
<1>3. QED
  BY <1>1, <1>2 DEF ObjectInv

LEMMA ReadTreeKeeps ==
    ASSUME ObjectInv, NEW c \in Client, ReadTree(c)
    PROVE  ObjectInv'
<1>1. PICK id \in Known(c, "tree") :
          /\ TreeFound(id)
          /\ known' = [known EXCEPT ![c] = @ \cup {e.id : e \in ReadTreeEntries(id)}]
          /\ UNCHANGED <<registered, files, trees, commits>>
  BY DEF ReadTree
<1>2. registered /\ id \in DOMAIN trees
  BY <1>1, Kinds DEF TreeFound, Known
<1>3. {e.id : e \in ReadTreeEntries(id)} \subseteq DOMAIN files \cup DOMAIN trees
  BY <1>2, TreeRead DEF ObjectInv
<1>4. Heard(c, {e.id : e \in ReadTreeEntries(id)})
  BY <1>1 DEF Heard
<1>5. KnownInv'
  BY <1>1, <1>2, <1>3, <1>4, HeardStored DEF ObjectInv
<1>6. QED
  BY <1>1, <1>5, SameMapsKeep

\* The trees and the parents that a stored commit names.
LEMMA CommitRead ==
    ASSUME CommitInv, NEW id \in DOMAIN commits
    PROVE  /\ ToSet(commits[id].trees) \subseteq DOMAIN trees \cup {EmptyTree}
           /\ Head(commits[id].trees) \in ToSet(commits[id].trees)
           /\ ToSet(commits[id].parents) \subseteq DOMAIN commits \cup {RootCommit}
           /\ CommitFromProto(commits[id]).trees = commits[id].trees
           /\ CommitFromProto(commits[id]).parents = commits[id].parents
<1>1. commits[id].parents \in Seq(DOMAIN commits \cup {RootCommit})
  BY DEF CommitInv
<1>2. ToSet(commits[id].parents) \subseteq DOMAIN commits \cup {RootCommit}
  BY <1>1 DEF ToSet
<1>3. commits[id].trees \in StoredRoots
  BY DEF CommitInv
<1>4. CASE \E t \in DOMAIN trees \cup {EmptyTree} : commits[id].trees = <<t>>
  <2>1. PICK t \in DOMAIN trees \cup {EmptyTree} : commits[id].trees = <<t>>
    BY <1>4
  <2>2. ToSet(<<t>>) = {t} /\ Head(<<t>>) = t
    BY DEF ToSet
  <2>3. QED
    BY <1>1, <1>2, <2>1, <2>2 DEF CommitFromProto
<1>5. CASE \E t, u \in DOMAIN trees : commits[id].trees = <<t, EmptyTree, u>>
  <2>1. PICK t \in DOMAIN trees, u \in DOMAIN trees :
            commits[id].trees = <<t, EmptyTree, u>>
    BY <1>5
  <2>2. ToSet(<<t, EmptyTree, u>>) = {t, EmptyTree, u} /\ Head(<<t, EmptyTree, u>>) = t
    BY DEF ToSet
  <2>3. QED
    BY <1>1, <1>2, <2>1, <2>2 DEF CommitFromProto
<1>6. QED
  BY <1>1, <1>2, <1>3, <1>4, <1>5 DEF StoredRoots, CommitFromProto

LEMMA ReadCommitKeeps ==
    ASSUME ObjectInv, NEW c \in Client, ReadCommit(c)
    PROVE  ObjectInv'
<1>1. PICK id \in Known(c, "commit") :
          LET commit == CommitFromProto(commits[id])
          IN  /\ CommitFound(id)
              /\ known' = [known EXCEPT ![c] = @ \cup
                     ((ToSet(commit.trees) \cup ToSet(commit.parents))
                      \ {EmptyTree, RootCommit})]
              /\ UNCHANGED <<registered, files, trees, commits>>
  BY DEF ReadCommit
<1> DEFINE ids == (ToSet(CommitFromProto(commits[id]).trees)
                   \cup ToSet(CommitFromProto(commits[id]).parents))
                  \ {EmptyTree, RootCommit}
<1>2. registered /\ id \in DOMAIN commits
  BY <1>1, Kinds DEF CommitFound, Known
<1>3. ids \subseteq DOMAIN trees \cup DOMAIN commits
  BY <1>2, CommitRead DEF ObjectInv
<1>4. Heard(c, ids)
  BY <1>1 DEF Heard
<1> HIDE DEF ids
<1>5. KnownInv'
  BY <1>1, <1>2, <1>3, <1>4, HeardStored DEF ObjectInv
<1>6. QED
  BY <1>1, <1>5, SameMapsKeep

LEMMA LearnKeeps ==
    ASSUME ObjectInv, NEW c \in Client, Learn(c)
    PROVE  ObjectInv'
<1>1. PICK d \in Client : \E id \in Known(d, "commit") :
          /\ registered /\ UNCHANGED <<registered, files, trees, commits>>
          /\ known' = [known EXCEPT ![c] = @ \cup {id}]
  BY DEF Learn
<1>2. PICK id \in Known(d, "commit") :
          /\ registered /\ UNCHANGED <<registered, files, trees, commits>>
          /\ known' = [known EXCEPT ![c] = @ \cup {id}]
  BY <1>1
<1>3. {id} \subseteq DOMAIN commits
  BY <1>2, KnownStored
<1>4. Heard(c, {id})
  BY <1>2 DEF Heard
<1>5. KnownInv'
  BY <1>2, <1>3, <1>4, HeardStored DEF ObjectInv
<1>6. QED
  BY <1>2, <1>5, SameMapsKeep

LEMMA RestartKeeps == ObjectInv /\ Restart => ObjectInv'
<1> SUFFICES ASSUME ObjectInv, Restart PROVE ObjectInv'
  OBVIOUS
<1>1. DOMAIN files' = {} /\ DOMAIN trees' = {} /\ DOMAIN commits' = {}
  BY DEF Restart
<1>2. QED
  BY <1>1 DEF Restart, ObjectInv, RestartInv, FileInv, TreeInv, CommitInv, KnownInv,
              AncestryAcyclic

-----------------------------------------------------------------------------
(* The invariant, and the properties that the runs check.                  *)

LEMMA StepKeeps == ObjectInv /\ [Next]_vars => ObjectInv'
<1> SUFFICES ASSUME ObjectInv, [Next]_vars PROVE ObjectInv'
  OBVIOUS
<1>1. ASSUME NEW c \in Client,
             WriteFile(c) \/ WriteTree(c) \/ WriteCommit(c)
             \/ ReadTree(c) \/ ReadCommit(c) \/ Learn(c)
      PROVE  ObjectInv'
  BY <1>1, WriteFileKeeps, WriteTreeKeeps, WriteCommitKeeps, ReadTreeKeeps,
     ReadCommitKeeps, LearnKeeps
<1>2. CASE Restart
  BY <1>2, RestartKeeps
<1>3. CASE UNCHANGED vars
  <2>1. KnownInv'
    BY <1>3 DEF vars, ObjectInv, KnownInv
  <2>2. QED
    BY <1>3, <2>1, SameMapsKeep DEF vars
<1>4. QED
  BY <1>1, <1>2, <1>3 DEF Next

\* The invariant of the server that is written to bottom up, in every state.
THEOREM ObjectInvariantHolds == Spec => []ObjectInv
<1>1. Init => ObjectInv
  BY InitKeeps
<1>2. ObjectInv /\ [Next]_vars => ObjectInv'
  BY StepKeeps
<1>3. QED
  BY <1>1, <1>2, PTL DEF Spec

\* No commit is among its ancestors, merges of any shape included.
THEOREM AncestryHasNoCycle == Spec => []AncestryAcyclic
<1>1. ObjectInv => AncestryAcyclic
  BY DEF ObjectInv
<1>2. QED
  BY <1>1, ObjectInvariantHolds, PTL

\* What lies below a stored tree, or below the empty one, is stored.
LEMMA BelowStored ==
    ASSUME TreeInv, NEW root \in DOMAIN trees \cup {EmptyTree}
    PROVE  Below(root, Subtrees) \subseteq DOMAIN trees \cup {EmptyTree}
<1>1. DOMAIN Subtrees = DOMAIN trees
  BY DEF Subtrees
<1>2. ASSUME NEW t \in DOMAIN trees PROVE Subtrees[t] \subseteq DOMAIN trees
  BY TreeRead DEF Subtrees
<1>3. QED
  BY <1>1, <1>2, BelowSmallest

\* A client that has the id of a commit can read all of it, trees of any depth
\* and with any sharing included.
THEOREM CheckoutsAreComplete == Spec => []CheckoutComplete
<1>1. ASSUME ObjectInv PROVE CheckoutComplete
  <2>1. SUFFICES ASSUME registered, NEW c \in Client, NEW id \in Known(c, "commit")
                 PROVE  /\ CommitFound(id)
                        /\ \A p \in ToSet(ReadCommitParents(id)) : CommitFound(p)
                        /\ \A root \in ToSet(commits[id].trees) :
                              \A t \in Below(root, Subtrees) :
                                 /\ TreeFound(t)
                                 /\ \A e \in ReadTreeEntries(t) :
                                       e.mode # "tree" => FileFound(e.id)
    BY DEF CheckoutComplete
  <2>2. id \in DOMAIN commits /\ id # RootCommit
    BY <1>1, <2>1, KnownStored, StoredKinds, Kinds
  <2>3. CommitFound(id)
    BY <2>1, <2>2 DEF CommitFound
  <2>4. \A p \in ToSet(ReadCommitParents(id)) : CommitFound(p)
    BY <1>1, <2>1, <2>2, CommitRead DEF ReadCommitParents, CommitFound, ObjectInv
  <2>5. ASSUME NEW root \in ToSet(commits[id].trees), NEW t \in Below(root, Subtrees)
        PROVE  /\ TreeFound(t)
               /\ \A e \in ReadTreeEntries(t) : e.mode # "tree" => FileFound(e.id)
    <3>1. t \in DOMAIN trees \cup {EmptyTree}
      BY <1>1, <2>2, <2>5, CommitRead, BelowStored DEF ObjectInv
    <3>2. CASE t = EmptyTree
      BY <3>2 DEF TreeFound, ReadTreeEntries
    <3>3. CASE t \in DOMAIN trees
      BY <1>1, <2>1, <3>3, TreeRead DEF TreeFound, FileFound, ObjectInv
    <3>4. QED
      BY <3>1, <3>2, <3>3
  <2>6. QED
    BY <2>3, <2>4, <2>5
<1>2. QED
  BY <1>1, ObjectInvariantHolds, PTL

\* Writing back what was read gives the id that it was read under.
THEOREM RewritesKeepIds == Spec => []ReadBackKeepsId
<1>1. ASSUME ObjectInv PROVE ReadBackKeepsId
  <2>1. ASSUME NEW id \in DOMAIN trees PROVE HashTree(ReadTreeEntries(id)) = id
    <3>1. \A e \in trees[id] : IsEntry(e)
      BY <1>1, StoredEntries DEF ObjectInv, TreeInv
    <3>2. ReadTreeEntries(id) = {EntryFromProto(e) : e \in trees[id]}
      BY <1>1, TreeRead DEF ObjectInv
    <3>3. id = HashTree(trees[id])
      BY <1>1 DEF ObjectInv, TreeInv
    <3>4. QED
      BY <3>1, <3>2, <3>3, HashOfRead
  <2>2. ASSUME NEW id \in DOMAIN commits
        PROVE  CommitId(CommitToProto(CommitFromProto(commits[id]))) = id
    <3>1. id = HashCommit(commits[id])
      BY <1>1 DEF ObjectInv, CommitInv
    <3>2. CommitId(CommitToProto(CommitFromProto(commits[id]))) = HashCommit(commits[id])
      BY DEF CommitId, CommitToProto, CommitFromProto, HashCommit
    <3>3. QED
      BY <3>1, <3>2
  <2>3. QED
    BY <2>1, <2>2 DEF ReadBackKeepsId
<1>2. QED
  BY <1>1, ObjectInvariantHolds, PTL

-----------------------------------------------------------------------------
(* Checkouts never change.                                                 *)

\* A server that is still up has lost nothing.
LEMMA StepGrows ==
    ASSUME [Next]_vars, registered'
    PROVE  /\ DOMAIN files \subseteq DOMAIN files'
           /\ DOMAIN trees \subseteq DOMAIN trees'
           /\ DOMAIN commits \subseteq DOMAIN commits'
<1>1. ASSUME NEW map, NEW id, NEW value
      PROVE  DOMAIN map \subseteq DOMAIN Put(map, id, value)
  BY DEF Put
<1>2. ASSUME NEW c \in Client, WriteFile(c) PROVE DOMAIN files \subseteq DOMAIN files'
  BY <1>1, <1>2 DEF WriteFile
<1>3. ASSUME NEW c \in Client, WriteTree(c) PROVE DOMAIN trees \subseteq DOMAIN trees'
  BY <1>1, <1>3 DEF WriteTree
<1>4. ASSUME NEW c \in Client, WriteCommit(c)
      PROVE  DOMAIN commits \subseteq DOMAIN commits'
  BY <1>1, <1>4 DEF WriteCommit
<1>5. ASSUME NEW c \in Client,
             WriteFile(c) \/ WriteTree(c) \/ WriteCommit(c)
             \/ ReadTree(c) \/ ReadCommit(c) \/ Learn(c)
      PROVE  /\ UNCHANGED files \/ WriteFile(c)
             /\ UNCHANGED trees \/ WriteTree(c)
             /\ UNCHANGED commits \/ WriteCommit(c)
  BY <1>5 DEF WriteFile, WriteTree, WriteCommit, ReadTree, ReadCommit, Learn
<1>6. ~Restart
  BY DEF Restart
<1>7. CASE UNCHANGED vars
  BY <1>7 DEF vars
<1>8. CASE \E c \in Client :
          WriteFile(c) \/ WriteTree(c) \/ WriteCommit(c)
          \/ ReadTree(c) \/ ReadCommit(c) \/ Learn(c)
  BY <1>2, <1>3, <1>4, <1>5, <1>8
<1>9. QED
  BY <1>6, <1>7, <1>8 DEF Next

\* A stored tree names the same trees and puts the same files on disk after it
\* has been written over.
LEMMA TreeStable ==
    ASSUME ObjectInv, ObjectInv', NEW t \in DOMAIN trees, t \in DOMAIN trees',
           DOMAIN files \subseteq DOMAIN files'
    PROVE  /\ Subtrees[t] = Subtrees'[t]
           /\ {Written(e) : e \in ReadTreeEntries(t)}
              = {Written(e) : e \in ReadTreeEntries(t)}'
<1> DEFINE old == ReadTreeEntries(t)
           new == ReadTreeEntries(t)'
<1>1. /\ old = {EntryFromProto(e) : e \in trees[t]}
      /\ \A r \in old : r.mode # "tree" => r.id \in DOMAIN files
  BY TreeRead DEF ObjectInv
<1>2. new = {EntryFromProto(e) : e \in trees'[t]}
  BY Kinds DEF ObjectInv, TreeInv, ReadTreeEntries
<1>3. \A e \in trees[t] : IsEntry(e)
  BY DEF ObjectInv, TreeInv, StoredEntry, IsEntry
<1>4. \A e \in trees'[t] : IsEntry(e)
  BY DEF ObjectInv, TreeInv, StoredEntry, IsEntry
<1>5. trees[t] # {} /\ trees'[t] # {} /\ HashTree(trees[t]) = HashTree(trees'[t])
  BY DEF ObjectInv, TreeInv
<1>6. \A r \in old : \E s \in new : s.name = r.name /\ s.mode = r.mode /\ s.id = r.id
  BY <1>1, <1>2, <1>3, <1>4, <1>5, SameRead
<1>7. \A s \in new : \E r \in old : r.name = s.name /\ r.mode = s.mode /\ r.id = s.id
  BY <1>1, <1>2, <1>3, <1>4, <1>5, SameRead
<1>8. \A id \in DOMAIN files : files'[id] = files[id]
  BY DEF ObjectInv, FileInv, HashBlob
<1>9. /\ Subtrees[t] = {e.id : e \in {f \in old : f.mode = "tree"}}
      /\ Subtrees'[t] = {e.id : e \in {f \in new : f.mode = "tree"}}
  BY DEF Subtrees
<1>10. ASSUME NEW r \in old, NEW s \in new, s.name = r.name, s.mode = r.mode, s.id = r.id
       PROVE  Written(r) = Written(s)'
  BY <1>1, <1>8, <1>10 DEF Written
<1> HIDE DEF old, new
<1>11. Subtrees[t] = Subtrees'[t]
  BY <1>6, <1>7, <1>9
<1>12. {Written(e) : e \in old} = {Written(e)' : e \in new}
  <2>1. \A r \in old : \E s \in new : Written(r) = Written(s)'
    BY <1>6, <1>10
  <2>2. \A s \in new : \E r \in old : Written(r) = Written(s)'
    BY <1>7, <1>10
  <2>3. QED
    BY <2>1, <2>2
<1>13. QED
  BY <1>11, <1>12 DEF old, new

\* A commit checks out to the same files, and keeps its parents other than the
\* root, for as long as the server is up.
THEOREM CheckoutsAreStable == Spec => CheckoutStable
<1>1. ASSUME ObjectInv, ObjectInv', [Next]_vars, registered', NEW id \in DOMAIN commits
      PROVE  /\ CheckedOut(id)' = CheckedOut(id)
             /\ WithoutRoot(commits'[id].parents) = WithoutRoot(commits[id].parents)
  <2>1. /\ DOMAIN files \subseteq DOMAIN files'
        /\ DOMAIN trees \subseteq DOMAIN trees'
        /\ DOMAIN commits \subseteq DOMAIN commits'
    BY <1>1, StepGrows
  <2>2. /\ WithoutRoot(commits'[id].parents) = WithoutRoot(commits[id].parents)
        /\ Head(commits'[id].trees) = Head(commits[id].trees)
    <3>1. HashCommit(commits'[id]) = HashCommit(commits[id])
      BY <1>1, <2>1 DEF ObjectInv, CommitInv
    <3>2. QED
      BY <3>1, SameCommit
  <2> DEFINE root == Head(commits[id].trees)
  <2>3. Below(root, Subtrees) \subseteq DOMAIN trees \cup {EmptyTree}
    BY <1>1, CommitRead, BelowStored DEF ObjectInv
  <2>4. EmptyTree \notin DOMAIN trees /\ EmptyTree \notin DOMAIN trees'
    BY <1>1, Kinds DEF ObjectInv, TreeInv
  <2>5. DOMAIN Subtrees = DOMAIN trees /\ DOMAIN Subtrees' = DOMAIN trees'
    BY DEF Subtrees
  <2>6. \A t \in DOMAIN trees :
           /\ Subtrees[t] = Subtrees'[t]
           /\ {Written(e) : e \in ReadTreeEntries(t)}
              = {Written(e) : e \in ReadTreeEntries(t)}'
    BY <1>1, <2>1, TreeStable
  <2>7. Below(root, Subtrees) = Below(root, Subtrees')
    BY <2>1, <2>3, <2>4, <2>5, <2>6, BelowSame
  <2>8. {Written(e) : e \in ReadTreeEntries(EmptyTree)}
        = {Written(e) : e \in ReadTreeEntries(EmptyTree)}'
    BY DEF ReadTreeEntries
  <2>9. \A t \in Below(root, Subtrees) :
           {Written(e) : e \in ReadTreeEntries(t)}
           = {Written(e) : e \in ReadTreeEntries(t)}'
    BY <2>3, <2>6, <2>8
  <2>10. CheckedOut(id)' = CheckedOut(id)
    BY <2>2, <2>7, <2>9 DEF CheckedOut
  <2>11. QED
    BY <2>2, <2>10
<1>2. ASSUME ObjectInv, ObjectInv', [Next]_vars
      PROVE  [registered' =>
                 \A id \in DOMAIN commits :
                    /\ CheckedOut(id)' = CheckedOut(id)
                    /\ WithoutRoot(commits'[id].parents) =
                           WithoutRoot(commits[id].parents)]_vars
  BY <1>1, <1>2
<1>3. QED
  BY <1>2, ObjectInvariantHolds, PTL DEF Spec, CheckoutStable

=============================================================================
