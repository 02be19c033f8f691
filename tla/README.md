# Verification of the jj commit cloud

The repository is a proof-of-concept commit cloud for jj: a gRPC server that keeps a
repository's files, trees, commits, views, operations and operation heads in memory, and
a client library that plugs into jj-lib in place of its local stores. This directory
holds TLA+ models of it, their TLC configurations and TLAPS proofs.

## The system

| Component | Code | State | Operations | Hard behaviour |
| --- | --- | --- | --- | --- |
| Op-heads service | `server/src/op_store.rs`, `store/memorystore.rs` | `op_heads[repo]`, a Vec that is absent at first | `get_op_heads`, `update_op_heads` | stale, repeated and late updates; a conditional push that is acknowledged in either case |
| Op store service | `server/src/op_store.rs`, `hash_utils.rs` | `ops`, `views` | read and write of both | ids computed from content; a root operation and view that are never stored |
| Backend service | `server/src/backend.rs`, `hash_utils.rs` | `files`, `trees`, `commits` | read and write of the three, registration | writes overwrite; ids cover only a part of a commit |
| Op-heads client | `lib/src/cc_op_heads_store.rs` and jj-lib | a command's progress | load, lock, resolve, commit | the lock excludes nobody; three RPCs per commit; death between them |
| Op store client | `lib/src/cc_op_store.rs` | none | conversions, RPCs | orders of maps, absent merge terms, names with `@`, tags, time zones |
| Backend client | `lib/src/cc_backend.rs` | none | conversions, RPCs | lost answers, copy ids, empty tree and root commit |
| Initialisation | `cli/src/commands/init.rs`, `lib/src/util.rs`, `repo.rs` | `config.toml` and the rest of `.jj` | `init`, three `load`s | many files and calls, any of which may fail; a cleanup that may die; others that load meanwhile |
| Server process | `server/src/main.rs` | the `MemoryStore`, a listener | start, announce, serve, stop | a restart loses everything; announced before it serves; requests in flight at shutdown |
| Test utilities | `testutils/src/lib.rs` | a child process | spawn, read its output, kill | parallel servers, a timer against the output |

Clients and server interact by unary RPCs only (`read_file` streams one chunk). A client
awaits an answer before it sends the next request. The five maps and the heads each have
a lock of their own, and a handler takes the registration lock, releases it, and then
takes one other lock once. Registrations are only ever added while the process lives, so
checking the registration and touching the map has the effect of one step; this is why a
handler is one action. All maps are keyed by repository and no handler reads two of
them, so each model follows one repository; `CloudInit`, where repositories come into
being, has several.

What makes each component right:

- op-heads service: the heads never become empty or repeat an id, everything under them
  is stored, nothing that is published is lost;
- op store: an id names one view or operation, whatever order maps and sets come in, and
  survives being read and written again;
- backend: whoever holds a commit id can check the commit out completely, and what is
  checked out never changes;
- all of them together: every operation in the history can be checked out;
- initialisation: a workspace that looks complete is, has a repository of its own, and
  an attempt that failed does not bar the next;
- server and test utilities: a client that was given an address reaches that server, and
  is answered or told why not.

## Modules

| Module | What it is |
| --- | --- |
| `OpGraph` | the graph of operations as constants with their assumptions: parents, ancestors, views, root |
| `OpHistory` | abstract: a published history, closed under parents, that only grows until the server forgets |
| `LinearHistory` | abstract: one line of operations whose tip moves to a child |
| `OpHeads` | the op-heads service, the keys of the view and operation maps, and the clients |
| `OpHeadsProofs` | type correctness, the inductive invariant, five safety results, refinement of `OpHistory`; with no appender one head, and refinement of `LinearHistory` |
| `Digests` | what `hash_utils.rs` feeds to SHA-1, for each kind of object |
| `DigestsProofs` | lemmas about sorting, listing, dropping, concatenating and cutting up sequences |
| `OpObjects` | views and operations as content: conversions, ids, both maps |
| `OpObjectsProofs` | for any views and operations: ids survive a round trip, reads are what was written, ids name one object |
| `CommitObjects` | files, trees and commits as content: conversions, ids, three maps, clients that write bottom up and walk down |
| `CommitObjectsProofs` | whoever has a commit's id can check it out; checkouts, ancestry and ids are stable |
| `CloudStore` | `OpHeads` extended by the commits, trees and files its views lead to: one repository whole |
| `CloudStoreProofs` | the composition implements `OpHeads`; its inductive invariant; every operation can be checked out |
| `OpChase` | the protocol of `OpHeads` with recycled operation numbers, so that clients may commit for ever |
| `OpChaseProofs` | for any number of clients and appends: its inductive invariant, and that heads give way to descendants only |
| `CloudInit` | `jj cc init` and loading, many users, directories and repositories |
| `CloudInitProofs` | its inductive invariant; repositories, configurations and published operations of workspaces |
| `ServerStartup` | the server process and the harness that starts it |
| `ServerStartupProofs` | its inductive invariant; addresses, panics, health answers |
| `MC...` | finite graphs and input sets for TLC |

### OpHeads

*Server.* `registered`, `views`, `ops`, `heads` are the repository's entries in
`MemoryStore`; of views and operations only the keys matter here, since an operation's
id fixes its content (`OpGraph`). `heads` is `NoEntry` or a bag: the order of the Vec is
not modelled, as `retain`, `contains` and every reader ignore it. `UpdatedHeads` is
`update_op_heads`, and `StoredHeads` the default that both handlers use for a missing
entry. `ViewFound` and `OperationFound` include the synthesised root.

*Client.* `pc[c]` is the next step of a jj command: `get_op_heads`; with one head read
the operation and its view; with several take the lock, which is a no-op, ask again, and
resolve: read the heads' history and views, drop those that are ancestors of the one
maximal head, or merge. `Commit` is a transaction on the loaded operation. `Continue` is
the next transaction of the same command, on top of its last operation and without a
load: when that operation's update was not accepted, its successors are lost with it.
Publishing is `write_view`, `write_operation`, `update_op_heads`, in this order. jj-lib
itself is not in the repository: the steps between the RPCs are modelled from how it
calls `OpStore` and `OpHeadsStore` and are marked external in the map.

*Failure.* `Abort` ends a command anywhere. The request that it awaited may never have
left, may have been handled (the abort then follows the step), or may still be on its
way: it becomes an orphan, and `ServeOrphan` lets the server handle it any time later.
`Fail` is the server's refusal; `Restart` loses all maps and requests.

*Appender.* jj-lib always names the old heads it replaces. The service also has a branch
for an empty list, the only one through which heads diverge. Callers in `Appender`
follow the wire protocol with no old heads, building on a head they read.

### Digests, OpObjects, CommitObjects

SHA-1 is taken to be injective, so an id is what is hashed: a sequence of tokens for
views and operations, where a token is one length-prefixed string or some raw bytes, and
a record for git objects, whose format can be parsed back. That keeps what the prefixes
do not separate: where one list ends and the next begins.

`OpObjects` has each client write a view or an operation of the sets `View` and
`Operation`, or read one whose id any client holds; the heads of a view leave their hash
set in any order. `IsView` and `IsOperation` say what these are: finite maps over names,
which are sequences of `Char`, and merges of commits, which are numbers. Sorting and the
search for the last `@` are defined by what they find, not by how. An operation has a
map of predecessors or none (`commit_predecessors_set` on the wire). A commit has any
number of parents of those its client knows, in any order, repeated or not, the root
among them or not. In `CommitObjects` clients know ids because the server answered with
them, because they read an object that refers to them, or because another client
published them. Each write is heard or not heard by its client.

### CloudStore

`CloudStore` extends `OpHeads`, so its steps are those of `OpHeads` with conjuncts on
three more variables: the stored `objects`, the ids `known` to each client, and the
writes that are `late`. Objects, like operations, are content-addressed and their graph
is a constant. During a transaction or a merge a client reads and writes objects; it can
describe an object when it knows all that the object refers to, and it comes to know an
id when the server answers with it. `Build` lets it make only operations whose view
names what it knows. A client that dies may leave an object's write on its way. The
contents and ids of the objects are `CommitObjects`' subject.

### OpChase

In `OpHeads` a behaviour ends when the graph of operations is used up. In `OpChase` an
operation that is no head and that no client holds is forgotten and its number used
again; `above` keeps the ancestry among those that matter. `IdAssumption` says how many
numbers are enough (`NumbersSuffice` proves that they are). Reading operations and views
is left out, since `OpHeads` shows that it succeeds; so are restarts and late requests,
and the steady client is not killed, which `converge` covers.

### CloudInit

`pc[u]` walks through `cmd_cc_init` and what jj-lib's `init_with_factories` calls in
turn: make `.jj`, register, create and fill `config.toml`, write the store's type file,
load the op store and the op-heads store from `config.toml`, read the root operation,
publish the operation `add workspace`, write the working copy's type. `disk[d]` is what
these leave in a directory. Any step can fail; then jj-lib removes `.jj` file by file. A
lost answer to the registration or the publication is a failure after the server's step.
Where jj-lib reads the root operation it treats an error as a bug and panics without
cleaning up, so a server that restarts at that point leaves an unfinished workspace.
Readers load the three stores one by one from whatever is on disk: for each they find
its type file (`FindType`) and read config.toml later (`ReadConfig`), when the workspace
may have been removed or made again. `exists()` in `load_from_store` is not a step of
its own, because either branch reads the same file: the backend's directory is the
`store` of its own parent, and the other stores have no config.toml. `found[k]`
remembers what the file held when the type file was found; no action looks at it further.

### ServerStartup

`server[t]` follows `main` for the child process of test `t`, `harness[t]` follows
`spawn_server_with_args` and the test. The pipe between them is a queue of lines.
Connections are made as soon as there is a listener, and wait in its backlog until the
server serves. That a server told to stop first answers what it is handling is tonic's
promise and a guard of `Stop`; no property is about it. The branches of the harness's
`select!` are separate actions that may all be enabled, so a timer that has fired may be
passed over for a line, and the reverse.

## Runs

| Run | Configuration | Question | Bounds |
| --- | --- | --- | --- |
| `jj_only` | `OpHeadsJj.cfg` | Is the log one line when jj-lib is the only caller? | 3 clients, two siblings with a child each, 1 late request |
| `resolvers` | `OpHeadsResolvers.cfg` | Do two unlocked resolvers keep the history? | 2 jj clients, 1 appender, a diamond and a child |
| `converge` | `OpHeadsConverge.cfg` | Is divergence resolved in the end? | 1 jj client, 1 appender, 7 operations with three merges, one of a merge |
| `lost_update` | `OpHeadsLost.cfg` | Is an acknowledged operation in the history? No. | 2 jj clients |
| `objects` | `OpObjects.cfg` | Is what is read what was written, and do ids name one view or operation and survive a round trip? | 2 clients, 90 views, 96 operations |
| `view_collision` | `OpObjectsCollide.cfg` | Is a view id unique? No. | 2 clients, four shapes of a bookmark |
| `tags` | `OpObjectsTags.cfg` | Does a view have its tags? No. | 2 clients |
| `commits` | `CommitObjects.cfg` | Can a known commit be checked out, the same for ever, and is its ancestry without a cycle? | 2 clients, 1 content, and of trees (at most 2) and commits of 1 or 2 parents together 3 |
| `whole` | `CloudStore.cfg` | Can every operation in the history be read and checked out, and are accepted updates sound? | 1 jj client, 1 appender; two siblings and a merge; a tree and two commits below two views; 1 late request or write |
| `chase` | `OpChase.cfg` | Does a head give way to its descendants only, and does a chase end once a client is left alone? | 2 clients, 2 appends, 12 operation numbers (of which 7 would do), commits unbounded |
| `init` | `CloudInit.cfg` | Are workspaces complete, with repositories of their own, what may a command that loads one come upon, and does trying again succeed? | 2 users, 1 reader, 2 directories, 6 ids, 2 faults |
| `startup` | `ServerStartup.cfg` | Does each test reach its own server, or end with a reason? | 2 tests, 2 ports, 1 other line of output each |

Three clients are enough for a stale writer, the one that overtook it, and one that
arrives between; two clients can hold each other's ids. The graphs contain siblings,
descendants of one side, merges, and a merge of a merge; views repeat between
operations. The bounds are `MaxOrphans`, the graphs, `MaxFiles`, `MaxTrees` and
`MaxCommits`, which guard the growth of the maps, `MaxParents`, `MaxObjects`,
`MaxAppends`, `MaxFaults` (failures, kills, lost answers and restarts together) and
`MaxLines`. A client that would need a merge the graph does not contain stays where it
is until it is aborted. Clients are symmetric in `jj_only` and `commits`, which check no
liveness. Two parents are enough for a merge, for `[X]` against `[X, root]`, and for the
same parents in another order; three commits for a cycle that runs through two others.
In `commits` that leaves room for a tree in a tree or a conflict of two below one
commit, two commits with a tree, or three of the empty tree. Two faults are enough for a
failure and a death in its cleanup, or a restart and a failure after it; six ids for two
directories and what two users can lose to two faults, as a restart stops both. In
`init` the ids are handed out in a fixed order and the reader works in the first
directory, since neither ids nor directories differ; of two idle users the first one
starts; and a command that loads is over before the last fault, so that it meets with
one and an init with two. In `objects` a behaviour is about views or about operations,
whose maps no handler touches together. `startup` may stop when all tests are over,
`init` when all directories are taken, and their configurations do not ask for deadlock.

*Fairness.* `Convergence` assumes that a jj client's steps are eventually taken: weakly
fair where nothing disables them, strongly fair for the RPCs, since `Abort` may
interrupt a command any number of times but a user who keeps running commands is not
interrupted at the same point of every one. Commits, appends, aborts and restarts are
not assumed to happen. It is stated for one resolving client and finitely many appends.

`ConvergesOnceAlone` is about two. One client is steady: its steps to load, resolve and
publish are weakly fair, and a command ends some time (strong fairness of `Finish`, as
it may commit any number of times before). Of the other nothing is assumed but that from
some time on it publishes no more, and that is the property's antecedent.

`InitSucceeds` assumes that a step of an init that can be taken is taken (weak fairness
of each user's steps) and that users start inits while there is a directory to fill; it
does not assume that requests succeed, only that faults are finitely many. In
`ServerStartup` the harness's loop and its timer are weakly fair, as the tokio runtime
sees to; nothing is assumed of the server.

## What the runs show

- With jj-lib alone the log never diverges: an update whose old head is gone adds
  nothing. The price is `lost_update`: the second of two concurrent commits is
  acknowledged, and then is neither a head nor under one, although
  `memorystore.rs:98-99` says sibling heads are preserved for the clients to merge. It
  remains readable by its id (`AckedIsRecoverable`).
- With appended heads, two clients that resolve the same heads without a lock never lose
  published history.
- `hash_view` (`hash_utils.rs:178`, "Computes a unique SHA-1 ViewId hash") lists the
  removed and the added commits of a bookmark one after the other: the bookmark added as
  1 on one side and 2 on the other, and the bookmark moved from 1 to 2 on one side and
  deleted on the other, give one id (`view_collision`). Without conflicted bookmarks,
  and with no workspace named like a bookmark, ids are unique (`objects`).
- `op_store.proto:45` speaks of tags; none are sent, and `view_from_proto` returns none
  (`tags`).
- `hash_operation` lists each rewritten commit and its predecessors one after the other
  in the same way (`hash_utils.rs:168`), and does not feed `commit_predecessors_set`: a
  commit squashed from two others, and a new commit with a rewritten one, give one id
  when all else is equal, and so do no map of predecessors and an empty one. `objects`
  has all of these. The id tells the rest of an operation, and the list without its
  divisions (`ToldById`), and nothing more; the write that came last is what is read. No
  comment or test says otherwise, so there is no run for the collision.
- Two clients of which each commits or merges before the other's update arrives can
  replace each other's heads for ever, and one append is enough to start it: without its
  antecedent `ConvergesOnceAlone` is false. Nothing in the repository claims otherwise,
  so there is no run for it. The chase leaves nothing behind once one client is alone.
- Registration and publication whose answers are lost leave a repository at the server
  that no workspace names, and nothing else: the next attempt gets a repository of its
  own. A killed init, or a restart while the root is read, leaves a `.jj` that bars the
  directory, which is why `InitSucceeds` has its second disjunct. The stores of one
  command can only name different repositories when the workspace was removed under it
  and made again (`StoresAgree`), and likewise they can only come to a config.toml that
  is missing or still empty when it was removed (`BadConfigMeansRemoved`): the type file
  comes after config.toml, but a command may find it in one workspace and read the
  other's.
- After a restart the server refuses every request about the old repository. What
  `CheckoutComplete` and `HistoryReadable` promise they promise while the repository is
  registered; across a restart what matters is that nobody gets into another's
  repository (`OwnRepository`).
- An address is announced before the server accepts, and connecting works all the same.
  When the harness times out, the server it started goes on running: the guard that
  would kill it does not exist yet, and `kill_on_drop` is not set.
- A commit's id covers its first root tree, its parents other than the root, whole
  seconds, change id and description. Commits that agree on these overwrite each other.
  `CheckoutStable` and `CheckoutComplete` show what remains true: the files checked out
  and the parents other than the root. `[X]` and `[X, root]` have one id (`commits`), so
  that the root comes and goes among the parents, which adds no ancestor and so no cycle
  (`AncestryAcyclic`). The other sides of a conflict, predecessors, conflict labels and
  milliseconds are whatever was written last.

## Proofs

`OpHeadsProofs` proves, for every set of clients and appenders, every finite or infinite
graph that satisfies the assumptions of `OpGraph`, and any number of late requests:

- `TypeCorrect`, `InvariantHolds` (`IInv`), and from it `HeadsAreWellFormed`,
  `HistoryIsReadable`, `AckedCanBeRecovered`, `AcceptedUpdatesAreSound` and
  `HistoryIsImplemented` (`Spec => History!HSpec`).

Its last section proves, assuming `Appender = {}`, `LineInvariantHolds` (`LineInv`),
`LogHasOneHead` and `LineIsImplemented` (`Spec => Linear!LSpec`).

`CloudStoreProofs` proves, for every graph of objects that satisfies `ObjectTypes`,
`BelowAssumption` and `WellKnownAssumption`, `LogIsKept` (`CSpec => Spec`, with which
the results above hold of the composition), `ObjectsInvariantHolds` (`ObjectsInv`) and
`HistoryCanBeCheckedOut` (`CheckoutOfHistory`).

The readable-history property is not inductive: an update may publish an operation whose
writes happened long before and whose parents were published, or dropped, since. `IInv`
therefore says of every request, a live client's or a late one, that its operation's
proper ancestors are stored, that the old heads it names are among them, and that its
parents are published already or are exactly the one head it replaces. The second case
is why a stale update does no harm: it is accepted only while that parent is a head. Of
the store it says that what is stored has its history and its view stored too. The proof
takes the actions in three groups, those that read, those that decide and those that
write, and one lemma (`ServeStep`) covers every handled request whoever sent it.
`LineInv` says that no client gets to resolve heads and every request replaces its
operation's one parent.

What a client knows has to be stored with everything below it when a view that names it
is stored, perhaps long after the client has died. `ObjectsInv` says so of each place an
id can be on the way: known ids, late writes, stored views, views a client is about to
write, and views in late requests. That published operations have their views stored is
`HistoryReadable`, which `LogIsKept` carries over.

`CommitObjectsProofs` proves, for any clients, contents, signatures, descriptions and
bounds, `ObjectInvariantHolds` (`ObjectInv`) and from it `CheckoutsAreComplete`,
`CheckoutsAreStable`, `AncestryHasNoCycle` and `RewritesKeepIds`. `ObjectInv` says that
every object lies under its hash, that trees and commits name stored objects only, and
that clients know stored ids only: what a client names it was told of, and what it was
told of stays until the server forgets everything. The trees under a root are its least
set closed under naming subtrees (`Below`), so one closed set bounds them all
(`BelowSmallest`) and no induction on depth is needed. Since writing over an object
keeps its hash, it keeps what is hashed (`SameTree`, `SameCommit`: the parents without
the root), and so what lies below a root (`BelowSame`). `AncestryAcyclic` speaks of sets
of commits and is inductive with the rest: a new commit is named by none that is stored,
and the root, the one parent that can appear or go, has no parents (`AncestorsMatter`).

`OpObjectsProofs` proves, for any clients, characters, and views and operations of the
shape `ObjectsAssumption` gives them, of any size:

- `ViewIdsKept` and `OperationIdsKept`: what was read and is written again gets the id
  it was read under. Nothing more is assumed, so this holds of conflicted bookmarks and
  of names with `@` too. Each direction of the conversion undoes the other as far as the
  wire goes (`TargetKept`, and its likes for views and predecessors), and what is hashed
  depends on the set of heads and not on their order (`SortedListing`).
- `ReadsWereWritten` (`HeldWasWritten`), assuming `RemotesWithoutAt`: no remote has an
  `@` in its name. Then a key splits where it was put together (`KeySplitExactly`), and
  no two keys are equal that should differ. Bookmarks may have an `@`.
- `IdsNameViews` (`IdNamesOneView`), assuming also `NoConflicts` (every bookmark is at
  one commit) and `WorkspacesApart` (no workspace is named like a local bookmark).
- `IdsNameOperations` (`IdNamesOneOperation`), assuming nothing more: of any two
  operations of one id the time zones, the division of the list of rewrites and an empty
  map for none are all that can differ.

The last two say that a concatenation without separators can be parsed back, under the
hypotheses that it needs: without `NoConflicts` the run `view_collision` has two views
of one id. The views of `objects` satisfy all three. The proof cuts the stream where
tokens of one kind end (`CutAtKind`, `SameCut`): ids of heads, then entries of two or
three tokens that start with a name, where the third tells remote bookmarks from the
rest; then it reads the entries off at fixed widths (`BlockOf`, `Blocks`), so that equal
streams have equal sets of entries, and equal sets of entries are equal maps. The order
in which a map is fed never matters beyond its being the same for the same names.
`DigestsProofs` has what this needs about sequences. What would be induction on the
length of a sequence is done on the set of lengths for which a statement holds (`UpTo`,
from the well-foundedness of the naturals), as the provers cannot instantiate the
induction theorems.

`OpChaseProofs` proves, for any number of clients and of appends, `ChaseInvariantHolds`
(`ChaseInv`), `NumbersSuffice` and `HeadsGiveWayToDescendants` (`HeadsGiveWay`). Here
ancestry is a variable, so that it is a strict order has to be maintained while numbers
are forgotten and used again (`CreateKeeps`, `ForgetKeeps`). That the one maximal head
descends from all that are dropped for it takes a finite strict order (`BelowMaximal`).
That numbers never run out is a count (`EnoughNumbers`): only appends add to the heads,
and a client refers to no more operations than there were heads, and one.

`CloudInitProofs` proves, for any users, readers, directories, repository ids and number
of faults, `InitInvariantHolds` (`InitInv`), `InitTypesCorrect`,
`RepositoriesAreSeparate`, `CompleteIsPublished`, `BadConfigIsRemoval` and
`StoresNameOneRepository`. None of the last four properties is inductive. That two
workspaces share no repository needs to know that the id an init holds is not yet on any
disk nor in any other init's hands (`IdInv`); that a complete workspace is published
needs to know, stage by stage, what an init has left on disk and at the server so far
(`StageInv`), and so what a cleanup or a death leaves there; both need inits to work in
directories of their own (`DirInv`), which `.jj` ensures. What a command has loaded, or
config.toml held when it found a type file, is what config.toml holds still or an id
that is on no disk any more (`LoadedInv`, `FoundInv`), since a type file never stands
next to half a config.toml (`TypesInv`). A step of an init changes its own progress and
its own directory only, so the proof has one lemma for a step of one init (`OwnStep`)
under which the actions differ only in what they leave behind.

`ServerStartupProofs` proves, for any tests, ports and number of lines of output,
`StartupInvariantHolds` (`StartupInv`), `UrlIsOwnServer`, `SqliteIsRefused`,
`PanicIsJustified` and `AnswersAreServing`. A harness only knows what it has read, and a
server may be gone, or its port another's, by the time a line is read. `StartupInv`
therefore relates what was written to what was read: ports of running servers differ
(`PortInv`), a line in the pipe or in the harness's hands is one that this server wrote,
with the port that it then had (`LineInv`), the pipe ends only after the server has
(`PipeInv`), and requests are queued, handled and answered by a server in a state to do
so (`ServeInv`).

*Assumptions.* Those of `OpHeadsProofs` are on the graph (`GraphTypes`,
`RootAssumption`, `AncestorAssumption`, `MaximalAssumption`) and `ClientAssumption`.
Content addressing justifies the graph's: an id is a hash over the parents' ids. Those
of `CloudInitProofs` and `ServerStartupProofs` are that users and readers are different
processes (`ProcessAssumption`), that the marks for "no file" and "no port" are not ids,
directories or ports (`NameAssumption`, `PortAssumption`), and that bounds are natural
numbers (`FaultsAssumption`, `LinesAssumption`). `CommitObjectsProofs` has none beyond
what `Digests` takes of SHA-1. `OpObjectsProofs` has `ObjectsAssumption` and that `@` is
a character (`CharAssumption`); `OpChaseProofs` that clients and appends are finitely
many (`BoundAssumption`) and numbers enough (`IdAssumption`), where the program has ids
without limit. TLC evaluates them in the runs. The hypotheses of `IdsNameViews` and its
like are stated in the theorems.

Each inductive invariant is also an invariant of a run: `IInv`, `LineInv`, `ObjectsInv`,
`ObjectInv`, `InitInv`, `StartupInv` and `ChaseInv`. Those of `OpObjectsProofs`
(`StoredInv`, `ViewsInv`, `OperationsInv`) are `HeldWasWritten` and what it says of the
stored maps.

Only model-checked: `Convergence`, `ConvergesOnceAlone`, `InitSucceeds` and
`HarnessEnds`, as liveness under fairness is out of the prover's reach. Every invariant
and every action property of a passing run is stated by a theorem.

## Not modelled

- Symlinks, copies and submodules (errors only), `gc` and prefix resolution (no effect),
  the sizes of messages. A file is read as a stream of one chunk, which the models take
  for a unary answer.
- The handlers' own use of the six mutexes: no handler holds two, so none can wait for
  another.
- A view's git refs, which are not on the wire; a client's author as distinct from its
  committer; secure signatures, which are always absent on the way back.
- jj commands that rewrite the operation log itself, such as `jj op abandon`.
- The command line's dispatch, settings and signers, and the helpers of the test
  utilities that only run `jj cc init` and build binaries.

## Plan

1. `OpHeads` with its abstract specifications, runs and proofs: done.
2. `Digests`, `OpObjects`, `CommitObjects` and their runs: done for the operations
   above.
3. `CloudInit`, `ServerStartup`, `OpChase`: done.
4. `CloudStore`, composing commits, views and operations, with its proofs: done.
5. Proofs about `CommitObjects`, `CloudInit` and `ServerStartup`: done.
6. Proofs about `OpObjects` and `OpChase`: done.
7. Left for later: which of the conflicted bookmarks keep ids of their own, a hypothesis
   weaker than `NoConflicts`.
