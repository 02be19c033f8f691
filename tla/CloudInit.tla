----------------------------- MODULE CloudInit -----------------------------
(***************************************************************************)
(* `jj cc init': a repository is registered with the server, its id is     *)
(* written into the new workspace's config.toml, the three stores are set  *)
(* up one after the other, and a first operation is published.  Several    *)
(* users do this on one server, commands load workspaces meanwhile, and    *)
(* anything may fail or die in between.                                    *)
(*                                                                         *)
(* jj-lib's Workspace::init_with_factories drives the steps: it makes      *)
(* .jj or gives up when there is one, calls the initializers of init.rs,   *)
(* writes a `type' file after each, and removes .jj when one of them       *)
(* returns an error.                                                       *)
(***************************************************************************)
EXTENDS Integers, Sequences, FiniteSets

CONSTANTS
    User,       \* processes that run `jj cc init'
    Reader,     \* processes that load a workspace
    Dir,        \* destination directories
    RepoId,     \* the ids Uuid::new_v4 may produce
    MaxFaults   \* bound: failures, restarts and deaths

ASSUME FaultsAssumption == MaxFaults \in Nat

VARIABLES
    repos,      \* MemoryStore.repos
    used,       \* ids produced so far, by this server process or an earlier one
    logged,     \* repositories whose op head is the `add workspace' operation
    disk,       \* disk[d]: what is in .jj of directory d
    pc,         \* pc[u]: what init u does next
    at,         \* at[p]: the directory process p works in, if any
    mine,       \* mine[u]: the repository id init u holds, if any
    loaded,     \* loaded[k]: the ids the stores of command k have loaded
    found,      \* found[k]: what config.toml held when command k found the type
                \* file of the store it loads now, if it loads one
    died,       \* directories in which an init died
    faults      \* failures so far

server == <<repos, used, logged>>
vars == <<server, disk, pc, at, mine, loaded, found, died, faults>>

-----------------------------------------------------------------------------
(* Files.  config.toml is absent, created and still empty, or holds an id. *)

Nowhere == "nowhere"
NoFile == "none"
Created == "empty"
Store == <<"store", "op_store", "op_heads">>

ASSUME ProcessAssumption == User \cap Reader = {}
ASSUME NameAssumption == Nowhere \notin Dir /\ RepoId \cap {Nowhere, NoFile, Created} = {}

NoWorkspace == [made |-> FALSE, config |-> NoFile, types |-> {}, wc |-> FALSE]

\* The slip of going one directory too far up.
ConfigOutside(d) == {disk[e].config : e \in Dir}

\* The slip of having the stores look nowhere but in their own directory.
ConfigInOwnDirectory(d) == {}

\* load_from_store: the backend finds config.toml in its own directory, the
\* other stores have none and take the backend's.
ConfigFor(d) == {disk[d].config}

\* A store is loaded when its type file is there and config.toml parses.
Loadable(d, s) == s \in disk[d].types

-----------------------------------------------------------------------------
(* The server.                                                             *)

\* Ids that only differ from those of the repositories it has now.
UnregisteredIds == RepoId \ repos

\* Uuid::new_v4 does not produce an id twice, whatever a restart forgot.
FreshIds == RepoId \ used

\* register_repository
RegisterRepository(r) ==
    /\ repos' = repos \cup {r}
    /\ used' = used \cup {r}
    /\ UNCHANGED logged

-----------------------------------------------------------------------------
(* The steps of an init.                                                   *)

Goto(u, p) == pc' = [pc EXCEPT ![u] = p]
Active(u) == pc[u] # "idle"
Fault == faults < MaxFaults /\ faults' = faults + 1
Files(d, f) == disk' = [disk EXCEPT ![d] = f]

\* The process of an init is over.
Ends(u) ==
    /\ Goto(u, "idle")
    /\ at' = [at EXCEPT ![u] = Nowhere] /\ mine' = [mine EXCEPT ![u] = NoFile]

Init ==
    /\ repos = {} /\ used = {} /\ logged = {}
    /\ disk = [d \in Dir |-> NoWorkspace]
    /\ pc = [u \in User |-> "idle"]
    /\ at \in {[p \in User \cup Reader |-> IF p \in User THEN Nowhere ELSE in[p]] :
                 in \in [Reader -> Dir]}
    /\ mine = [u \in User |-> NoFile]
    /\ loaded = [k \in Reader |-> <<>>] /\ found = [k \in Reader |-> Nowhere]
    /\ died = {} /\ faults = 0

\* .jj is made, unless it is there already.
Start(u) ==
    /\ pc[u] = "idle"
    /\ \E d \in Dir :
          /\ ~disk[d].made
          /\ Files(d, [NoWorkspace EXCEPT !.made = TRUE])
          /\ at' = [at EXCEPT ![u] = d]
    /\ Goto(u, "register")
    /\ UNCHANGED <<server, mine, loaded, found, died, faults>>

\* CommitCloudBackend::init registers; the answer is heard, or is lost and
\* init fails although the server has one repository more.
Register(u) ==
    /\ pc[u] = "register"
    /\ \E r \in FreshIds :
          /\ RegisterRepository(r)
          /\ \/ /\ mine' = [mine EXCEPT ![u] = r] /\ Goto(u, "createConfig")
                /\ UNCHANGED faults
             \/ UNCHANGED mine /\ Goto(u, "cleanup") /\ Fault
    /\ UNCHANGED <<disk, at, loaded, found, died>>

\* fs::write creates the file and then fills it.
CreateConfig(u) ==
    /\ pc[u] = "createConfig"
    /\ Files(at[u], [disk[at[u]] EXCEPT !.config = Created])
    /\ Goto(u, "writeConfig")
    /\ UNCHANGED <<server, at, mine, loaded, found, died, faults>>

\* Leaving the contents in a buffer.
WriteConfigUnflushed(u) ==
    /\ pc[u] = "writeConfig"
    /\ Goto(u, "storeType")
    /\ \/ Files(at[u], [disk[at[u]] EXCEPT !.config = mine[u]])
       \/ UNCHANGED disk
    /\ UNCHANGED <<server, at, mine, loaded, found, died, faults>>

WriteConfig(u) ==
    /\ pc[u] = "writeConfig"
    /\ Files(at[u], [disk[at[u]] EXCEPT !.config = mine[u]])
    /\ Goto(u, "storeType")
    /\ UNCHANGED <<server, at, mine, loaded, found, died, faults>>

\* jj-lib writes `commit_cloud' into the store's type file.
WriteStoreType(u) ==
    /\ pc[u] = "storeType"
    /\ Files(at[u], [disk[at[u]] EXCEPT !.types = @ \cup {"store"}])
    /\ Goto(u, "op_store")
    /\ UNCHANGED <<server, at, mine, loaded, found, died, faults>>

\* CommitCloudOpStore::load and CommitCloudOpHeadsStore::load read config.toml
\* back; jj-lib writes the type file.  From here on mine[u] is what they read.
LoadStore(u) ==
    /\ pc[u] \in {"op_store", "op_heads"}
    /\ \E r \in ConfigFor(at[u]) : mine' = [mine EXCEPT ![u] = r]
    /\ Files(at[u], [disk[at[u]] EXCEPT !.types = @ \cup {pc[u]}])
    /\ Goto(u, IF pc[u] = "op_store" THEN "op_heads" ELSE "readRoot")
    /\ UNCHANGED <<server, at, loaded, found, died, faults>>

\* The root operation and its view are read; then the working-copy commit, a
\* view and the operation `add workspace' are written (see CloudStore).
ReadRoot(u) ==
    /\ pc[u] = "readRoot" /\ mine[u] \in repos
    /\ Goto(u, "publish")
    /\ UNCHANGED <<server, disk, at, mine, loaded, found, died, faults>>

\* Going on whatever became of the request.
PublishUnanswered(u) ==
    /\ pc[u] = "publish" /\ mine[u] \in repos
    /\ logged' = logged \cup {mine[u]} \/ UNCHANGED logged
    /\ Goto(u, "workingCopy") /\ UNCHANGED faults
    /\ UNCHANGED <<repos, used, disk, at, mine, loaded, found, died>>

\* A server that does not ask whether the repository is registered.
PublishUnchecked(u) ==
    /\ pc[u] = "publish"
    /\ logged' = logged \cup {mine[u]}
    /\ Goto(u, "workingCopy") /\ UNCHANGED faults
    /\ UNCHANGED <<repos, used, disk, at, mine, loaded, found, died>>

\* update_op_heads from the root to that operation.
Publish(u) ==
    /\ pc[u] = "publish" /\ mine[u] \in repos
    /\ logged' = logged \cup {mine[u]}
    /\ \/ Goto(u, "workingCopy") /\ UNCHANGED faults
       \/ Goto(u, "cleanup") /\ Fault
    /\ UNCHANGED <<repos, used, disk, at, mine, loaded, found, died>>

\* The working copy's type file is the last: init reports success.
FinishInit(u) ==
    /\ pc[u] = "workingCopy"
    /\ Files(at[u], [disk[at[u]] EXCEPT !.wc = TRUE])
    /\ Ends(u)
    /\ UNCHANGED <<server, loaded, found, died, faults>>

-----------------------------------------------------------------------------
(* What goes wrong.                                                        *)

\* A request that does not reach the server, or a file that cannot be written.
FailStep(u) ==
    /\ Active(u) /\ pc[u] # "cleanup"
    /\ Goto(u, "cleanup") /\ Fault
    /\ UNCHANGED <<server, disk, at, mine, loaded, found, died>>

\* The server does not know the repository (any more).  Where jj-lib reads the
\* root it takes an error for a bug and panics: nothing is cleaned up.
Refused(u) ==
    /\ pc[u] \in {"readRoot", "publish"} /\ mine[u] \notin repos
    /\ \/ Goto(u, "cleanup") /\ UNCHANGED <<at, mine, died>>
       \/ pc[u] = "readRoot" /\ Ends(u) /\ died' = died \cup {at[u]}
    /\ UNCHANGED <<server, disk, loaded, found, faults>>

\* remove_dir_all: one file after the other, in any order, then .jj itself.
RemoveFile(u) ==
    /\ pc[u] = "cleanup"
    /\ LET d == at[u] f == disk[d] IN
          \/ \E s \in f.types : Files(d, [f EXCEPT !.types = @ \ {s}])
          \/ f.config # NoFile /\ Files(d, [f EXCEPT !.config = NoFile])
    /\ UNCHANGED <<server, pc, at, mine, loaded, found, died, faults>>

RemoveWorkspace(u) ==
    /\ pc[u] = "cleanup"
    /\ disk[at[u]] = [NoWorkspace EXCEPT !.made = TRUE]
    /\ Files(at[u], NoWorkspace)
    /\ Ends(u)
    /\ UNCHANGED <<server, loaded, found, died, faults>>

\* The process is killed, also while it cleans up.
Die(u) ==
    /\ Active(u) /\ Fault
    /\ Ends(u) /\ died' = died \cup {at[u]}
    /\ UNCHANGED <<server, disk, loaded, found>>

\* The server forgets its repositories.
Restart ==
    /\ repos # {} /\ Fault
    /\ repos' = {} /\ logged' = {}
    /\ UNCHANGED <<used, disk, pc, at, mine, loaded, found, died>>

-----------------------------------------------------------------------------
(* Commands that load a workspace, as RepoLoader does: store by store.     *)

\* The type file of the next store names a store of this crate, whose load is
\* called.
FindType(k) ==
    /\ found[k] = Nowhere /\ Len(loaded[k]) < 3
    /\ Loadable(at[k], Store[Len(loaded[k]) + 1])
    /\ found' = [found EXCEPT ![k] = disk[at[k]].config]
    /\ UNCHANGED <<server, disk, pc, at, mine, loaded, died, faults>>

\* load_from_store reads config.toml, whatever has become of the workspace by
\* then.  Both its branches come to that one file: the backend's directory is
\* its own parent's `store', so that exists() decides nothing.  A file that is
\* missing or empty is an error, and ends the command.
ReadConfig(k) ==
    /\ found[k] # Nowhere
    /\ \E r \in ConfigFor(at[k]) :
          loaded' = [loaded EXCEPT ![k] = IF r \in RepoId THEN Append(@, r) ELSE <<>>]
    /\ found' = [found EXCEPT ![k] = Nowhere]
    /\ UNCHANGED <<server, disk, pc, at, mine, died, faults>>

\* The command is over: it has run, was killed, or found no type file.
EndLoad(k) ==
    /\ loaded[k] # <<>> \/ found[k] # Nowhere
    /\ loaded' = [loaded EXCEPT ![k] = <<>>]
    /\ found' = [found EXCEPT ![k] = Nowhere]
    /\ UNCHANGED <<server, disk, pc, at, mine, died, faults>>

InitStep(u) ==
    \/ Register(u) \/ CreateConfig(u) \/ WriteConfig(u) \/ WriteStoreType(u)
    \/ LoadStore(u) \/ ReadRoot(u) \/ Publish(u)
    \/ FinishInit(u) \/ Refused(u) \/ RemoveFile(u) \/ RemoveWorkspace(u)

Next ==
    \/ \E u \in User : Start(u) \/ InitStep(u) \/ FailStep(u) \/ Die(u)
    \/ \E k \in Reader : FindType(k) \/ ReadConfig(k) \/ EndLoad(k)
    \/ Restart

Spec == Init /\ [][Next]_vars

-----------------------------------------------------------------------------
(* Properties.                                                             *)

Stage ==
    {"idle", "register", "createConfig", "writeConfig", "storeType", "op_store",
     "op_heads", "readRoot", "publish", "workingCopy", "cleanup"}

Types == {"store", "op_store", "op_heads"}
File == [made : BOOLEAN, config : RepoId \cup {NoFile, Created},
         types : SUBSET Types, wc : BOOLEAN]

\* The variables hold values of their types.
TypeOK ==
    /\ repos \subseteq used /\ used \subseteq RepoId /\ logged \subseteq repos
    /\ disk \in [Dir -> File]
    /\ pc \in [User -> Stage] /\ mine \in [User -> RepoId \cup {NoFile}]
    /\ at \in [User \cup Reader -> Dir \cup {Nowhere}] /\ died \subseteq Dir
    /\ loaded \in [Reader -> Seq(RepoId)]
    /\ found \in [Reader -> RepoId \cup {NoFile, Created, Nowhere}]
    /\ faults \in 0..MaxFaults

\* No two workspaces share a repository, even when the server has restarted
\* and knows nothing of the first: a stale workspace is refused rather than
\* let into somebody else's repository.
OwnRepository ==
    \A d, e \in Dir :
        disk[d].config = disk[e].config /\ disk[d].config \in RepoId => d = e

\* A workspace that is complete has its first operation at the server for as
\* long as the server knows its repository: whatever an init that reports
\* success was not sure of, it has not taken for granted.
ReadyMeansPublished ==
    \A d \in Dir : disk[d].wc =>
        /\ disk[d].types = Types
        /\ disk[d].config \in used
        /\ disk[d].config \in repos => disk[d].config \in logged

\* Between finding the type file and reading config.toml a command may lose its
\* workspace to a failing init, and even find one in the making in its place.
\* It comes to a config.toml that is missing or half written in no other way:
\* the init was removing its files, or the one it had written is gone by now.
BadConfigMeansRemoved ==
    \A k \in Reader :
        found[k] # Nowhere /\ disk[at[k]].config \notin RepoId =>
            found[k] = NoFile \/ found[k] \in used \ {disk[d].config : d \in Dir}

\* The three stores of a command read config.toml one by one.  They name one
\* repository, unless the workspace the command began with was removed by its
\* failing init meanwhile and made again.
StoresAgree ==
    \A k \in Reader : \A i, j \in DOMAIN loaded[k] :
        loaded[k][i] # loaded[k][j] =>
            {loaded[k][i], loaded[k][j]} \cap (used \ {disk[d].config : d \in Dir}) # {}

\* Ids in use: on disk, or about to be written there by an init.
OnDisk == {disk[d].config : d \in Dir}
Holder == {u \in User : pc[u] \in {"createConfig", "writeConfig"}}

\* What an init has on disk follows from how far it has come.
StageOf(u) == LET f == disk[at[u]] IN
    /\ pc[u] = "idle" <=> at[u] = Nowhere
    /\ Active(u) => f.made /\ ~f.wc
    /\ pc[u] \in {"register", "createConfig"} => f.config = NoFile
    /\ pc[u] = "writeConfig" => f.config = Created
    /\ pc[u] \in {"storeType", "op_store", "op_heads", "readRoot", "publish",
                  "workingCopy"} => f.config = mine[u] /\ mine[u] \in used
    /\ pc[u] \in {"register", "createConfig", "writeConfig", "storeType"} => f.types = {}
    /\ pc[u] = "op_store" => f.types = {"store"}
    /\ pc[u] = "op_heads" => f.types = {"store", "op_store"}
    /\ pc[u] \in {"readRoot", "publish", "workingCopy"} =>
            f.types = Types
    /\ pc[u] = "workingCopy" /\ mine[u] \in repos => mine[u] \in logged

StageInv == \A u \in User : StageOf(u)

\* Inits work in directories of their own, which .jj keeps others out of.
DirInv ==
    /\ \A u, v \in User : Active(u) /\ at[u] = at[v] => u = v
    /\ \A d \in Dir : ~disk[d].made => disk[d] = NoWorkspace

\* An id that was registered for one init is nobody else's: it is not on any
\* disk before that init has written it, and no command has loaded it.
IdInv ==
    /\ OnDisk \subseteq used \cup {NoFile, Created}
    /\ \A u \in Holder :
          /\ mine[u] \in used /\ mine[u] \notin OnDisk
          /\ \A v \in Holder : mine[u] = mine[v] => u = v
          /\ \A k \in Reader : \A i \in DOMAIN loaded[k] : loaded[k][i] # mine[u]

\* What a store of a command has loaded is what config.toml of its directory
\* says, unless that file is gone for good.
LoadedInv == \A k \in Reader :
    /\ at[k] \in Dir
    /\ \A i \in DOMAIN loaded[k] :
          /\ loaded[k][i] \in used
          /\ loaded[k][i] \in OnDisk => loaded[k][i] = disk[at[k]].config

\* A type file is written after config.toml and never stands next to half of it.
TypesInv == \A d \in Dir : disk[d].types # {} => disk[d].config # Created

\* So is what config.toml held when a command found a type file.
FoundInv == \A k \in Reader : found[k] # Nowhere =>
    /\ found[k] # Created
    /\ found[k] \in RepoId =>
          /\ found[k] \in used
          /\ found[k] \in OnDisk => found[k] = disk[at[k]].config
          /\ \A u \in Holder : mine[u] # found[k]

\* The inductive invariant.
InitInv ==
    /\ TypeOK /\ StageInv /\ DirInv /\ IdInv /\ LoadedInv /\ FoundInv /\ TypesInv
    /\ OwnRepository /\ ReadyMeansPublished

\* A step of an init that can be taken is taken.  Users try again.
Fairness ==
    /\ \A u \in User : WF_vars(InitStep(u))
    /\ WF_vars(\E u \in User : Start(u))

FairSpec == Spec /\ Fairness

\* Unless an init dies there, every directory gets its workspace in spite of
\* finitely many failures, lost answers and restarts.
InitSucceeds == \A d \in Dir : <>(disk[d].wc \/ d \in died)

=============================================================================
