-------------------------- MODULE CloudInitProofs --------------------------
(***************************************************************************)
(* Proofs about CloudInit, for any users, readers, directories and ids,    *)
(* and any number of faults.                                               *)
(***************************************************************************)
EXTENDS CloudInit, TLAPS

-----------------------------------------------------------------------------
(* Types.                                                                  *)

\* What is known of one process and its directory while an init runs.
LEMMA ActiveFacts ==
    ASSUME InitInv, NEW u \in User, Active(u)
    PROVE  /\ at[u] \in Dir /\ disk[at[u]] \in File /\ StageOf(u)
           /\ disk[at[u]].made /\ ~disk[at[u]].wc
           /\ \A v \in User : Active(v) /\ at[v] = at[u] => v = u
<1>1. at[u] \in Dir
  BY DEF InitInv, TypeOK, StageInv, StageOf, Active
<1>2. disk[at[u]] \in File
  BY <1>1 DEF InitInv, TypeOK, File, Types
<1> QED
  BY <1>1, <1>2 DEF InitInv, StageInv, StageOf, DirInv, Active

LEMMA GotoFacts ==
    ASSUME TypeOK, NEW u \in User, NEW p \in Stage, Goto(u, p)
    PROVE  /\ pc' \in [User -> Stage] /\ pc'[u] = p
           /\ \A v \in User \ {u} : pc'[v] = pc[v]
  BY DEF TypeOK, Goto

LEMMA FaultFacts ==
    ASSUME TypeOK, Fault
    PROVE  faults' \in 0..MaxFaults
  BY FaultsAssumption DEF TypeOK, Fault

LEMMA EndsFacts ==
    ASSUME TypeOK, NEW u \in User, Ends(u)
    PROVE  /\ pc' \in [User -> Stage] /\ pc'[u] = "idle" /\ at'[u] = Nowhere
           /\ \A v \in User \ {u} : pc'[v] = pc[v] /\ mine'[v] = mine[v]
           /\ \A q \in (User \cup Reader) \ {u} : at'[q] = at[q]
           /\ mine' \in [User -> RepoId \cup {NoFile}]
           /\ at' \in [User \cup Reader -> Dir \cup {Nowhere}]
  BY DEF TypeOK, Ends, Goto, Stage

LEMMA NoWorkspaceType == NoWorkspace \in File /\ [NoWorkspace EXCEPT !.made = TRUE] \in File
  BY DEF NoWorkspace, File, NoFile

\* An init's writes change what is in its own directory into files again.
LEMMA FilesType ==
    ASSUME TypeOK, NEW d \in Dir, NEW f \in File, Files(d, f)
    PROVE  /\ disk' \in [Dir -> File]
           /\ disk'[d] = f
           /\ \A e \in Dir : e # d => disk'[e] = disk[e]
  BY DEF Files, TypeOK

LEMMA InitInvInit == Init => InitInv
<1> SUFFICES ASSUME Init PROVE InitInv
  OBVIOUS
<1>1. TypeOK
  <2>1. disk \in [Dir -> File]
    BY NoWorkspaceType DEF Init
  <2>2. at \in [User \cup Reader -> Dir \cup {Nowhere}]
    BY DEF Init
  <2> QED
    BY <2>1, <2>2, FaultsAssumption DEF Init, TypeOK, Stage
<1>2. StageInv
  BY ProcessAssumption DEF Init, StageInv, StageOf, Active
<1>3. DirInv /\ IdInv /\ OwnRepository /\ ReadyMeansPublished /\ TypesInv
  BY NameAssumption DEF Init, DirInv, IdInv, Holder, OnDisk, Active, OwnRepository,
     ReadyMeansPublished, TypesInv, NoWorkspace
<1>4. LoadedInv /\ FoundInv
  BY ProcessAssumption DEF Init, LoadedInv, FoundInv
<1> QED
  BY <1>1, <1>2, <1>3, <1>4 DEF InitInv

-----------------------------------------------------------------------------
(* Steps.  In each, the conjuncts that the step can disturb come first.    *)

LEMMA StartStep ==
    ASSUME InitInv, NEW u \in User, Start(u)
    PROVE  InitInv'
<1> USE DEF InitInv
<1>1. PICK d \in Dir :
          /\ ~disk[d].made /\ Files(d, [NoWorkspace EXCEPT !.made = TRUE])
          /\ at' = [at EXCEPT ![u] = d]
  BY DEF Start
<1>2. /\ disk' \in [Dir -> File]
      /\ \A e \in Dir : e # d => disk'[e] = disk[e]
  BY <1>1, NoWorkspaceType, FilesType
<1>3. /\ disk'[d].made /\ ~disk'[d].wc
      /\ disk'[d].config = NoFile /\ disk'[d].types = {}
      /\ disk[d].config = NoFile
  <2>1. disk[d] = NoWorkspace /\ disk'[d] = [NoWorkspace EXCEPT !.made = TRUE]
    BY <1>1, NoWorkspaceType, FilesType DEF DirInv
  <2> QED
    BY <2>1 DEF NoWorkspace
<1>4. /\ at'[u] = d /\ pc'[u] = "register" /\ pc[u] = "idle"
      /\ \A v \in User \ {u} : at'[v] = at[v] /\ pc'[v] = pc[v]
      /\ \A k \in Reader : at'[k] = at[k]
      /\ UNCHANGED <<server, mine, loaded, found, died, faults>>
  BY <1>1, ProcessAssumption DEF Start, Goto, TypeOK
<1>5. TypeOK'
  BY <1>1, <1>2, <1>4 DEF TypeOK, Start, Goto, server, Stage
<1>6. \A v \in User : at[v] # d /\ (Active(v) => at[v] \in Dir)
  BY <1>1, ActiveFacts, NameAssumption DEF StageInv, StageOf, Active
<1>7. StageInv'
  <2> SUFFICES ASSUME NEW v \in User
               PROVE  StageOf(v)'
    BY DEF StageInv
  <2> QED
    BY <1>2, <1>3, <1>4, <1>6, NameAssumption DEF StageInv, StageOf, Active, server
<1>8. DirInv'
  BY <1>2, <1>3, <1>4, <1>6 DEF DirInv, Active
<1>9. OnDisk' = OnDisk
  <2>1. \A e \in Dir : disk'[e].config = disk[e].config
    BY <1>2, <1>3
  <2> QED
    BY <2>1 DEF OnDisk
<1>10. Holder' = Holder
  BY <1>4 DEF Holder
<1>11. IdInv' /\ LoadedInv'
  BY <1>2, <1>3, <1>4, <1>9, <1>10 DEF IdInv, LoadedInv, Holder, server
<1>12. OwnRepository' /\ ReadyMeansPublished' /\ TypesInv'
  BY <1>2, <1>3, <1>4, NameAssumption
     DEF OwnRepository, ReadyMeansPublished, TypesInv, server
<1>13. \A k \in Reader : disk'[at'[k]].config = disk[at[k]].config
  BY <1>2, <1>3, <1>4 DEF LoadedInv
<1>14. FoundInv'
  BY <1>4, <1>9, <1>10, <1>13 DEF FoundInv, Holder, server
<1> QED
  BY <1>5, <1>7, <1>8, <1>11, <1>12, <1>14

\* What a step of an init in its own directory has to see to: that its stage
\* and its files fit, and that it writes no id but the one it holds.
OwnChange(u) ==
    LET d == at[u] IN
    /\ UNCHANGED <<repos, used, loaded, found>> /\ logged \subseteq logged'
    /\ \A v \in User \ {u} : pc'[v] = pc[v] /\ mine'[v] = mine[v]
    /\ \A q \in (User \cup Reader) \ {u} : at'[q] = at[q]
    /\ \A e \in Dir \ {d} : disk'[e] = disk[e]
    /\ at'[u] = IF pc'[u] = "idle" THEN Nowhere ELSE d
    /\ StageOf(u)'
    /\ u \in Holder' => u \in Holder /\ mine'[u] = mine[u]
    /\ \/ disk'[d].config \in {disk[d].config, NoFile, Created}
       \/ disk'[d].config = mine[u] /\ u \in Holder /\ u \notin Holder'
    /\ ~disk'[d].made => disk'[d] = NoWorkspace
    /\ disk'[d].types # {} => disk'[d].config # Created
    /\ disk'[d].wc =>
          /\ disk'[d].types = Types
          /\ disk'[d].config \in used
          /\ disk'[d].config \in repos => disk'[d].config \in logged'

LEMMA OwnStep ==
    ASSUME InitInv, TypeOK', NEW u \in User, Active(u), OwnChange(u)
    PROVE  InitInv'
<1> USE DEF InitInv, OwnChange
<1> DEFINE d == at[u]
<1>1. /\ d \in Dir /\ d # Nowhere
      /\ \A v \in User \ {u} : at[v] # d
  BY ActiveFacts, NameAssumption DEF StageInv, StageOf, Active
<1> HIDE DEF d
<1>2. StageInv'
  <2> SUFFICES ASSUME NEW v \in User \ {u}
               PROVE  StageOf(v)'
    BY DEF StageInv
  <2>1. CASE Active(v)
    <3>1. at[v] \in Dir \ {d} /\ disk'[at'[v]] = disk[at[v]]
      BY <1>1, <2>1, ActiveFacts DEF d
    <3> QED
      BY <2>1, <3>1 DEF StageInv, StageOf, Active
  <2>2. CASE ~Active(v)
    BY <2>2 DEF StageInv, StageOf, Active
  <2> QED
    BY <2>1, <2>2
<1>3. DirInv'
  <2>1. ASSUME NEW v \in User, NEW w \in User, Active(v)', at'[v] = at'[w]
        PROVE  v = w
    BY <1>1, <1>2, <2>1 DEF DirInv, StageInv, StageOf, Active, d
  <2>2. ASSUME NEW e \in Dir, ~disk'[e].made
        PROVE  disk'[e] = NoWorkspace
    BY <2>2 DEF DirInv
  <2> QED
    BY <2>1, <2>2 DEF DirInv
<1>4. \/ OnDisk' \subseteq OnDisk \cup {NoFile, Created}
      \/ OnDisk' \subseteq OnDisk \cup {mine[u]} /\ u \in Holder /\ u \notin Holder'
  <2>1. CASE disk'[d].config \in {disk[d].config, NoFile, Created}
    BY <1>1, <2>1 DEF OnDisk, d
  <2>2. CASE disk'[d].config = mine[u] /\ u \in Holder /\ u \notin Holder'
    BY <1>1, <2>2 DEF OnDisk, d
  <2> QED
    BY <2>1, <2>2 DEF d
<1>5. /\ Holder' \subseteq Holder
      /\ \A v \in Holder' : mine'[v] = mine[v] /\ mine[v] \in RepoId
  BY DEF Holder, IdInv, TypeOK
<1>6. IdInv'
  <2>1. OnDisk' \subseteq used' \cup {NoFile, Created}
    BY <1>4 DEF IdInv
  <2>2. ASSUME NEW v \in Holder'
        PROVE  mine'[v] \notin OnDisk'
    BY <1>4, <1>5, NameAssumption DEF IdInv
  <2> QED
    BY <1>5, <2>1, <2>2 DEF IdInv
<1>7. OwnRepository'
  <2>1. CASE disk'[d].config \in {disk[d].config, NoFile, Created}
    BY <1>1, <2>1, NameAssumption DEF OwnRepository, d
  <2>2. CASE disk'[d].config = mine[u] /\ u \in Holder
    BY <1>1, <2>2 DEF OwnRepository, IdInv, OnDisk, d
  <2> QED
    BY <2>1, <2>2 DEF d
<1>8. ASSUME NEW k \in Reader
      PROVE  at'[k] = at[k] /\ at[k] \in Dir
  BY ProcessAssumption DEF LoadedInv
<1>9. ASSUME NEW k \in Reader, NEW r \in RepoId, r \in OnDisk', u \in Holder => r # mine[u],
             r \in OnDisk => r = disk[at[k]].config
      PROVE  r = disk'[at'[k]].config
  <2>1. r \in OnDisk
    BY <1>4, <1>9, NameAssumption
  <2>2. r = disk[at[k]].config
    BY <1>9, <2>1
  <2>3. PICK e \in Dir : r = disk'[e].config
    BY <1>9 DEF OnDisk
  <2>4. CASE e = at[k]
    BY <1>8, <2>3, <2>4
  <2>5. CASE e # at[k] /\ e # d
    <3>1. disk'[e] = disk[e]
      BY <2>5 DEF d
    <3>2. disk[e].config = disk[at[k]].config /\ disk[e].config \in RepoId
      BY <1>9, <2>2, <2>3, <3>1
    <3>3. e = at[k]
      BY <1>8, <3>2 DEF OwnRepository
    <3> QED
      BY <2>5, <3>3
  <2>6. CASE e # at[k] /\ e = d
    BY <1>8, <2>2, <2>6 DEF d
  <2> QED
    BY <2>4, <2>5, <2>6
<1>10. LoadedInv'
  <2> SUFFICES ASSUME NEW k \in Reader
               PROVE  /\ at'[k] \in Dir
                      /\ \A i \in DOMAIN loaded[k] :
                            /\ loaded[k][i] \in used
                            /\ loaded[k][i] \in OnDisk' =>
                                    loaded[k][i] = disk'[at'[k]].config
    BY DEF LoadedInv
  <2>1. ASSUME NEW i \in DOMAIN loaded[k], loaded[k][i] \in OnDisk'
        PROVE  loaded[k][i] = disk'[at'[k]].config
    <3>1. loaded[k][i] \in RepoId
      BY DEF TypeOK
    <3>2. u \in Holder => loaded[k][i] # mine[u]
      BY DEF IdInv
    <3>3. loaded[k][i] \in OnDisk => loaded[k][i] = disk[at[k]].config
      BY DEF LoadedInv
    <3> QED
      BY <1>9, <2>1, <3>1, <3>2, <3>3
  <2> QED
    BY <1>8, <2>1 DEF LoadedInv
<1>11. FoundInv'
  <2> SUFFICES ASSUME NEW k \in Reader, found[k] # Nowhere
               PROVE  /\ found[k] # Created
                      /\ found[k] \in RepoId =>
                            /\ found[k] \in used
                            /\ found[k] \in OnDisk' => found[k] = disk'[at'[k]].config
                            /\ \A v \in Holder' : mine'[v] # found[k]
    BY DEF FoundInv
  <2>1. ASSUME found[k] \in RepoId, found[k] \in OnDisk'
        PROVE  found[k] = disk'[at'[k]].config
    <3>1. u \in Holder => found[k] # mine[u]
      BY <2>1 DEF FoundInv
    <3>2. found[k] \in OnDisk => found[k] = disk[at[k]].config
      BY <2>1 DEF FoundInv
    <3> QED
      BY <1>9, <2>1, <3>1, <3>2
  <2> QED
    BY <1>5, <2>1 DEF FoundInv
<1>12. ReadyMeansPublished' /\ TypesInv'
  BY <1>1 DEF ReadyMeansPublished, TypesInv, Types, d
<1> QED
  BY <1>2, <1>3, <1>6, <1>7, <1>10, <1>11, <1>12

LEMMA RegisterStep ==
    ASSUME InitInv, NEW u \in User, Register(u)
    PROVE  InitInv'
<1> USE DEF InitInv
<1>1. PICK r \in FreshIds :
          /\ RegisterRepository(r)
          /\ \/ /\ mine' = [mine EXCEPT ![u] = r] /\ Goto(u, "createConfig")
                /\ UNCHANGED faults
             \/ UNCHANGED mine /\ Goto(u, "cleanup") /\ Fault
  BY DEF Register
<1>2. r \in RepoId /\ r \notin used /\ r \notin OnDisk
  BY <1>1, NameAssumption DEF FreshIds, IdInv
<1>3. /\ repos' = repos \cup {r} /\ used' = used \cup {r} /\ logged' = logged
      /\ pc[u] = "register" /\ \A v \in User \ {u} : pc'[v] = pc[v] /\ mine'[v] = mine[v]
      /\ \/ pc'[u] = "createConfig" /\ mine'[u] = r
         \/ pc'[u] = "cleanup" /\ mine'[u] = mine[u]
      /\ UNCHANGED <<disk, at, loaded, found, died>>
  BY <1>1 DEF Register, RegisterRepository, Goto, TypeOK
<1>4. TypeOK'
  <2>1. pc' \in [User -> Stage] /\ mine' \in [User -> RepoId \cup {NoFile}]
    BY <1>1, <1>2 DEF TypeOK, Goto, Stage
  <2>2. faults' \in 0..MaxFaults
    BY <1>1, FaultsAssumption DEF TypeOK, Fault
  <2> QED
    BY <1>2, <1>3, <2>1, <2>2 DEF TypeOK
<1>5. StageInv'
  BY <1>2, <1>3 DEF StageInv, StageOf, Active, IdInv
<1>6. DirInv'
  BY <1>3 DEF DirInv, Active
<1>7. OnDisk' = OnDisk /\ Holder' \subseteq Holder \cup {u}
  BY <1>3 DEF OnDisk, Holder
<1>8. IdInv' /\ LoadedInv'
  <2>1. OnDisk' \subseteq used' \cup {NoFile, Created}
    BY <1>3, <1>7 DEF IdInv
  <2>2. ASSUME NEW v \in Holder'
        PROVE  /\ mine'[v] \in used' /\ mine'[v] \notin OnDisk'
               /\ \A w \in Holder' : mine'[v] = mine'[w] => v = w
               /\ \A k \in Reader : \A i \in DOMAIN loaded'[k] : loaded'[k][i] # mine'[v]
    BY <1>2, <1>3, <1>7 DEF IdInv, LoadedInv, Holder
  <2> QED
    BY <1>3, <1>7, <2>1, <2>2 DEF IdInv, LoadedInv
<1>9. OwnRepository' /\ ReadyMeansPublished' /\ TypesInv'
  BY <1>2, <1>3 DEF OwnRepository, ReadyMeansPublished, TypesInv, OnDisk
<1>10. FoundInv'
  <2> SUFFICES ASSUME NEW k \in Reader, found[k] \in RepoId, NEW v \in Holder'
               PROVE  mine'[v] # found[k]
    BY <1>3, <1>7 DEF FoundInv
  <2> QED
    BY <1>2, <1>3, <1>7, NameAssumption DEF FoundInv, Holder
<1> QED
  BY <1>4, <1>5, <1>6, <1>8, <1>9, <1>10

\* Steps of an init that write a file and go on.

LEMMA CreateConfigStep ==
    ASSUME InitInv, NEW u \in User, CreateConfig(u)
    PROVE  InitInv'
<1> DEFINE f == [disk[at[u]] EXCEPT !.config = Created]
<1>1. Active(u) /\ pc[u] = "createConfig" /\ UNCHANGED <<server, at, mine, loaded, found, died, faults>>
  BY DEF CreateConfig, Active
<1>2. at[u] \in Dir /\ disk[at[u]] \in File /\ disk[at[u]].made /\ ~disk[at[u]].wc
  BY <1>1, ActiveFacts
<1>3. f \in File /\ f.made /\ ~f.wc /\ f.config = Created /\ f.types = {}
  BY <1>1, <1>2, ActiveFacts DEF StageOf, File, Types, InitInv
<1>4. Files(at[u], f)
  BY DEF CreateConfig
<1> HIDE DEF f
<1>5. /\ disk' \in [Dir -> File] /\ disk'[at[u]] = f
      /\ \A e \in Dir \ {at[u]} : disk'[e] = disk[e]
  BY <1>2, <1>3, <1>4, FilesType DEF InitInv
<1>6. /\ pc' \in [User -> Stage] /\ pc'[u] = "writeConfig"
      /\ \A v \in User \ {u} : pc'[v] = pc[v]
  BY GotoFacts DEF CreateConfig, InitInv, Stage
<1>7. TypeOK'
  BY <1>1, <1>5, <1>6 DEF InitInv, TypeOK, server
<1>8. StageOf(u)'
  BY <1>1, <1>2, <1>3, <1>5, <1>6, NameAssumption DEF StageOf, Active, server
<1>9. OwnChange(u)
  BY <1>1, <1>2, <1>3, <1>5, <1>6, <1>8, NameAssumption DEF OwnChange, Holder, server
<1> QED
  BY <1>1, <1>7, <1>9, OwnStep

LEMMA WriteConfigStep ==
    ASSUME InitInv, NEW u \in User, WriteConfig(u)
    PROVE  InitInv'
<1> DEFINE f == [disk[at[u]] EXCEPT !.config = mine[u]]
<1>1. Active(u) /\ pc[u] = "writeConfig" /\ UNCHANGED <<server, at, mine, loaded, found, died, faults>>
  BY DEF WriteConfig, Active
<1>2. at[u] \in Dir /\ disk[at[u]] \in File /\ disk[at[u]].made /\ ~disk[at[u]].wc
  BY <1>1, ActiveFacts
<1>3. /\ f \in File /\ f.made /\ ~f.wc /\ f.config = mine[u] /\ f.types = {}
      /\ mine[u] \in used /\ mine[u] \in RepoId
  BY <1>1, <1>2, ActiveFacts DEF StageOf, File, Types, InitInv, IdInv, Holder, TypeOK
<1>4. Files(at[u], f)
  BY DEF WriteConfig
<1> HIDE DEF f
<1>5. /\ disk' \in [Dir -> File] /\ disk'[at[u]] = f
      /\ \A e \in Dir \ {at[u]} : disk'[e] = disk[e]
  BY <1>2, <1>3, <1>4, FilesType DEF InitInv
<1>6. /\ pc' \in [User -> Stage] /\ pc'[u] = "storeType"
      /\ \A v \in User \ {u} : pc'[v] = pc[v]
  BY GotoFacts DEF WriteConfig, InitInv, Stage
<1>7. TypeOK'
  BY <1>1, <1>5, <1>6 DEF InitInv, TypeOK, server
<1>8. StageOf(u)'
  BY <1>1, <1>2, <1>3, <1>5, <1>6, NameAssumption DEF StageOf, Active, server
<1>9. OwnChange(u)
  BY <1>1, <1>2, <1>3, <1>5, <1>6, <1>8, NameAssumption DEF OwnChange, Holder, server
<1> QED
  BY <1>1, <1>7, <1>9, OwnStep

LEMMA WriteStoreTypeStep ==
    ASSUME InitInv, NEW u \in User, WriteStoreType(u)
    PROVE  InitInv'
<1> DEFINE f == [disk[at[u]] EXCEPT !.types = @ \cup {"store"}]
<1>1. Active(u) /\ pc[u] = "storeType" /\ UNCHANGED <<server, at, mine, loaded, found, died, faults>>
  BY DEF WriteStoreType, Active
<1>2. at[u] \in Dir /\ disk[at[u]] \in File /\ disk[at[u]].made /\ ~disk[at[u]].wc
  BY <1>1, ActiveFacts
<1>3. /\ f \in File /\ f.made /\ ~f.wc /\ f.config = mine[u] /\ f.types = {"store"}
      /\ mine[u] \in used /\ mine[u] \in RepoId /\ disk[at[u]].config = mine[u]
  BY <1>1, <1>2, ActiveFacts DEF StageOf, File, Types, InitInv, TypeOK
<1>4. Files(at[u], f)
  BY DEF WriteStoreType
<1> HIDE DEF f
<1>5. /\ disk' \in [Dir -> File] /\ disk'[at[u]] = f
      /\ \A e \in Dir \ {at[u]} : disk'[e] = disk[e]
  BY <1>2, <1>3, <1>4, FilesType DEF InitInv
<1>6. /\ pc' \in [User -> Stage] /\ pc'[u] = "op_store"
      /\ \A v \in User \ {u} : pc'[v] = pc[v]
  BY GotoFacts DEF WriteStoreType, InitInv, Stage
<1>7. TypeOK'
  BY <1>1, <1>5, <1>6 DEF InitInv, TypeOK, server
<1>8. StageOf(u)'
  BY <1>1, <1>2, <1>3, <1>5, <1>6, NameAssumption DEF StageOf, Active, server
<1>9. OwnChange(u)
  BY <1>1, <1>2, <1>3, <1>5, <1>6, <1>8, NameAssumption DEF OwnChange, Holder, server
<1> QED
  BY <1>1, <1>7, <1>9, OwnStep

\* CommitCloudOpStore::load and CommitCloudOpHeadsStore::load find the id that
\* this init has written.
LEMMA LoadStoreStep ==
    ASSUME InitInv, NEW u \in User, LoadStore(u)
    PROVE  InitInv'
<1> DEFINE f == [disk[at[u]] EXCEPT !.types = @ \cup {pc[u]}]
           next == IF pc[u] = "op_store" THEN "op_heads" ELSE "readRoot"
<1>1. /\ Active(u) /\ pc[u] \in {"op_store", "op_heads"}
      /\ UNCHANGED <<server, at, loaded, found, died, faults>>
  BY DEF LoadStore, Active
<1>2. at[u] \in Dir /\ disk[at[u]] \in File /\ disk[at[u]].made /\ ~disk[at[u]].wc
  BY <1>1, ActiveFacts
<1>3. /\ disk[at[u]].config = mine[u] /\ mine[u] \in used
      /\ pc[u] = "op_store" => disk[at[u]].types = {"store"}
      /\ pc[u] = "op_heads" => disk[at[u]].types = {"store", "op_store"}
  BY <1>1, ActiveFacts DEF StageOf
<1>4. /\ f \in File /\ f.made /\ ~f.wc /\ f.config = mine[u]
      /\ f.types = disk[at[u]].types \cup {pc[u]}
  <2>1. disk[at[u]].types \cup {pc[u]} \subseteq Types
    BY <1>1, <1>3 DEF Types
  <2> HIDE DEF next
  <2> QED
    BY <1>2, <1>3, <2>1 DEF File
<1>5. Files(at[u], f) /\ Goto(u, next)
  BY DEF LoadStore
<1> HIDE DEF f
<1>6. /\ disk' \in [Dir -> File] /\ disk'[at[u]] = f
      /\ \A e \in Dir \ {at[u]} : disk'[e] = disk[e]
  BY <1>2, <1>4, <1>5, FilesType DEF InitInv
<1>7. mine' = mine
  <2>1. mine' = [mine EXCEPT ![u] = disk[at[u]].config]
    BY DEF LoadStore, ConfigFor
  <2> QED
    BY <1>3, <2>1 DEF InitInv, TypeOK
<1>8. /\ pc' \in [User -> Stage] /\ pc'[u] = next
      /\ \A v \in User \ {u} : pc'[v] = pc[v]
  BY <1>5, GotoFacts DEF InitInv, Stage
<1>9. TypeOK'
  BY <1>1, <1>6, <1>7, <1>8 DEF InitInv, TypeOK, server
<1>10. f.types = IF pc[u] = "op_store" THEN {"store", "op_store"} ELSE Types
  BY <1>1, <1>3, <1>4 DEF Types
<1>11. StageOf(u)'
  BY <1>1, <1>2, <1>3, <1>4, <1>6, <1>7, <1>8, <1>10, NameAssumption
     DEF StageOf, Active, server
<1>12. disk[at[u]].config \in RepoId
  BY <1>3 DEF InitInv, TypeOK
<1>13. OwnChange(u)
  BY <1>1, <1>2, <1>3, <1>4, <1>6, <1>7, <1>8, <1>11, <1>12, NameAssumption
     DEF OwnChange, Holder, server
<1> QED
  BY <1>1, <1>9, <1>13, OwnStep

\* Steps of an init that leave its directory alone.
LEMMA NoFileStep ==
    ASSUME InitInv, TypeOK', NEW u \in User, Active(u),
           UNCHANGED <<repos, used, disk, loaded, found>>, logged \subseteq logged',
           \A v \in User \ {u} : pc'[v] = pc[v] /\ mine'[v] = mine[v],
           \A q \in (User \cup Reader) \ {u} : at'[q] = at[q],
           at'[u] = IF pc'[u] = "idle" THEN Nowhere ELSE at[u],
           StageOf(u)', u \notin Holder'
    PROVE  InitInv'
<1>1. at[u] \in Dir /\ ~disk[at[u]].wc /\ disk[at[u]].made
  BY ActiveFacts
<1>2. OwnChange(u)
  BY <1>1 DEF OwnChange, InitInv, TypesInv
<1> QED
  BY <1>2, OwnStep

LEMMA ReadRootStep ==
    ASSUME InitInv, NEW u \in User, ReadRoot(u)
    PROVE  InitInv'
<1>1. /\ Active(u) /\ pc[u] = "readRoot"
      /\ UNCHANGED <<server, disk, at, mine, loaded, found, died, faults>>
  BY DEF ReadRoot, Active
<1>2. /\ pc' \in [User -> Stage] /\ pc'[u] = "publish"
      /\ \A v \in User \ {u} : pc'[v] = pc[v]
  BY GotoFacts DEF ReadRoot, InitInv, Stage
<1>3. TypeOK'
  BY <1>1, <1>2 DEF InitInv, TypeOK, server
<1>4. StageOf(u)'
  BY <1>1, <1>2, ActiveFacts DEF StageOf, Active, server
<1> QED
  BY <1>1, <1>2, <1>3, <1>4, NoFileStep DEF Holder, server

LEMMA PublishStep ==
    ASSUME InitInv, NEW u \in User, Publish(u)
    PROVE  InitInv'
<1>1. /\ Active(u) /\ pc[u] = "publish" /\ mine[u] \in repos
      /\ logged' = logged \cup {mine[u]}
      /\ UNCHANGED <<repos, used, disk, at, mine, loaded, found, died>>
  BY DEF Publish, Active
<1>2. /\ pc' \in [User -> Stage] /\ pc'[u] \in {"workingCopy", "cleanup"}
      /\ \A v \in User \ {u} : pc'[v] = pc[v]
  BY GotoFacts DEF Publish, InitInv, Stage
<1>3. faults' \in 0..MaxFaults
  BY FaultFacts DEF Publish, InitInv, TypeOK
<1>4. TypeOK'
  BY <1>1, <1>2, <1>3 DEF InitInv, TypeOK
<1>5. StageOf(u)'
  BY <1>1, <1>2, ActiveFacts DEF StageOf, Active
<1> QED
  BY <1>1, <1>2, <1>4, <1>5, NoFileStep DEF Holder


LEMMA FinishInitStep ==
    ASSUME InitInv, NEW u \in User, FinishInit(u)
    PROVE  InitInv'
<1> DEFINE f == [disk[at[u]] EXCEPT !.wc = TRUE]
<1>1. Active(u) /\ pc[u] = "workingCopy" /\ UNCHANGED <<server, loaded, found, died, faults>>
  BY DEF FinishInit, Active
<1>2. at[u] \in Dir /\ disk[at[u]] \in File /\ disk[at[u]].made
  BY <1>1, ActiveFacts
<1>3. /\ disk[at[u]].types = Types /\ disk[at[u]].config \in used
      /\ disk[at[u]].config \in repos => disk[at[u]].config \in logged
      /\ disk[at[u]].config # Created
  BY <1>1, ActiveFacts, NameAssumption DEF StageOf, InitInv, TypeOK
<1>4. /\ f \in File /\ f.made /\ f.config = disk[at[u]].config /\ f.types = Types
  BY <1>2, <1>3 DEF File
<1>5. Files(at[u], f) /\ Ends(u)
  BY DEF FinishInit
<1> HIDE DEF f
<1>6. /\ disk' \in [Dir -> File] /\ disk'[at[u]] = f
      /\ \A e \in Dir \ {at[u]} : disk'[e] = disk[e]
  BY <1>2, <1>4, <1>5, FilesType DEF InitInv
<1>7. TypeOK'
  BY <1>1, <1>5, <1>6, EndsFacts DEF InitInv, TypeOK, server
<1>8. StageOf(u)'
  BY <1>5, EndsFacts DEF StageOf, Active, InitInv
<1>9. OwnChange(u)
  BY <1>1, <1>3, <1>4, <1>5, <1>6, <1>8, EndsFacts DEF OwnChange, Holder, server, InitInv
<1> QED
  BY <1>1, <1>7, <1>9, OwnStep

-----------------------------------------------------------------------------
(* Steps that go wrong.                                                    *)

\* An init that gives up has its directory to clean up still.
LEMMA GiveUpStep ==
    ASSUME InitInv, NEW u \in User, Active(u), Goto(u, "cleanup"),
           UNCHANGED <<server, disk, at, mine, loaded, found, died>>, faults' \in 0..MaxFaults
    PROVE  InitInv'
<1>1. /\ pc' \in [User -> Stage] /\ pc'[u] = "cleanup"
      /\ \A v \in User \ {u} : pc'[v] = pc[v]
  BY GotoFacts DEF InitInv, Stage
<1>2. TypeOK'
  BY <1>1 DEF InitInv, TypeOK, server
<1>3. StageOf(u)'
  BY <1>1, ActiveFacts DEF StageOf, Active
<1> QED
  BY <1>1, <1>2, <1>3, NoFileStep DEF Holder, server

\* A process that is gone leaves its directory as it is.
LEMMA LeaveStep ==
    ASSUME InitInv, NEW u \in User, Active(u), Ends(u), died' \subseteq Dir,
           UNCHANGED <<server, disk, loaded, found>>, faults' \in 0..MaxFaults
    PROVE  InitInv'
<1>1. TypeOK'
  BY EndsFacts DEF InitInv, TypeOK, server
<1>2. StageOf(u)'
  BY EndsFacts DEF StageOf, Active, InitInv
<1> QED
  BY <1>1, <1>2, EndsFacts, NoFileStep DEF Holder, server, InitInv

LEMMA FailStepStep ==
    ASSUME InitInv, NEW u \in User, FailStep(u)
    PROVE  InitInv'
  BY FaultFacts, GiveUpStep DEF FailStep, InitInv

LEMMA RefusedStep ==
    ASSUME InitInv, NEW u \in User, Refused(u)
    PROVE  InitInv'
<1>1. Active(u) /\ UNCHANGED <<server, disk, loaded, found, faults>>
  BY DEF Refused, Active
<1>2. faults' \in 0..MaxFaults /\ died \subseteq Dir /\ at[u] \in Dir
  BY <1>1, ActiveFacts DEF InitInv, TypeOK
<1>3. CASE Goto(u, "cleanup") /\ UNCHANGED <<at, mine, died>>
  BY <1>1, <1>2, <1>3, GiveUpStep
<1>4. CASE Ends(u) /\ died' = died \cup {at[u]}
  BY <1>1, <1>2, <1>4, LeaveStep
<1> QED
  BY <1>3, <1>4 DEF Refused

LEMMA DieStep ==
    ASSUME InitInv, NEW u \in User, Die(u)
    PROVE  InitInv'
<1>1. died' \subseteq Dir /\ faults' \in 0..MaxFaults
  BY ActiveFacts, FaultFacts DEF Die, InitInv, TypeOK
<1> QED
  BY <1>1, LeaveStep DEF Die


LEMMA RemoveFileStep ==
    ASSUME InitInv, NEW u \in User, RemoveFile(u)
    PROVE  InitInv'
<1>1. Active(u) /\ pc[u] = "cleanup" /\ UNCHANGED <<server, pc, at, mine, loaded, found, died, faults>>
  BY DEF RemoveFile, Active
<1>2. at[u] \in Dir /\ disk[at[u]] \in File /\ disk[at[u]].made /\ ~disk[at[u]].wc
  BY <1>1, ActiveFacts
<1>3. PICK f \in File :
          /\ Files(at[u], f) /\ f.made /\ ~f.wc
          /\ f.config \in {disk[at[u]].config, NoFile}
          /\ f.types \subseteq disk[at[u]].types
  <2>1. ASSUME NEW s \in disk[at[u]].types,
               Files(at[u], [disk[at[u]] EXCEPT !.types = @ \ {s}])
        PROVE  \E f \in File :
                  /\ Files(at[u], f) /\ f.made /\ ~f.wc
                  /\ f.config \in {disk[at[u]].config, NoFile}
                  /\ f.types \subseteq disk[at[u]].types
    <3> DEFINE f == [disk[at[u]] EXCEPT !.types = @ \ {s}]
    <3>1. /\ f \in File /\ f.made /\ ~f.wc /\ f.config = disk[at[u]].config
          /\ f.types \subseteq disk[at[u]].types
      BY <1>2 DEF File
    <3>2. Files(at[u], f)
      BY <2>1
    <3> HIDE DEF f
    <3> QED
      BY <3>1, <3>2
  <2>2. ASSUME Files(at[u], [disk[at[u]] EXCEPT !.config = NoFile])
        PROVE  \E f \in File :
                  /\ Files(at[u], f) /\ f.made /\ ~f.wc
                  /\ f.config \in {disk[at[u]].config, NoFile}
                  /\ f.types \subseteq disk[at[u]].types
    <3> DEFINE f == [disk[at[u]] EXCEPT !.config = NoFile]
    <3>1. /\ f \in File /\ f.made /\ ~f.wc /\ f.config = NoFile
          /\ f.types \subseteq disk[at[u]].types
      BY <1>2 DEF File
    <3>2. Files(at[u], f)
      BY <2>2
    <3> HIDE DEF f
    <3> QED
      BY <3>1, <3>2
  <2> QED
    BY <2>1, <2>2 DEF RemoveFile
<1>4. /\ disk' \in [Dir -> File] /\ disk'[at[u]] = f
      /\ \A e \in Dir \ {at[u]} : disk'[e] = disk[e]
  BY <1>2, <1>3, FilesType DEF InitInv
<1>5. TypeOK'
  BY <1>1, <1>4 DEF InitInv, TypeOK, server
<1>6. StageOf(u)'
  BY <1>1, <1>3, <1>4, ActiveFacts DEF StageOf, Active
<1>7. f.types # {} => f.config # Created
  BY <1>2, <1>3 DEF InitInv, TypesInv, NoFile, Created
<1>8. OwnChange(u)
  BY <1>1, <1>3, <1>4, <1>6, <1>7 DEF OwnChange, Holder, server
<1> QED
  BY <1>1, <1>5, <1>8, OwnStep

LEMMA RemoveWorkspaceStep ==
    ASSUME InitInv, NEW u \in User, RemoveWorkspace(u)
    PROVE  InitInv'
<1>1. Active(u) /\ Ends(u) /\ Files(at[u], NoWorkspace)
      /\ UNCHANGED <<server, loaded, found, died, faults>>
  BY DEF RemoveWorkspace, Active
<1>2. /\ disk' \in [Dir -> File] /\ disk'[at[u]] = NoWorkspace
      /\ \A e \in Dir \ {at[u]} : disk'[e] = disk[e]
  BY <1>1, ActiveFacts, NoWorkspaceType, FilesType DEF InitInv
<1>3. TypeOK'
  BY <1>1, <1>2, EndsFacts DEF InitInv, TypeOK, server
<1>4. StageOf(u)'
  BY <1>1, EndsFacts DEF StageOf, Active, InitInv
<1>5. disk'[at[u]].config = NoFile /\ disk'[at[u]].types = {} /\ ~disk'[at[u]].wc
  BY <1>2 DEF NoWorkspace
<1>6. OwnChange(u)
  BY <1>1, <1>2, <1>4, <1>5, EndsFacts DEF OwnChange, Holder, server, InitInv
<1> QED
  BY <1>1, <1>3, <1>6, OwnStep

\* A server that has forgotten its repositories has no id in use that it could
\* mistake for one of its own.
LEMMA RestartStep ==
    ASSUME InitInv, Restart
    PROVE  InitInv'
<1>1. /\ repos' = {} /\ logged' = {}
      /\ UNCHANGED <<used, disk, pc, at, mine, loaded, found, died>>
  BY DEF Restart
<1>2. TypeOK'
  BY <1>1, FaultFacts DEF InitInv, TypeOK, Restart
<1>3. StageInv' /\ DirInv' /\ IdInv' /\ LoadedInv' /\ FoundInv'
  BY <1>1 DEF InitInv, StageInv, StageOf, DirInv, IdInv, LoadedInv, FoundInv, OnDisk,
     Holder, Active
<1>4. OwnRepository' /\ ReadyMeansPublished' /\ TypesInv'
  BY <1>1 DEF InitInv, OwnRepository, ReadyMeansPublished, TypesInv
<1> QED
  BY <1>2, <1>3, <1>4 DEF InitInv

-----------------------------------------------------------------------------
(* Commands that load.                                                     *)

LEMMA LoadStep ==
    ASSUME InitInv, NEW k \in Reader, FindType(k) \/ ReadConfig(k) \/ EndLoad(k)
    PROVE  InitInv'
<1>1. UNCHANGED <<server, disk, pc, at, mine, died, faults>>
  BY DEF FindType, ReadConfig, EndLoad
<1>2. /\ \A j \in Reader \ {k} : loaded'[j] = loaded[j]
      /\ loaded' \in [Reader -> Seq(RepoId)]
      /\ \A i \in DOMAIN loaded'[k] :
            \/ i \in DOMAIN loaded[k] /\ loaded'[k][i] = loaded[k][i]
            \/ loaded'[k][i] = disk[at[k]].config /\ loaded'[k][i] \in RepoId
  <2>1. CASE ReadConfig(k)
    <3> DEFINE r == disk[at[k]].config
    <3>1. loaded' = [loaded EXCEPT ![k] = IF r \in RepoId THEN Append(@, r) ELSE <<>>]
      BY <2>1 DEF ReadConfig, ConfigFor
    <3> HIDE DEF r
    <3>2. loaded[k] \in Seq(RepoId)
      BY DEF InitInv, TypeOK
    <3>3. loaded'[k] = IF r \in RepoId THEN Append(loaded[k], r) ELSE <<>>
      BY <3>1 DEF InitInv, TypeOK
    <3>4. loaded'[k] \in Seq(RepoId)
      BY <3>2, <3>3
    <3>5. ASSUME NEW i \in DOMAIN loaded'[k]
          PROVE  \/ i \in DOMAIN loaded[k] /\ loaded'[k][i] = loaded[k][i]
                 \/ loaded'[k][i] = r /\ r \in RepoId
      BY <3>2, <3>3
    <3>6. loaded' \in [Reader -> Seq(RepoId)]
      BY <3>1, <3>3, <3>4 DEF InitInv, TypeOK
    <3>7. \A j \in Reader \ {k} : loaded'[j] = loaded[j]
      BY <3>1 DEF InitInv, TypeOK
    <3> QED
      BY <3>5, <3>6, <3>7 DEF r
  <2>2. CASE FindType(k) \/ EndLoad(k)
    <3>1. loaded' = loaded \/ loaded' = [loaded EXCEPT ![k] = <<>>]
      BY <2>2 DEF FindType, EndLoad
    <3>2. <<>> \in Seq(RepoId) /\ DOMAIN <<>> = {}
      OBVIOUS
    <3>3. loaded'[k] = loaded[k] \/ loaded'[k] = <<>>
      BY <3>1 DEF InitInv, TypeOK
    <3> QED
      BY <3>1, <3>2, <3>3 DEF InitInv, TypeOK
  <2> QED
    BY <2>1, <2>2
<1>3. /\ \A j \in Reader \ {k} : found'[j] = found[j]
      /\ \/ found'[k] = Nowhere
         \/ found'[k] = disk[at[k]].config /\ found'[k] # Created
  <2>1. CASE FindType(k)
    <3>1. at[k] \in Dir /\ found'[k] = disk[at[k]].config
      BY <2>1 DEF FindType, InitInv, TypeOK, LoadedInv
    <3>2. disk[at[k]].types # {}
      BY <2>1 DEF FindType, Loadable
    <3>3. disk[at[k]].config # Created
      BY <3>1, <3>2 DEF InitInv, TypesInv
    <3> QED
      BY <2>1, <3>1, <3>3 DEF FindType, InitInv, TypeOK
  <2>2. CASE ReadConfig(k) \/ EndLoad(k)
    BY <2>2 DEF ReadConfig, EndLoad, InitInv, TypeOK
  <2> QED
    BY <2>1, <2>2
<1>4. \A j \in Reader : at[j] \in Dir /\ disk[at[j]].config \in RepoId \cup {NoFile, Created}
  BY DEF InitInv, LoadedInv, TypeOK, File
<1>5. found' \in [Reader -> RepoId \cup {NoFile, Created, Nowhere}]
  <2>1. found'[k] \in RepoId \cup {NoFile, Created, Nowhere}
    BY <1>3, <1>4
  <2>2. \E x : found' = [found EXCEPT ![k] = x]
    BY DEF FindType, ReadConfig, EndLoad
  <2> QED
    BY <2>1, <2>2 DEF InitInv, TypeOK
<1>6. TypeOK'
  BY <1>1, <1>2, <1>5 DEF InitInv, TypeOK, server
<1>7. StageInv' /\ DirInv' /\ OwnRepository' /\ ReadyMeansPublished' /\ TypesInv'
  BY <1>1 DEF InitInv, StageInv, StageOf, DirInv, Active, OwnRepository,
     ReadyMeansPublished, TypesInv, server
<1>8. OnDisk' = OnDisk /\ Holder' = Holder
  BY <1>1 DEF OnDisk, Holder
<1>9. IdInv' /\ LoadedInv'
  <2>1. ASSUME NEW j \in Reader, NEW i \in DOMAIN loaded'[j]
        PROVE  \/ i \in DOMAIN loaded[j] /\ loaded'[j][i] = loaded[j][i]
               \/ loaded'[j][i] = disk[at[j]].config /\ loaded'[j][i] \in RepoId
    BY <1>2
  <2>2. IdInv'
    BY <1>1, <1>4, <1>8, <2>1 DEF InitInv, IdInv, OnDisk, server
  <2>3. LoadedInv'
    BY <1>1, <1>4, <1>8, <2>1, NameAssumption DEF InitInv, IdInv, LoadedInv, OnDisk, server
  <2> QED
    BY <2>2, <2>3
<1>10. FoundInv'
  <2> SUFFICES ASSUME NEW j \in Reader, found'[j] # Nowhere
               PROVE  /\ found'[j] # Created
                      /\ found'[j] \in RepoId =>
                            /\ found'[j] \in used
                            /\ found'[j] \in OnDisk => found'[j] = disk[at[j]].config
                            /\ \A u \in Holder : mine[u] # found'[j]
    BY <1>1, <1>8 DEF FoundInv, server
  <2>1. CASE found'[j] = found[j]
    BY <2>1 DEF FoundInv, InitInv
  <2>2. CASE found'[j] # found[j]
    <3>1. found'[j] = disk[at[j]].config /\ found'[j] # Created
      BY <1>3, <2>2
    <3>2. found'[j] \in OnDisk
      BY <1>4, <3>1 DEF OnDisk
    <3> QED
      BY <3>1, <3>2, NameAssumption DEF IdInv, InitInv
  <2> QED
    BY <2>1, <2>2
<1> QED
  BY <1>6, <1>7, <1>9, <1>10 DEF InitInv

-----------------------------------------------------------------------------
(* Results.                                                                *)

LEMMA InitInvStep == InitInv /\ [Next]_vars => InitInv'
<1> SUFFICES ASSUME InitInv, [Next]_vars
             PROVE  InitInv'
  OBVIOUS
<1>1. ASSUME NEW u \in User, Start(u) \/ FailStep(u) \/ Die(u)
      PROVE  InitInv'
  BY <1>1, StartStep, FailStepStep, DieStep
<1>2. ASSUME NEW u \in User, InitStep(u)
      PROVE  InitInv'
  BY <1>2, RegisterStep, CreateConfigStep, WriteConfigStep, WriteStoreTypeStep,
     LoadStoreStep, ReadRootStep, PublishStep, FinishInitStep, RefusedStep,
     RemoveFileStep, RemoveWorkspaceStep DEF InitStep
<1>3. ASSUME NEW k \in Reader, FindType(k) \/ ReadConfig(k) \/ EndLoad(k)
      PROVE  InitInv'
  BY <1>3, LoadStep
<1>4. CASE Restart
  BY <1>4, RestartStep
<1>5. CASE UNCHANGED vars
  BY <1>5 DEF vars, server, InitInv, TypeOK, StageInv, StageOf, DirInv, IdInv, LoadedInv,
     FoundInv, OnDisk, Holder, Active, OwnRepository, ReadyMeansPublished, TypesInv
<1> QED
  BY <1>1, <1>2, <1>3, <1>4, <1>5 DEF Next

\* The stages of an init, the ids it holds and what commands have loaded fit
\* together in every state, whatever fails, dies or restarts.
THEOREM InitInvariantHolds == Spec => []InitInv
  BY InitInvInit, InitInvStep, PTL DEF Spec

\* Types are correct.
THEOREM InitTypesCorrect == Spec => []TypeOK
<1>1. InitInv => TypeOK
  BY DEF InitInv
<1> QED
  BY <1>1, InitInvariantHolds, PTL

\* Workspaces have repositories of their own, also across restarts.
THEOREM RepositoriesAreSeparate == Spec => []OwnRepository
<1>1. InitInv => OwnRepository
  BY DEF InitInv
<1> QED
  BY <1>1, InitInvariantHolds, PTL

\* A complete workspace has been published, and has all it needs.
THEOREM CompleteIsPublished == Spec => []ReadyMeansPublished
<1>1. InitInv => ReadyMeansPublished
  BY DEF InitInv
<1> QED
  BY <1>1, InitInvariantHolds, PTL

\* Whoever finds a type file and then no whole config.toml has had its
\* workspace removed: what the file held is in no workspace any more, or was
\* removed before.
THEOREM BadConfigIsRemoval == Spec => []BadConfigMeansRemoved
<1>1. InitInv => BadConfigMeansRemoved
  BY DEF InitInv, TypeOK, FoundInv, BadConfigMeansRemoved, OnDisk
<1> QED
  BY <1>1, InitInvariantHolds, PTL

\* The stores of one command agree unless their workspace was removed: of two
\* different ids at most one is what config.toml says, so one is gone.
THEOREM StoresNameOneRepository == Spec => []StoresAgree
<1>1. InitInv => StoresAgree
  BY DEF InitInv, LoadedInv, StoresAgree, OnDisk
<1> QED
  BY <1>1, InitInvariantHolds, PTL


=============================================================================
