------------------------ MODULE ModelManager_proofs ------------------------
(***************************************************************************)
(* ModelManager keeps its types, a created model stays what it was made    *)
(* of, and the list follows the disk, for any sets of directories, files   *)
(* and creations.                                                          *)
(***************************************************************************)
EXTENDS ModelManager, TLAPS

\* Some creation other than the one that refreshes has copied to p.
AwaitedFromOthers(p) ==
  \E j \in Jobs \ {refresher} : job[j].state = "copied" /\ job[j].output = p

\* A creation has a source and an output.
Placed ==
  \A j \in Jobs : job[j].state # "none" => job[j].source \in Paths /\ job[j].output \in Paths

\* Who refreshes is at the call or, if a creation, has copied; directories are
\* left to scan only then.
Refreshing ==
  /\ refresher = NoOne => todo = {}
  /\ refresher \in Jobs => job[refresher].state = "copied"

\* In the middle of a refresh, the list is right about the directories scanned
\* and has nothing of the others, except for what will be refreshed again.
ListedAsScanned ==
  fate = "defined" /\ alive =>
    \A p \in Paths :
      IF DirOf[p] \in dirs \ todo
      THEN p \in unscanned \/ AwaitedFromOthers(p) \/ (p \in list <=> Valid(p))
      ELSE p \notin list

IInv == TypeOK /\ Placed /\ OutputStays /\ Refreshing /\ ListedAsScanned

-----------------------------------------------------------------------------
(***************************************************************************)
(* Creations and steps.                                                    *)
(***************************************************************************)
Creation == [state : {"none", "queued", "copied", "done", "failed"},
             source : Paths \cup {NoFile}, output : Paths \cup {NoFile}, made : Contents]

\* A creation whose state changes keeps the rest.
LEMMA StateFacts ==
  ASSUME TypeOK, NEW j \in Jobs, NEW s \in {"queued", "copied", "done", "failed"},
         job' = [job EXCEPT ![j].state = s]
  PROVE  /\ job' \in [Jobs -> Creation]
         /\ job'[j].state = s
         /\ job'[j].source = job[j].source
         /\ \A k \in Jobs : /\ k # j => job'[k] = job[k]
                            /\ job'[k].output = job[k].output
                            /\ job'[k].made = job[k].made
  BY DEF TypeOK, Creation

\* What a step does, by what it changes.
LEMMA Steps ==
  ASSUME [Next]_vars
  PROVE  \/ \E t \in Jobs \cup {Gui} : beginRefresh(t)
         \/ \E t \in Jobs \cup {Gui} : scanDirectoryForModels(t)
         \/ \E t \in Jobs \cup {Gui} : endRefresh(t)
         \/ \E p \in Paths : loadModel(p) \/ backupModel(p)
         \/ \E p \in Paths : restoreModel(p) \/ meddle(p)
         \/ \E d \in Dirs : addModelDirectory(d)
         \/ \E d \in Dirs : setModelDirectory(d)
         \/ \E j \in Jobs : createGGUFModel(j)
         \/ \E j \in Jobs : copies(j)
         \/ \E j \in Jobs : copyFails(j) \/ outlives(j)
         \/ \E t \in Jobs \cup {Gui} : slotReenters(t)
         \/ unloadModel
         \/ refreshModelList \/ destroy
         \/ UNCHANGED vars
  BY Zenon DEF Next, OnPath, Refresh, processModelCreation

-----------------------------------------------------------------------------
(***************************************************************************)
(* Types.                                                                  *)
(***************************************************************************)
LEMMA InitTypes == Init => TypeOK
  <1> SUFFICES ASSUME Init PROVE TypeOK
    OBVIOUS
  <1>1. disk \in [Paths -> Contents] /\ backup \in [Paths -> Contents]
    BY ConstantsAssumption DEF Init, Contents
  <1>2. /\ job \in [Jobs -> Creation]
        /\ \A j \in Jobs : job[j].state = "none"
    BY DEF Init, NoJob, Creation, Contents
  <1>3. /\ dirs \subseteq Dirs /\ mainDir \in Dirs /\ todo \subseteq dirs /\ list \subseteq Paths
        /\ meddling \in 0 .. MaxMeddling
    BY ConstantsAssumption DEF Init
  <1> QED
    BY <1>1, <1>2, <1>3 DEF Init, TypeOK, Creation

LEMMA PlacedStep ==
  ASSUME TypeOK, Placed, Refreshing, [Next]_vars
  PROVE  Placed'
  <1> USE DEF Placed, fileVars, listVars, vars
  <1>1. ASSUME NEW t \in Jobs \cup {Gui}, endRefresh(t) PROVE Placed'
    BY <1>1, StateFacts DEF endRefresh, Refreshing
  <1>2. ASSUME NEW j \in Jobs, createGGUFModel(j) PROVE Placed'
    BY <1>2 DEF createGGUFModel, TypeOK
  <1>3. ASSUME NEW j \in Jobs, copies(j) PROVE Placed'
    BY <1>3 DEF copies, Queued, TypeOK
  <1>4. ASSUME NEW j \in Jobs, copyFails(j) \/ outlives(j) PROVE Placed'
    BY <1>4, StateFacts DEF copyFails, outlives, Queued
  <1>5. ASSUME UNCHANGED job PROVE Placed'
    BY <1>5
  <1>6. ASSUME NEW t \in Jobs \cup {Gui}, beginRefresh(t) \/ scanDirectoryForModels(t)
        PROVE  Placed'
    BY <1>5, <1>6 DEF beginRefresh, scanDirectoryForModels
  <1>7. ASSUME NEW p \in Paths, loadModel(p) \/ backupModel(p) \/ restoreModel(p) \/ meddle(p)
        PROVE  Placed'
    BY <1>5, <1>7 DEF loadModel, backupModel, EmitLocked, restoreModel, meddle
  <1>8. ASSUME NEW d \in Dirs, addModelDirectory(d) \/ setModelDirectory(d) PROVE Placed'
    BY <1>5, <1>8 DEF addModelDirectory, setModelDirectory
  <1>9. CASE \/ \E t \in Jobs \cup {Gui} : slotReenters(t)
             \/ unloadModel
             \/ refreshModelList \/ destroy
             \/ UNCHANGED vars
    BY <1>5, <1>9 DEF slotReenters, unloadModel, EmitLocked, refreshModelList, destroy
  <1> QED
    BY Zenon, Steps, <1>1, <1>2, <1>3, <1>4, <1>6, <1>7, <1>8, <1>9

LEMMA TypesStep ==
  ASSUME TypeOK, Placed, Refreshing, [Next]_vars
  PROVE  TypeOK'
  <1> USE DEF TypeOK, fileVars, listVars, vars
  <1>1. ASSUME NEW t \in Jobs \cup {Gui}, beginRefresh(t) \/ scanDirectoryForModels(t)
        PROVE  TypeOK'
    BY <1>1 DEF beginRefresh, scanDirectoryForModels, In
  <1>2. ASSUME NEW t \in Jobs \cup {Gui}, endRefresh(t) PROVE TypeOK'
    BY <1>2, StateFacts DEF endRefresh, Creation, Refreshing
  <1>3. ASSUME NEW p \in Paths, loadModel(p) \/ backupModel(p) PROVE TypeOK'
    BY <1>3 DEF loadModel, backupModel, EmitLocked
  <1>4. ASSUME NEW p \in Paths, restoreModel(p) \/ meddle(p) PROVE TypeOK'
    BY <1>4, ConstantsAssumption DEF restoreModel, meddle
  <1>5. ASSUME NEW d \in Dirs, addModelDirectory(d) \/ setModelDirectory(d) PROVE TypeOK'
    BY <1>5 DEF addModelDirectory, setModelDirectory, In
  <1>6. ASSUME NEW j \in Jobs, createGGUFModel(j) PROVE TypeOK'
    BY <1>6 DEF createGGUFModel, Contents
  <1>7. ASSUME NEW j \in Jobs, copies(j) PROVE TypeOK'
    <2>1. job[j].source \in Paths /\ job[j].output \in Paths
      BY <1>7 DEF copies, Queued, Placed
    <2>2. disk[job[j].source] \in Contents \ {NoFile}
      BY <1>7, <2>1 DEF copies
    <2>3. /\ disk' = [disk EXCEPT ![job[j].output] = disk[job[j].source]]
          /\ job' = [job EXCEPT ![j].state = "copied", ![j].made = disk[job[j].source]]
      BY <1>7 DEF copies
    <2>4. disk' \in [Paths -> Contents]
      BY <2>2, <2>3
    <2>5. job' \in [Jobs -> Creation]
      <3>1. PICK c : c = [job[j] EXCEPT !.state = "copied", !.made = disk[job[j].source]]
        OBVIOUS
      <3>2. job \in [Jobs -> Creation]
        BY DEF Creation
      <3>3. c \in Creation
        BY <2>2, <3>1, <3>2 DEF Creation
      <3>4. job' = [job EXCEPT ![j] = c]
        BY <2>3, <3>1
      <3> QED
        BY <3>2, <3>3, <3>4, Zenon
    <2>6. \A k \in Jobs : job'[k].state \in {"copied", "done"} => job'[k].made # NoFile
      BY <2>2, <2>3
    <2> QED
      BY <1>7, <2>4, <2>5, <2>6 DEF copies, Creation
  <1>8. ASSUME NEW j \in Jobs, copyFails(j) \/ outlives(j) PROVE TypeOK'
    BY <1>8, StateFacts DEF copyFails, outlives, Creation
  <1>9. CASE \/ \E t \in Jobs \cup {Gui} : slotReenters(t)
             \/ unloadModel
             \/ refreshModelList \/ destroy
             \/ UNCHANGED vars
    BY <1>9 DEF slotReenters, unloadModel, EmitLocked, refreshModelList, destroy
  <1> QED
    BY Zenon, Steps, <1>1, <1>2, <1>3, <1>4, <1>5, <1>6, <1>7, <1>8, <1>9

-----------------------------------------------------------------------------
(***************************************************************************)
(* Created models stay.                                                    *)
(***************************************************************************)
LEMMA StaysStep ==
  ASSUME TypeOK, Placed, Refreshing, OutputStays, [Next]_vars
  PROVE  OutputStays'
  <1> USE DEF OutputStays, fileVars, vars
  <1>1. ASSUME UNCHANGED <<disk, foreign, job>> PROVE OutputStays'
    BY <1>1
  <1>2. ASSUME NEW t \in Jobs \cup {Gui}, endRefresh(t) PROVE OutputStays'
    <2>1. CASE t = Gui
      BY <1>1, <1>2, <2>1 DEF endRefresh
    <2>2. CASE t \in Jobs /\ t # Gui
      <3>1. job[t].state = "copied" /\ UNCHANGED <<disk, foreign>>
        BY <1>2, <2>2 DEF endRefresh, Refreshing
      <3>2. job' = [job EXCEPT ![t].state = "done"]
        BY <1>2, <2>2 DEF endRefresh
      <3> QED
        BY <2>2, <3>1, <3>2, StateFacts
    <2> QED
      BY <2>1, <2>2
  <1>3. ASSUME NEW p \in Paths, restoreModel(p) \/ meddle(p) PROVE OutputStays'
    BY <1>3 DEF restoreModel, meddle, TypeOK, Placed
  <1>4. ASSUME NEW j \in Jobs, createGGUFModel(j) PROVE OutputStays'
    BY <1>4 DEF createGGUFModel, TypeOK
  <1>5. ASSUME NEW j \in Jobs, copies(j) PROVE OutputStays'
    <2>1. /\ job'[j].output = job[j].output /\ job'[j].made = disk[job[j].source]
          /\ \A k \in Jobs \ {j} : job'[k] = job[k]
      BY <1>5 DEF copies, TypeOK
    <2> SUFFICES ASSUME NEW k \in Jobs, job'[k].state \in {"copied", "done"},
                        job'[k].output \notin foreign
                 PROVE  disk'[job'[k].output] = job'[k].made
      BY <1>5 DEF copies
    <2>2. CASE k = j
      <3>1. job[j].output \in Paths
        BY <1>5 DEF copies, Queued, Placed
      <3> QED
        BY <1>5, <2>1, <2>2, <3>1 DEF copies, TypeOK
    <2>3. CASE k # j
      <3>1. disk[job[k].output] = job[k].made /\ job[k].made # NoFile
        BY <2>1, <2>3 DEF TypeOK
      <3>2. job[k].output # job[j].output
        BY <1>5, <3>1 DEF copies
      <3> QED
        BY <1>5, <2>1, <2>3, <3>1, <3>2 DEF copies, TypeOK
    <2> QED
      BY <2>2, <2>3
  <1>6. ASSUME NEW j \in Jobs, copyFails(j) \/ outlives(j) PROVE OutputStays'
    BY <1>6, StateFacts DEF copyFails, outlives
  <1>7. ASSUME NEW t \in Jobs \cup {Gui}, beginRefresh(t) \/ scanDirectoryForModels(t)
        PROVE  OutputStays'
    BY <1>1, <1>7 DEF beginRefresh, scanDirectoryForModels
  <1>8. ASSUME NEW p \in Paths, loadModel(p) \/ backupModel(p) PROVE OutputStays'
    BY <1>1, <1>8 DEF loadModel, backupModel, EmitLocked
  <1>9. ASSUME NEW d \in Dirs, addModelDirectory(d) \/ setModelDirectory(d) PROVE OutputStays'
    BY <1>1, <1>9 DEF addModelDirectory, setModelDirectory
  <1>10. CASE \/ \E t \in Jobs \cup {Gui} : slotReenters(t)
              \/ unloadModel
              \/ refreshModelList \/ destroy
              \/ UNCHANGED vars
    BY <1>1, <1>10 DEF slotReenters, unloadModel, EmitLocked, refreshModelList, destroy
  <1> QED
    BY Zenon, Steps, <1>2, <1>3, <1>4, <1>5, <1>6, <1>7, <1>8, <1>9, <1>10

-----------------------------------------------------------------------------
(***************************************************************************)
(* Refreshes, and the list.                                                *)
(***************************************************************************)
LEMMA RefreshingStep ==
  ASSUME TypeOK, Refreshing, [Next]_vars
  PROVE  Refreshing'
  <1> USE ConstantsAssumption DEF Refreshing, listVars, vars
  <1>1. ASSUME UNCHANGED <<refresher, todo>>,
               \A j \in Jobs : job[j].state = "copied" => job'[j].state = "copied"
        PROVE  Refreshing'
    BY <1>1
  <1>2. ASSUME NEW t \in Jobs \cup {Gui}, beginRefresh(t) \/ endRefresh(t) PROVE Refreshing'
    BY <1>2 DEF beginRefresh, endRefresh, Wants
  <1>3. ASSUME NEW t \in Jobs \cup {Gui}, scanDirectoryForModels(t) PROVE Refreshing'
    BY <1>3 DEF scanDirectoryForModels
  <1>4. ASSUME NEW j \in Jobs, copyFails(j) \/ outlives(j) PROVE Refreshing'
    BY <1>1, <1>4, StateFacts DEF copyFails, outlives, Queued
  <1>5. ASSUME NEW j \in Jobs, createGGUFModel(j) PROVE Refreshing'
    BY <1>1, <1>5 DEF createGGUFModel, TypeOK
  <1>6. ASSUME NEW j \in Jobs, copies(j) PROVE Refreshing'
    BY <1>1, <1>6 DEF copies, Queued, TypeOK
  <1>7. ASSUME NEW p \in Paths, loadModel(p) \/ backupModel(p) \/ restoreModel(p) \/ meddle(p)
        PROVE  Refreshing'
    BY <1>1, <1>7 DEF loadModel, backupModel, EmitLocked, restoreModel, meddle
  <1>8. ASSUME NEW d \in Dirs, addModelDirectory(d) \/ setModelDirectory(d) PROVE Refreshing'
    BY <1>1, <1>8 DEF addModelDirectory, setModelDirectory
  <1>9. CASE \/ \E t \in Jobs \cup {Gui} : slotReenters(t)
             \/ unloadModel
             \/ refreshModelList \/ destroy
             \/ UNCHANGED vars
    BY <1>1, <1>9 DEF slotReenters, unloadModel, EmitLocked, refreshModelList, destroy
  <1> QED
    BY Zenon, Steps, <1>2, <1>3, <1>4, <1>5, <1>6, <1>7, <1>8, <1>9

\* Where neither files nor the list nor who waits for a refresh changes, the
\* list stays as right as it was; paths may become unscanned.
LEMMA SameList ==
  ASSUME ListedAsScanned, UNCHANGED <<disk, dirs, todo, list>>, refresher' \in Jobs => refresher' = refresher,
         unscanned \subseteq unscanned', fate' = "defined" => fate = "defined", alive' => alive,
         \A j \in Jobs : job[j].state = "copied" =>
           job'[j].state = "copied" /\ job'[j].output = job[j].output
  PROVE  ListedAsScanned'
  <1>1. \A p \in Paths : AwaitedFromOthers(p) => AwaitedFromOthers(p)'
    BY DEF AwaitedFromOthers
  <1> QED
    BY <1>1 DEF ListedAsScanned, Valid

LEMMA beginRefreshListed ==
  ASSUME NEW t \in Jobs \cup {Gui}, TypeOK, beginRefresh(t)
  PROVE  ListedAsScanned'
  BY DEF beginRefresh, ListedAsScanned

\* What was not in the list before is so now if it is valid.
LEMMA scanListed ==
  ASSUME NEW t \in Jobs \cup {Gui}, TypeOK, ListedAsScanned, scanDirectoryForModels(t)
  PROVE  ListedAsScanned'
  <1> USE DEF fileVars
  <1>1. PICK d \in todo : /\ todo' = todo \ {d}
                          /\ list' = list \cup {p \in In(d) : Valid(p)}
                          /\ unscanned' = unscanned \ In(d)
    BY DEF scanDirectoryForModels
  <1>2. UNCHANGED <<disk, dirs, job, refresher, fate, alive>>
    BY DEF scanDirectoryForModels
  <1> SUFFICES ASSUME fate = "defined", alive, NEW p \in Paths
               PROVE  (IF DirOf[p] \in dirs \ todo
                       THEN p \in unscanned \/ AwaitedFromOthers(p) \/ (p \in list <=> Valid(p))
                       ELSE p \notin list)'
    BY <1>2 DEF ListedAsScanned
  <1>3. /\ AwaitedFromOthers(p)' <=> AwaitedFromOthers(p)
        /\ Valid(p)' <=> Valid(p)
    BY <1>2 DEF AwaitedFromOthers, Valid
  <1>4. CASE DirOf[p] = d
    <2>1. p \notin list /\ p \in In(d)
      BY <1>1, <1>4 DEF ListedAsScanned, In
    <2> QED
      BY <1>1, <1>2, <1>3, <1>4, <2>1 DEF TypeOK
  <1>5. CASE DirOf[p] # d
    BY <1>1, <1>2, <1>3, <1>5 DEF ListedAsScanned, In
  <1> QED
    BY <1>4, <1>5

\* A creation that ends is awaited no more; its copy was there all along.
LEMMA endRefreshListed ==
  ASSUME NEW t \in Jobs \cup {Gui}, TypeOK, Refreshing, ListedAsScanned, endRefresh(t)
  PROVE  ListedAsScanned'
  <1>1. /\ UNCHANGED <<disk, dirs, todo, list, unscanned, fate, alive>>
        /\ refresher = t /\ refresher' = NoOne
    BY DEF endRefresh, fileVars
  <1>2. \A k \in Jobs \ {t} : job'[k] = job[k]
    BY StateFacts DEF endRefresh, TypeOK
  <1>3. \A p \in Paths : AwaitedFromOthers(p) => AwaitedFromOthers(p)'
    BY <1>1, <1>2, ConstantsAssumption DEF AwaitedFromOthers
  <1> QED
    BY <1>1, <1>3 DEF ListedAsScanned, Valid

\* A path that changes is scanned again: whoever changed it, it is unscanned or
\* awaited from a creation.
LEMMA changedListed ==
  ASSUME NEW p \in Paths, TypeOK, ListedAsScanned,
         UNCHANGED <<dirs, todo, list, refresher, fate, alive>>,
         \A q \in Paths \ {p} : disk'[q] = disk[q],
         unscanned \subseteq unscanned',
         \A j \in Jobs : job[j].state = "copied" => job'[j] = job[j],
         (p \in unscanned \/ AwaitedFromOthers(p))'
  PROVE  ListedAsScanned'
  <1>1. \A q \in Paths : AwaitedFromOthers(q) => AwaitedFromOthers(q)'
    BY DEF AwaitedFromOthers
  <1>2. \A q \in Paths \ {p} : Valid(q)' <=> Valid(q)
    BY DEF Valid
  <1> QED
    BY <1>1, <1>2 DEF ListedAsScanned

\* The list has nothing yet of a directory that is added, and whatever is in it
\* is unscanned.
LEMMA addListed ==
  ASSUME NEW d \in Dirs, TypeOK, Refreshing, ListedAsScanned, addModelDirectory(d)
  PROVE  ListedAsScanned'
  <1>1. /\ UNCHANGED <<disk, todo, list, refresher, job, alive>>
        /\ dirs' = dirs \cup {d} /\ unscanned' = unscanned \cup In(d)
        /\ fate' = "defined" => fate = "defined" /\ refresher = NoOne
    BY DEF addModelDirectory, fileVars, Free
  <1>2. \A p \in Paths : /\ AwaitedFromOthers(p) <=> AwaitedFromOthers(p)'
                         /\ Valid(p) <=> Valid(p)'
    BY <1>1 DEF AwaitedFromOthers, Valid
  <1>3. \A p \in Paths : DirOf[p] = d => p \in unscanned'
    BY <1>1 DEF In
  <1> QED
    BY <1>1, <1>2, <1>3 DEF ListedAsScanned, Refreshing

LEMMA ListedStep ==
  ASSUME TypeOK, Placed, Refreshing, ListedAsScanned, [Next]_vars
  PROVE  ListedAsScanned'
  <1> USE DEF fileVars, listVars, vars
  <1>1. ASSUME NEW p \in Paths, restoreModel(p) \/ meddle(p) PROVE ListedAsScanned'
    <2>1. /\ UNCHANGED <<dirs, todo, list, refresher, fate, alive, job>>
          /\ \A q \in Paths \ {p} : disk'[q] = disk[q]
          /\ unscanned' = unscanned \cup {p}
      BY <1>1 DEF restoreModel, meddle, TypeOK
    <2> QED
      BY <2>1, changedListed
  <1>2. ASSUME NEW j \in Jobs, copies(j) PROVE ListedAsScanned'
    <2>0. PICK p \in Paths : p = job[j].output
      BY <1>2 DEF copies, Queued, Placed
    <2>1. j # refresher
      BY <1>2 DEF copies, Queued, Refreshing
    <2>2. /\ UNCHANGED <<dirs, todo, list, refresher, fate, alive, unscanned>>
          /\ \A q \in Paths \ {p} : disk'[q] = disk[q]
      BY <1>2, <2>0 DEF copies, TypeOK
    <2>3. /\ job'[j].state = "copied" /\ job'[j].output = p
          /\ \A k \in Jobs : job[k].state = "copied" => job'[k] = job[k]
      BY <1>2, <2>0 DEF copies, Queued, TypeOK
    <2>4. AwaitedFromOthers(p)'
      BY <2>1, <2>2, <2>3 DEF AwaitedFromOthers
    <2> QED
      BY <2>1, <2>2, <2>3, <2>4, changedListed
  <1>3. ASSUME NEW j \in Jobs, copyFails(j) \/ outlives(j) PROVE ListedAsScanned'
    BY <1>3, SameList, StateFacts DEF copyFails, outlives, Queued
  <1>4. ASSUME NEW j \in Jobs, createGGUFModel(j) PROVE ListedAsScanned'
    BY <1>4, SameList DEF createGGUFModel, TypeOK
  <1>5. ASSUME NEW p \in Paths, loadModel(p) \/ backupModel(p) PROVE ListedAsScanned'
    BY <1>5, SameList, ConstantsAssumption DEF loadModel, backupModel, EmitLocked
  <1>6. ASSUME NEW d \in Dirs, setModelDirectory(d) PROVE ListedAsScanned'
    BY <1>6, SameList DEF setModelDirectory
  <1>7. CASE \/ \E t \in Jobs \cup {Gui} : slotReenters(t)
             \/ unloadModel
             \/ refreshModelList \/ destroy
             \/ UNCHANGED vars
    BY <1>7, SameList, ConstantsAssumption
    DEF slotReenters, unloadModel, EmitLocked, refreshModelList, destroy
  <1> QED
    BY Zenon, Steps, beginRefreshListed, scanListed, endRefreshListed, addListed,
       <1>1, <1>2, <1>3, <1>4, <1>5, <1>6, <1>7

-----------------------------------------------------------------------------
LEMMA InitIInv == Init => IInv
  <1> SUFFICES ASSUME Init PROVE IInv
    OBVIOUS
  <1>1. OutputStays
    BY DEF Init, NoJob, OutputStays
  <1>2. Refreshing
    BY ConstantsAssumption DEF Init, Refreshing
  <1>3. ListedAsScanned
    BY DEF Init, ListedAsScanned, Valid
  <1>4. Placed
    BY DEF Init, NoJob, Placed
  <1> QED
    BY InitTypes, <1>4, <1>1, <1>2, <1>3 DEF IInv

LEMMA IInvHolds == Spec => []IInv
  <1>1. IInv /\ [Next]_vars => IInv'
    BY TypesStep, PlacedStep, StaysStep, RefreshingStep, ListedStep DEF IInv
  <1> QED
    BY InitIInv, <1>1, PTL DEF Spec

\* Every variable keeps its type: what a creation has copied is a file, and a
\* refresh has only directories of the manager to scan.
THEOREM TypeCorrect == Spec => []TypeOK
  <1>1. IInv => TypeOK
    BY DEF IInv
  <1> QED
    BY <1>1, IInvHolds, PTL

\* Whenever nobody holds the mutex the list is right about the disk, for any
\* number of creations that refresh it and directories that are added.
THEOREM ListAlwaysFollows == Spec => []ListFollowsDisk
  <1>1. IInv => ListFollowsDisk
    <2> SUFFICES ASSUME IInv, refresher = NoOne PROVE ListFollowsDisk
      BY DEF ListFollowsDisk
    <2>1. \A p \in Paths : AwaitedFromOthers(p) => Awaited(p)
      BY DEF AwaitedFromOthers, Awaited
    <2> QED
      BY <2>1 DEF IInv, Refreshing, ListedAsScanned, ListFollowsDisk
  <1> QED
    BY <1>1, IInvHolds, PTL

\* No creation, however many race for one output, replaces what another made.
THEOREM OutputsAlwaysStay == Spec => []OutputStays
  <1>1. IInv => OutputStays
    BY DEF IInv
  <1> QED
    BY <1>1, IInvHolds, PTL

=============================================================================
