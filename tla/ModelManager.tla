---------------------------- MODULE ModelManager ----------------------------
(***************************************************************************)
(* ModelManager (src/model_manager.cpp): the directories of models, the    *)
(* list of the valid models in them, and the creation of models, each on a *)
(* thread of the pool that copies a file and then refreshes the list.      *)
(* m_mutex guards the list but not the directories, nothing waits for the  *)
(* creations, and other programs change the files.                         *)
(*                                                                         *)
(* QFile::copy is taken by its contract: it refuses a name that is taken   *)
(* and lets the copy appear as a whole.  m_defaultModel, a path that       *)
(* nothing but its getter reads, is left out.                              *)
(***************************************************************************)
EXTENDS Naturals

CONSTANTS
  Dirs, Paths,  \* directories, and files of models in them
  DirOf,        \* the directory of each path
  BuiltIn,      \* the directories of initializeModelDirectories
  MainDir,      \* the first of them
  Good,         \* contents of valid models
  Bad,          \* contents that validateModel rejects
  NoFile,       \* no file; no path
  Jobs,         \* creations
  Gui,          \* the thread of the manager
  AtStart,      \* what may be on the disk at first
  NoOne,        \* nobody holds m_mutex
  MaxMeddling   \* bound: changes of files by other programs

Contents == Good \cup {Bad, NoFile}

ASSUME ConstantsAssumption ==
  /\ DirOf \in [Paths -> Dirs] /\ BuiltIn \subseteq Dirs /\ MainDir \in BuiltIn
  /\ Bad \notin Good /\ NoFile \notin Good /\ Bad # NoFile
  /\ AtStart \subseteq [Paths -> Contents]
  /\ Gui \notin Jobs /\ NoOne \notin Jobs \cup {Gui} /\ MaxMeddling \in Nat

VARIABLES
  disk,       \* the content of each path
  backup,     \* the content of each path's ".backup"
  dirs,       \* m_modelDirectories
  mainDir,    \* m_modelDirectory
  list,       \* m_models
  loaded,     \* m_currentModelPath
  refresher,  \* who holds m_mutex, refreshing the list
  todo,       \* the directories it has yet to scan
  stuck,      \* a slot called under it asked for it again: it waits for ever
  gui,        \* "idle"; "refresh": at the call of refreshModelList
  job,        \* the creations
  fate,       \* "defined", or "undefined": the program's behaviour is
  alive,      \* the manager exists
  meddling,   \* changes by other programs so far
  unscanned,  \* history: paths changed since their directory was scanned
  foreign     \* history: paths changed by other programs or restored

fileVars == <<disk, backup, meddling, foreign>>
listVars == <<list, refresher, todo, stuck, gui>>
vars == <<fileVars, dirs, mainDir, listVars, loaded, job, fate, alive,
          unscanned>>

NoJob == [state |-> "none", source |-> NoFile, output |-> NoFile, made |-> NoFile]

TypeOK ==
  /\ disk \in [Paths -> Contents] /\ backup \in [Paths -> Contents]
  /\ dirs \subseteq Dirs /\ mainDir \in Dirs /\ todo \subseteq dirs
  /\ list \subseteq Paths /\ loaded \in Paths \cup {NoFile}
  /\ refresher \in Jobs \cup {Gui, NoOne}
  /\ gui \in {"idle", "refresh"} /\ stuck \in BOOLEAN
  /\ job \in [Jobs -> [state : {"none", "queued", "copied", "done", "failed"},
                       source : Paths \cup {NoFile}, output : Paths \cup {NoFile},
                       made : Contents]]
  /\ \A j \in Jobs : job[j].state \in {"copied", "done"} => job[j].made # NoFile
  /\ fate \in {"defined", "undefined"} /\ alive \in BOOLEAN
  /\ meddling \in 0 .. MaxMeddling
  /\ unscanned \subseteq Paths /\ foreign \subseteq Paths

Valid(p) == disk[p] \in Good
In(d) == {p \in Paths : DirOf[p] = d}

\* The constructor has scanned what it found.
Init ==
  /\ disk \in AtStart /\ backup = [p \in Paths |-> NoFile]
  /\ dirs = BuiltIn /\ mainDir = MainDir
  /\ list = {p \in Paths : DirOf[p] \in BuiltIn /\ Valid(p)}
  /\ loaded = NoFile
  /\ refresher = NoOne /\ todo = {} /\ stuck = FALSE /\ gui = "idle"
  /\ job = [j \in Jobs |-> NoJob] /\ fate = "defined" /\ alive = TRUE
  /\ meddling = 0 /\ unscanned = {} /\ foreign = {}

\* The owner may call.
Free == /\ fate = "defined" /\ alive /\ gui = "idle"
        /\ ~(stuck /\ refresher = Gui)

\* A signal is emitted under the mutex, which is not recursive: a slot called
\* directly may ask for the list or the model.
EmitLocked(t) == \/ refresher' = NoOne /\ UNCHANGED stuck
                 \/ refresher' = t /\ stuck' = TRUE

-----------------------------------------------------------------------------
(***************************************************************************)
(* refreshModelList: all of it under the mutex, directory by directory.    *)
(***************************************************************************)
Wants(t) == IF t = Gui THEN gui = "refresh" ELSE alive /\ job[t].state = "copied"

\* Defect: the old entries are kept.
beginRefreshKeepingList(t) ==
  /\ fate = "defined" /\ Wants(t) /\ refresher = NoOne
  /\ refresher' = t /\ todo' = dirs
  /\ UNCHANGED <<fileVars, dirs, mainDir, list, stuck, gui, loaded, job, fate,
                 alive, unscanned>>

beginRefresh(t) ==
  /\ fate = "defined" /\ Wants(t) /\ refresher = NoOne
  /\ refresher' = t /\ list' = {} /\ todo' = dirs
  /\ UNCHANGED <<fileVars, dirs, mainDir, stuck, gui, loaded, job, fate, alive,
                 unscanned>>

scanDirectoryForModels(t) ==
  /\ fate = "defined" /\ refresher = t /\ alive
  /\ \E d \in todo :
       /\ todo' = todo \ {d}
       /\ list' = list \cup {p \in In(d) : Valid(p)}
       /\ unscanned' = unscanned \ In(d)
  /\ UNCHANGED <<fileVars, dirs, mainDir, refresher, stuck, gui, loaded, job,
                 fate, alive>>

\* Defect: the mutex is still held.
endRefreshKeepingLock(t) ==
  /\ fate = "defined" /\ refresher = t /\ todo = {} /\ ~stuck /\ alive
  /\ gui' = IF t = Gui THEN "idle" ELSE gui
  /\ job' = IF t = Gui THEN job ELSE [job EXCEPT ![t].state = "done"]
  /\ UNCHANGED <<fileVars, dirs, mainDir, list, refresher, todo, stuck, loaded,
                 fate, alive, unscanned>>

\* modelListUpdated is emitted, the mutex released; a creation has finished.
endRefresh(t) ==
  /\ fate = "defined" /\ refresher = t /\ todo = {} /\ ~stuck /\ alive
  /\ refresher' = NoOne
  /\ gui' = IF t = Gui THEN "idle" ELSE gui
  /\ job' = IF t = Gui THEN job ELSE [job EXCEPT ![t].state = "done"]
  /\ UNCHANGED <<fileVars, dirs, mainDir, list, todo, stuck, loaded, fate, alive,
                 unscanned>>

\* A slot of modelListUpdated, called directly, asks for the list.
slotReenters(t) ==
  /\ fate = "defined" /\ refresher = t /\ todo = {} /\ ~stuck /\ alive
  /\ stuck' = TRUE
  /\ UNCHANGED <<fileVars, dirs, mainDir, list, refresher, todo, gui, loaded,
                 job, fate, alive, unscanned>>

-----------------------------------------------------------------------------
(***************************************************************************)
(* Calls of the owner.                                                     *)
(***************************************************************************)
\* A file that is missing or invalid is an error, told under the mutex too.
loadModel(p) ==
  /\ Free /\ refresher = NoOne
  /\ loaded' = IF Valid(p) THEN p ELSE loaded
  /\ EmitLocked(Gui)
  /\ UNCHANGED <<fileVars, dirs, mainDir, list, todo, gui, job, fate, alive, unscanned>>

unloadModel ==
  /\ Free /\ refresher = NoOne /\ loaded # NoFile
  /\ loaded' = NoFile
  /\ EmitLocked(Gui)
  /\ UNCHANGED <<fileVars, dirs, mainDir, list, todo, gui, job, fate, alive, unscanned>>

refreshModelList ==
  /\ Free
  /\ gui' = "refresh"
  /\ UNCHANGED <<fileVars, dirs, mainDir, list, refresher, todo, stuck, loaded,
                 job, fate, alive, unscanned>>

\* The list of directories is extended without the mutex, perhaps while a
\* creation's refresh walks through it.
addModelDirectory(d) ==
  /\ Free /\ d \notin dirs
  /\ dirs' = dirs \cup {d} /\ gui' = "refresh"
  /\ fate' = IF refresher = NoOne THEN fate ELSE "undefined"
  /\ unscanned' = unscanned \cup In(d)
  /\ UNCHANGED <<fileVars, mainDir, list, refresher, todo, stuck, loaded, job, alive>>

\* The directory is not among those that are scanned.
setModelDirectory(d) ==
  /\ Free
  /\ mainDir' = d /\ gui' = "refresh"
  /\ UNCHANGED <<fileVars, dirs, list, refresher, todo, stuck, loaded, job, fate,
                 alive, unscanned>>

backupModel(p) ==
  /\ Free /\ disk[p] # NoFile /\ backup[p] = NoFile
  /\ backup' = [backup EXCEPT ![p] = disk[p]]
  /\ UNCHANGED <<disk, meddling, foreign, dirs, mainDir, listVars, loaded,
                 job, fate, alive, unscanned>>

\* A restored model is not listed until the next refresh.
restoreModel(p) ==
  /\ Free /\ backup[p] # NoFile /\ disk[p] = NoFile
  /\ disk' = [disk EXCEPT ![p] = backup[p]] /\ unscanned' = unscanned \cup {p}
  /\ foreign' = foreign \cup {p}
  /\ UNCHANGED <<backup, meddling, dirs, mainDir, listVars, loaded, job,
                 fate, alive>>

\* createGGUFModel, convertToGGUF and quantizeModel.
createGGUFModel(j) ==
  /\ Free /\ job[j].state = "none"
  /\ \E s, o \in Paths :
       /\ disk[s] # NoFile
       /\ job' = [job EXCEPT ![j] =
            [state |-> "queued", source |-> s, output |-> o, made |-> NoFile]]
  /\ UNCHANGED <<fileVars, dirs, mainDir, listVars, loaded, fate, alive, unscanned>>

\* Nothing waits for the creations.
destroy ==
  /\ Free
  /\ alive' = FALSE
  /\ UNCHANGED <<fileVars, dirs, mainDir, listVars, loaded, job, fate, unscanned>>

-----------------------------------------------------------------------------
(***************************************************************************)
(* processModelCreation, on a thread of the pool, and other programs.      *)
(***************************************************************************)
Queued(j) == fate = "defined" /\ alive /\ job[j].state = "queued"

\* Defect: an existing output is replaced.
copiesOver(j) ==
  /\ Queued(j) /\ disk[job[j].source] # NoFile
  /\ disk' = [disk EXCEPT ![job[j].output] = disk[job[j].source]]
  /\ job' = [job EXCEPT ![j].state = "copied", ![j].made = disk[job[j].source]]
  /\ UNCHANGED <<backup, meddling, foreign, dirs, mainDir, listVars, loaded,
                 fate, alive, unscanned>>

\* Defect: a source that is gone is copied.
copiesMissing(j) ==
  /\ Queued(j) /\ disk[job[j].output] = NoFile
  /\ job' = [job EXCEPT ![j].state = "copied", ![j].made = disk[job[j].source]]
  /\ UNCHANGED <<fileVars, dirs, mainDir, listVars, loaded, fate, alive, unscanned>>

copies(j) ==
  /\ Queued(j) /\ disk[job[j].source] # NoFile /\ disk[job[j].output] = NoFile
  /\ disk' = [disk EXCEPT ![job[j].output] = disk[job[j].source]]
  /\ job' = [job EXCEPT ![j].state = "copied", ![j].made = disk[job[j].source]]
  /\ UNCHANGED <<backup, meddling, foreign, dirs, mainDir, listVars, loaded,
                 fate, alive, unscanned>>

\* The source is gone, the output exists, or the disk is full.
copyFails(j) ==
  /\ Queued(j)
  /\ job' = [job EXCEPT ![j].state = "failed"]
  /\ UNCHANGED <<fileVars, dirs, mainDir, listVars, loaded, fate, alive, unscanned>>

\* A creation goes on after the manager was destroyed.
outlives(j) ==
  /\ fate = "defined" /\ ~alive /\ job[j].state \in {"queued", "copied"}
  /\ fate' = "undefined"
  /\ UNCHANGED <<fileVars, dirs, mainDir, listVars, loaded, job, alive, unscanned>>

meddle(p) ==
  /\ fate = "defined" /\ meddling < MaxMeddling
  /\ meddling' = meddling + 1
  /\ \E c \in Contents : disk' = [disk EXCEPT ![p] = c]
  /\ unscanned' = unscanned \cup {p} /\ foreign' = foreign \cup {p}
  /\ UNCHANGED <<backup, dirs, mainDir, listVars, loaded, job, fate, alive>>

OnPath(p) ==
  \/ loadModel(p) \/ backupModel(p) \/ restoreModel(p)
  \/ meddle(p)

Refresh(t) ==
  beginRefresh(t) \/ scanDirectoryForModels(t) \/ endRefresh(t) \/ slotReenters(t)

processModelCreation(j) == copies(j) \/ copyFails(j) \/ outlives(j) \/ Refresh(j)

Next ==
  \/ \E p \in Paths : OnPath(p)
  \/ \E d \in Dirs : addModelDirectory(d) \/ setModelDirectory(d)
  \/ \E j \in Jobs : createGGUFModel(j) \/ processModelCreation(j)
  \/ Refresh(Gui)
  \/ unloadModel \/ refreshModelList \/ destroy

Spec == Init /\ [][Next]_vars

\* Threads run, and none is kept from the mutex for ever.
FairSpec ==
  /\ Spec
  /\ WF_vars(Refresh(Gui))
  /\ \A j \in Jobs :
       /\ WF_vars(copies(j) \/ copyFails(j) \/ outlives(j))
       /\ SF_vars(Refresh(j))

-----------------------------------------------------------------------------
(***************************************************************************)
(* Properties.                                                             *)
(***************************************************************************)
Awaited(p) == \E j \in Jobs : job[j].state = "copied" /\ job[j].output = p

\* Whenever the mutex is free, the list holds the valid models of the
\* directories and no other, however the creations' refreshes and the
\* owner's fell out, but for what was restored, or changed by other programs,
\* since the directory was scanned, and what a creation still has to refresh.
ListFollowsDisk ==
  fate = "defined" /\ alive /\ refresher = NoOne =>
    \A p \in Paths :
      IF DirOf[p] \in dirs
      THEN p \in unscanned \/ Awaited(p) \/ (p \in list <=> Valid(p))
      ELSE p \notin list

\* A model once created stays what it was made of: no other creation of the
\* same output touches it (model_manager.cpp:299).
OutputStays ==
  \A j \in Jobs : job[j].state \in {"copied", "done"} /\ job[j].output \notin foreign =>
    disk[job[j].output] = job[j].made

\* Every creation ends with modelCreationFinished, as long as the manager
\* lives and no slot called under the mutex asks for it again.
CreationEnds ==
  \A j \in Jobs :
    job[j].state = "queued" ~>
      (job[j].state \in {"done", "failed"} \/ ~alive \/ stuck
         \/ fate = "undefined")

=============================================================================
