---------------------------- MODULE PluginSystem ----------------------------
(***************************************************************************)
(* Plugins (plugin_system.cpp): loaders by the base name of their file,    *)
(* and the libraries they hold in memory.  A library stays until as many   *)
(* unloads have come as loads; deleting a loader is not an unload (Qt).    *)
(* Each call is atomic: it holds m_mutex from its first line to its last.  *)
(***************************************************************************)
EXTENDS Naturals

CONSTANTS Files, Plugins, \* plugin files, and the names they are known by
          BaseName,       \* the name of each file, as QFileInfo::baseName gives it
          NoFile,
          MaxLoads        \* bound on the loads of one file

ConstantsAssumption ==
  BaseName \in [Files -> Plugins] /\ NoFile \notin Files /\ MaxLoads \in Nat

VARIABLES onDisk,   \* the files that exist and are not empty
          loaders,  \* m_loadedPlugins: for each name the file of its loader, or NoFile
          resident, \* how many loads of each file's library no unload has answered
          replaced, \* files whose loader another one took the place of
          system    \* "up", "destroyed"

pluginVars == <<onDisk, loaders, resident, replaced, system>>

TypeOK ==
  /\ onDisk \subseteq Files
  /\ loaders \in [Plugins -> Files \cup {NoFile}]
  /\ resident \in [Files -> 0..MaxLoads]
  /\ replaced \subseteq Files
  /\ system \in {"up", "destroyed"}

Init ==
  /\ onDisk \in SUBSET Files
  /\ loaders = [p \in Plugins |-> NoFile]
  /\ resident = [f \in Files |-> 0]
  /\ replaced = {} /\ system = "up"

\* Another program installs or removes a file.
fileChanges(f) ==
  /\ onDisk' = IF f \in onDisk THEN onDisk \ {f} ELSE onDisk \cup {f}
  /\ UNCHANGED <<loaders, resident, replaced, system>>

\* A file that is missing, empty or no library leaves everything as it was.
\* A loader listed under the same name is overwritten, not unloaded.
loadPlugin(f) ==
  /\ system = "up" /\ f \in onDisk /\ resident[f] < MaxLoads
  /\ loaders' = [loaders EXCEPT ![BaseName[f]] = f]
  /\ resident' = [resident EXCEPT ![f] = @ + 1]
  /\ replaced' = replaced \cup ({loaders[BaseName[f]]} \ {NoFile})
  /\ UNCHANGED <<onDisk, system>>

\* Defect of unloadPlugin: the loader is deleted and its library stays.
unloadPluginDeleting(p) ==
  /\ system = "up" /\ loaders[p] # NoFile
  /\ loaders' = [loaders EXCEPT ![p] = NoFile]
  /\ UNCHANGED <<onDisk, resident, replaced, system>>

unloadPlugin(p) ==
  /\ system = "up" /\ loaders[p] # NoFile
  /\ resident' = [resident EXCEPT ![loaders[p]] = @ - 1]
  /\ loaders' = [loaders EXCEPT ![p] = NoFile]
  /\ UNCHANGED <<onDisk, replaced, system>>

\* The destructor deletes the loaders and unloads nothing.
destroy ==
  /\ system = "up" /\ system' = "destroyed"
  /\ loaders' = [p \in Plugins |-> NoFile]
  /\ UNCHANGED <<onDisk, resident, replaced>>

Next ==
  \/ \E f \in Files : fileChanges(f) \/ loadPlugin(f)
  \/ \E p \in Plugins : unloadPlugin(p)
  \/ destroy

-----------------------------------------------------------------------------
\* While the system is up, the libraries in memory are those of the plugins it
\* lists: what is listed is there, and what is there and not listed had its
\* loader replaced by another of the same name.
ListedIsResident ==
  system = "up" =>
    /\ \A p \in Plugins : loaders[p] # NoFile => resident[loaders[p]] > 0
    /\ \A f \in Files \ replaced : resident[f] > 0 => loaders[BaseName[f]] = f

=============================================================================
