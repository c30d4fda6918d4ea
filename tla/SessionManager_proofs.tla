----------------------- MODULE SessionManager_proofs ------------------------
(***************************************************************************)
(* SessionManager keeps its types and the newest version of each session,  *)
(* and implements SessionStore, for any sets of names and threads.         *)
(***************************************************************************)
EXTENDS SessionManager, TLAPS

-----------------------------------------------------------------------------
(***************************************************************************)
(* The inductive invariant.                                                *)
(***************************************************************************)

\* The mutex is held exactly while something is done under it; what a save
\* writes and what an autosave is about to save exist; in the destructor only
\* its own thread is active, and nothing of a run of the program is left once
\* it is down.
Shape ==
  /\ step = "none" <=> holder = NoOne
  /\ step = "open" => file \in Files /\ Written \in Sessions
  /\ \A t \in Threads : pending[t] # NoSession => current \in Sessions
  /\ phase = "down" => /\ step = "none" /\ current = NoSession
                       /\ \A t \in Threads : pending[t] = NoSession
  /\ phase = "quitting" =>
       /\ exits < MaxExits /\ holder \in {NoOne, Owner}
       /\ \A t \in Threads \ {Owner} : pending[t] = NoSession

\* The session has the name that belongs into the file.
Bears(f, s) == s.name = IF f \in Names THEN f ELSE Unnamed

Clean == mishaps \cap {"swap", "detached"} = {}

FilesNewest ==
  /\ \A f \in Files : files[f] \in Sessions => Bears(f, files[f])
  /\ \A n \in Names : files[n] \in Sessions => files[n].version = newest[n]

CurrentNewest ==
  current \in Sessions /\ current.name \in Names =>
    newest[current.name] <= current.version /\ current.version <= clock

\* What is saved, or about to be, is the current session under its own name.
SavesCurrent ==
  /\ \A t \in Threads : pending[t] # NoSession => Bears(pending[t], current)
  /\ step = "open" => Written = current /\ Bears(file, current)

VersionsGiven == \A n \in Names : newest[n] <= clock

InOrder == VersionsGiven /\ FilesNewest /\ CurrentNewest /\ SavesCurrent

IInv == TypeOK /\ Shape /\ (Clean => InOrder)

-----------------------------------------------------------------------------
(***************************************************************************)
(* Sessions and the names of their files.                                  *)
(***************************************************************************)

\* A session is neither missing nor damaged, and has a name and a version.
LEMMA SessionFacts ==
  ASSUME NEW s \in Sessions
  PROVE  /\ s.name \in Names \cup {Unnamed} /\ s.version \in 1 .. MaxVersion
         /\ s # NoSession /\ s # Damaged
  BY ConstantsAssumption DEF Sessions

\* An autosave's own file is none of the user's.
LEMMA FileFacts ==
  /\ Names \subseteq Files /\ NoSession \notin Files
  /\ \A i \in Seconds : AutoFile(i) \in Files /\ AutoFile(i) \notin Names
  BY ConstantsAssumption DEF Files

\* The name autoSave finds is that of a file, and belongs to the session.
LEMMA AutoNameFits ==
  ASSUME TypeOK, current \in Sessions, NEW second \in Seconds
  PROVE  AutoName(second) \in Files /\ Bears(AutoName(second), current)
  <1>1. CASE current.name = Unnamed
    <2>1. AutoName(second) = AutoFile(second)
      BY <1>1 DEF AutoName
    <2> QED
      BY <1>1, <2>1, FileFacts DEF Bears, TypeOK, autoVars
  <1>2. CASE current.name # Unnamed
    <2>1. AutoName(second) = current.name /\ current.name \in Names
      BY <1>2, SessionFacts DEF AutoName
    <2> QED
      BY <2>1, FileFacts DEF Bears
  <1> QED
    BY <1>1, <1>2

\* The versions a write leaves behind.
LEMMA NewerFacts ==
  ASSUME TypeOK, NEW f, NEW v \in 0 .. MaxVersion
  PROVE  /\ Newer(f, v) \in [Names -> 0 .. MaxVersion]
         /\ \A n \in Names : Newer(f, v)[n] = IF n = f /\ v > newest[n] THEN v ELSE newest[n]
  BY DEF Newer, TypeOK, autoVars

\* What a step does.
LEMMA Steps ==
  ASSUME [Next]_vars
  PROVE  \/ \E t \in Threads : saveSession(t)
         \/ \E t \in Threads : loadSession(t)
         \/ \E t \in Threads : deleteSession(t)
         \/ \E t \in Threads : setCurrentSession(t) \/ clearCurrentSession(t)
         \/ \E t \in Threads : autoSave(t)
         \/ \E t \in Threads : autoSaves(t)
         \/ \E t \in Threads : autoSaveRefused(t)
         \/ writeFile \/ writeFails \/ returns \/ slotReenters
         \/ enableAutoSave \/ elapses \/ destroy \/ destroyed \/ crash \/ start
         \/ UNCHANGED vars
  BY Zenon DEF Next, Call, AutoSave

\* No step forgets a mishap.
LEMMA MishapsStay ==
  ASSUME [Next]_vars
  PROVE  mishaps \subseteq mishaps'
  BY Steps DEF saveSession, loadSession, deleteSession, setCurrentSession, clearCurrentSession,
     Replace, autoSave, autoSaves, autoSaveRefused, writeFile, writeFails, returns, slotReenters,
     enableAutoSave, elapses, destroy, destroyed, crash, start, vars, autoVars

-----------------------------------------------------------------------------
(***************************************************************************)
(* Each step keeps the types and the shape.                                *)
(***************************************************************************)

LEMMA InitWell == Init => TypeOK /\ Shape
  <1> SUFFICES ASSUME Init PROVE TypeOK /\ Shape
    OBVIOUS
  <1>1. files \in [Files -> Sessions \cup {NoSession, Damaged}]
    BY DEF Init
  <1>2. /\ pending \in [Threads -> Files \cup {NoSession}]
        /\ newest \in [Names -> 0 .. MaxVersion]
    BY ConstantsAssumption DEF Init
  <1>3. mishaps \subseteq Mishaps
    BY DEF Init
  <1>4. 0 \in 0 .. MaxVersion /\ 0 \in 0 .. MaxExits
    BY ConstantsAssumption
  <1>5. TypeOK
    BY <1>1, <1>2, <1>3, <1>4 DEF Init, TypeOK, autoVars
  <1>6. Shape
    BY DEF Init, Shape
  <1> QED
    BY <1>5, <1>6

LEMMA saveSessionWell ==
  ASSUME TypeOK, Shape, NEW t \in Threads, saveSession(t)
  PROVE  TypeOK' /\ Shape'
  <1>1. PICK n \in Names, s \in Sessions :
          /\ clock' = clock \/ clock' = s.version
          /\ Truncate(t, n, s)
          /\ mishaps' = mishaps \/ mishaps' = mishaps \cup {"detached"}
    BY DEF saveSession
  <1>2. files[n] \in Sessions \cup {NoSession, Damaged} /\ n \in Files /\ s \in Sessions
    BY FileFacts DEF TypeOK, autoVars
  <1>3. files' \in [Files -> Sessions \cup {NoSession, Damaged}]
    BY <1>1 DEF Truncate, TypeOK, autoVars
  <1>4. clock' \in 0 .. MaxVersion
    BY <1>1, SessionFacts DEF TypeOK, autoVars
  <1>5. mishaps' \subseteq Mishaps
    BY <1>1 DEF TypeOK, Mishaps, autoVars
  <1>6. TypeOK'
    BY <1>1, <1>2, <1>3, <1>4, <1>5 DEF Truncate, saveSession, TypeOK, autoVars
  <1>7. Written' = s
    BY <1>1, SessionFacts DEF Truncate, Written
  <1> QED
    BY <1>1, <1>2, <1>6, <1>7, ConstantsAssumption DEF Truncate, saveSession, Enters, Idle, Shape

LEMMA loadSessionWell ==
  ASSUME TypeOK, Shape, NEW t \in Threads, loadSession(t)
  PROVE  TypeOK' /\ Shape'
  <1>1. current' \in Sessions /\ mishaps' \subseteq Mishaps
    BY DEF loadSession, Replace, TypeOK, Mishaps, autoVars
  <1>2. TypeOK'
    BY <1>1 DEF loadSession, Emits, counters, TypeOK, autoVars
  <1> QED
    BY <1>1, <1>2, ConstantsAssumption DEF loadSession, Emits, Enters, Idle, Shape

LEMMA deleteSessionWell ==
  ASSUME TypeOK, Shape, NEW t \in Threads, deleteSession(t)
  PROVE  TypeOK' /\ Shape'
  <1>1. files' \in [Files -> Sessions \cup {NoSession, Damaged}]
    BY DEF deleteSession, TypeOK, autoVars
  <1>2. TypeOK'
    BY <1>1 DEF deleteSession, Emits, counters, TypeOK, autoVars
  <1> QED
    BY <1>2, ConstantsAssumption DEF deleteSession, Emits, Enters, Idle, Shape

LEMMA setCurrentSessionWell ==
  ASSUME TypeOK, Shape, NEW t \in Threads, setCurrentSession(t) \/ clearCurrentSession(t)
  PROVE  TypeOK' /\ Shape'
  <1>1. PICK s \in Sessions : clock' = s.version /\ Replace(s)
    BY DEF setCurrentSession, clearCurrentSession
  <1>2. /\ current' \in Sessions /\ mishaps' \subseteq Mishaps /\ clock' \in 0 .. MaxVersion
    BY <1>1, SessionFacts DEF Replace, TypeOK, Mishaps, autoVars
  <1>3. /\ UNCHANGED <<files, autoVars, phase, lockVars, pending, exits, newest>>
        /\ Enters(t)
    BY DEF setCurrentSession, clearCurrentSession
  <1>4. TypeOK'
    BY <1>2, <1>3 DEF lockVars, TypeOK, autoVars
  <1>5. step = "none"
    BY <1>3 DEF Enters, Shape
  <1> QED
    BY <1>2, <1>3, <1>4, <1>5 DEF lockVars, Enters, Shape

LEMMA autoSaveWell ==
  ASSUME TypeOK, Shape, NEW t \in Threads, autoSave(t)
  PROVE  TypeOK' /\ Shape'
  <1>1. current \in Sessions
    BY DEF autoSave, TypeOK, autoVars
  <1>2. pending' \in [Threads -> Files \cup {NoSession}]
    BY <1>1, AutoNameFits DEF autoSave, TypeOK, autoVars
  <1>3. TypeOK'
    BY <1>2 DEF autoSave, lockVars, counters, TypeOK, autoVars
  <1>4. Written' = Written
    BY DEF autoSave, lockVars, Written
  <1> QED
    BY <1>1, <1>3, <1>4 DEF autoSave, lockVars, counters, Shape, autoVars

LEMMA autoSavesWell ==
  ASSUME TypeOK, Shape, NEW t \in Threads, autoSaves(t)
  PROVE  TypeOK' /\ Shape'
  <1>1. current \in Sessions /\ pending[t] \in Files
    BY DEF autoSaves, TypeOK, Shape, autoVars
  <1>2. files' \in [Files -> Sessions \cup {NoSession, Damaged}]
    BY DEF autoSaves, Truncate, TypeOK, autoVars
  <1>3. pending' \in [Threads -> Files \cup {NoSession}]
    BY DEF autoSaves, TypeOK, autoVars
  <1>4. before' \in Sessions \cup {NoSession, Damaged} /\ file' \in Files
    BY <1>1 DEF autoSaves, Truncate, TypeOK, autoVars
  <1>5. TypeOK'
    BY <1>2, <1>3, <1>4 DEF autoSaves, Truncate, counters, TypeOK, autoVars
  <1>6. Written' \in Sessions
    BY <1>1 DEF autoSaves, Truncate, Written
  <1> QED
    BY <1>1, <1>4, <1>5, <1>6, ConstantsAssumption DEF autoSaves, Truncate, counters, Shape, TypeOK,
       autoVars

LEMMA autoSaveRefusedWell ==
  ASSUME TypeOK, Shape, NEW t \in Threads, autoSaveRefused(t)
  PROVE  TypeOK' /\ Shape'
  <1>1. pending' \in [Threads -> Files \cup {NoSession}]
    BY DEF autoSaveRefused, TypeOK, autoVars
  <1>2. mishaps' \subseteq Mishaps
    BY DEF autoSaveRefused, TypeOK, Mishaps, autoVars
  <1>3. TypeOK'
    BY <1>1, <1>2 DEF autoSaveRefused, lockVars, counters, TypeOK, autoVars
  <1>4. Written' = Written
    BY DEF autoSaveRefused, lockVars, Written
  <1> QED
    BY <1>3, <1>4 DEF autoSaveRefused, lockVars, counters, Shape, TypeOK, autoVars

LEMMA writeFileWell ==
  ASSUME TypeOK, Shape, writeFile
  PROVE  TypeOK' /\ Shape'
  <1>1. file \in Files /\ Written \in Sessions
    BY DEF writeFile, Shape
  <1>2. files' \in [Files -> Sessions \cup {NoSession, Damaged}]
    BY <1>1 DEF writeFile, TypeOK, autoVars
  <1>3. newest' \in [Names -> 0 .. MaxVersion]
    BY <1>1, SessionFacts, NewerFacts DEF writeFile
  <1>4. TypeOK'
    BY <1>2, <1>3 DEF writeFile, counters, TypeOK, autoVars
  <1> QED
    BY <1>4 DEF writeFile, counters, Shape, autoVars

\* Steps that change neither files nor the current session.
LEMMA OthersWell ==
  ASSUME TypeOK, Shape,
         writeFails \/ returns \/ slotReenters \/ enableAutoSave \/ elapses \/ start
           \/ UNCHANGED vars
  PROVE  TypeOK' /\ Shape'
  <1>1. CASE writeFails \/ slotReenters
    <2>1. mishaps' \subseteq Mishaps
      BY <1>1 DEF writeFails, slotReenters, TypeOK, Mishaps, autoVars
    <2>2. TypeOK'
      BY <1>1, <2>1 DEF writeFails, slotReenters, counters, TypeOK, autoVars
    <2> QED
      BY <1>1, <2>2 DEF writeFails, slotReenters, counters, Shape, autoVars
  <1>2. CASE returns
    <2>1. TypeOK'
      BY <1>2 DEF returns, counters, TypeOK, autoVars
    <2> QED
      BY <1>2, <2>1 DEF returns, counters, Shape, autoVars
  <1>3. CASE enableAutoSave \/ elapses \/ start \/ UNCHANGED vars
    <2>1. TypeOK'
      BY <1>3 DEF enableAutoSave, elapses, start, vars, lockVars, counters, TypeOK,
         autoVars
    <2>2. Written' = Written
      BY <1>3 DEF enableAutoSave, elapses, start, vars, lockVars, Written, autoVars
    <2> QED
      BY <1>3, <2>1, <2>2 DEF enableAutoSave, elapses, start, vars, lockVars, counters, Shape,
         autoVars
  <1> QED
    BY <1>1, <1>2, <1>3

LEMMA destroyWell ==
  ASSUME TypeOK, Shape, destroy
  PROVE  TypeOK' /\ Shape'
  <1>1. pending' \in [Threads -> Files \cup {NoSession}]
    <2>1. CASE enabled /\ current # NoSession
      <3>1. current \in Sessions
        BY <2>1 DEF TypeOK, autoVars
      <3> QED
        BY <2>1, <3>1, AutoNameFits DEF destroy, TypeOK, autoVars
    <2>2. CASE ~(enabled /\ current # NoSession)
      BY <2>2 DEF destroy, TypeOK, autoVars
    <2> QED
      BY <2>1, <2>2
  <1>2. TypeOK'
    BY <1>1 DEF destroy, lockVars, counters, TypeOK, autoVars
  <1>3. Written' = Written
    BY DEF destroy, lockVars, Written
  <1>4. \A t \in Threads : pending'[t] # NoSession => current' \in Sessions
    BY DEF destroy, Idle, Shape, TypeOK, autoVars
  <1>5. holder = NoOne /\ \A t \in Threads \ {Owner} : pending'[t] = NoSession
    <2>1. \A t \in Threads : holder # t /\ pending[t] = NoSession
      BY DEF destroy, Idle
    <2>2. \/ \E second \in Seconds : pending' = [pending EXCEPT ![Owner] = AutoName(second)]
          \/ pending' = pending
      BY DEF destroy
    <2> QED
      BY <2>1, <2>2 DEF TypeOK, autoVars
  <1> QED
    BY <1>2, <1>3, <1>4, <1>5 DEF destroy, lockVars, counters, Shape, autoVars

LEMMA DownWell ==
  ASSUME TypeOK, Shape, destroyed \/ crash
  PROVE  TypeOK' /\ Shape'
  <1>1. Down /\ exits < MaxExits
    BY DEF destroyed, crash, Shape
  <1>2. mishaps' \subseteq Mishaps
    BY DEF destroyed, crash, TypeOK, Mishaps, autoVars
  <1>3. exits' \in 0 .. MaxExits
    BY <1>1, ConstantsAssumption DEF Down, TypeOK, autoVars
  <1>4. TypeOK'
    BY <1>1, <1>2, <1>3 DEF Down, TypeOK, autoVars
  <1> QED
    BY <1>1, <1>4 DEF Down, Shape

LEMMA NextWell ==
  ASSUME TypeOK, Shape, [Next]_vars
  PROVE  TypeOK' /\ Shape'
  BY Zenon, Steps, saveSessionWell, loadSessionWell, deleteSessionWell, setCurrentSessionWell,
     autoSaveWell, autoSavesWell, autoSaveRefusedWell, writeFileWell, OthersWell, destroyWell,
     DownWell

\* No session is saved that does not exist, no half-written file is taken for
\* one, whatever threads, slots, crashes and disks do.
THEOREM TypeCorrect == Spec => []TypeOK
  <1>1. Init => TypeOK /\ Shape
    BY InitWell
  <1>2. (TypeOK /\ Shape) /\ [Next]_vars => (TypeOK /\ Shape)'
    BY NextWell
  <1> QED
    BY <1>1, <1>2, PTL DEF Spec

-----------------------------------------------------------------------------
(***************************************************************************)
(* While there is no mishap, each step keeps the order of the versions.    *)
(***************************************************************************)

LEMMA InitOrder == Init => InOrder
  <1> SUFFICES ASSUME Init PROVE InOrder
    OBVIOUS
  <1>1. VersionsGiven
    <2>1. clock = 0 /\ \A n \in Names : newest[n] = 0
      BY DEF Init
    <2>2. SUFFICES ASSUME NEW n \in Names PROVE newest[n] <= clock
      BY DEF VersionsGiven
    <2> QED
      BY <2>1, <2>2
  <1>2. FilesNewest
    BY FileFacts, ConstantsAssumption DEF Init, FilesNewest
  <1>3. CurrentNewest /\ SavesCurrent
    BY ConstantsAssumption DEF Init, CurrentNewest, SavesCurrent
  <1> QED
    BY <1>1, <1>2, <1>3 DEF InOrder

\* A file that is truncated or removed holds no session.
LEMMA LessFilesInOrder ==
  ASSUME TypeOK, FilesNewest, newest' = newest, NEW f \in Files,
         NEW none \in {NoSession, Damaged}, files' = [files EXCEPT ![f] = none]
  PROVE  FilesNewest'
  <1>1. none \notin Sessions
    BY ConstantsAssumption
  <1>2. \A g \in Files : files'[g] \in Sessions => files'[g] = files[g]
    BY <1>1 DEF TypeOK, autoVars
  <1> QED
    BY <1>2, FileFacts DEF FilesNewest, Bears

LEMMA saveSessionOrder ==
  ASSUME TypeOK, Shape, InOrder, NEW t \in Threads, saveSession(t), Clean'
  PROVE  InOrder'
  <1>1. PICK n \in Names, s \in Sessions :
          /\ \/ clock' = clock
             \/ s.version = clock + 1 /\ clock' = s.version
          /\ Truncate(t, n, s)
          /\ mishaps' = IF s = current /\ s.name = n THEN mishaps
                        ELSE mishaps \cup {"detached"}
    BY Zenon DEF saveSession
  <1>2. s = current /\ s.name = n
    <2>1. "detached" \notin mishaps'
      BY DEF Clean
    <2> QED
      BY <1>1, <2>1
  <1>3. n \in Files /\ s # NoSession
    BY FileFacts, SessionFacts
  <1>4. FilesNewest'
    BY <1>1, <1>3, LessFilesInOrder DEF Truncate, saveSession, InOrder
  <1>5. clock <= clock' /\ newest' = newest /\ current' = current /\ pending' = pending
    BY <1>1 DEF saveSession, TypeOK, autoVars
  <1>6. VersionsGiven'
    BY <1>1, <1>5 DEF InOrder, VersionsGiven, saveSession, TypeOK, autoVars
  <1>7. CurrentNewest'
    <2>1. clock \in Int /\ clock' \in Int
      BY <1>1, SessionFacts DEF TypeOK, autoVars
    <2>2. current.version \in Int
      BY <1>2, SessionFacts
    <2> QED
      BY <1>5, <2>1, <2>2 DEF InOrder, CurrentNewest
  <1>8. SavesCurrent'
    <2>1. Written' = s
      BY <1>1, <1>3 DEF Truncate, Written
    <2>2. Bears(n, s)
      BY <1>2 DEF Bears
    <2> QED
      BY <1>1, <1>2, <1>5, <2>1, <2>2 DEF Truncate, InOrder, SavesCurrent, Bears
  <1> QED
    BY <1>4, <1>6, <1>7, <1>8 DEF InOrder

\* Whatever replaces the current session keeps its name while an autosave is
\* about to save under it.
LEMMA ReplaceKeepsName ==
  ASSUME TypeOK, Shape, SavesCurrent, NEW s \in Sessions, Replace(s), Clean', pending' = pending,
         step' # "open"
  PROVE  SavesCurrent'
  <1>1. (\E t \in Threads : pending[t] # NoSession) => s.name = current.name
    BY DEF Replace, Clean
  <1> QED
    BY <1>1 DEF Replace, SavesCurrent, Bears

LEMMA loadSessionOrder ==
  ASSUME TypeOK, Shape, InOrder, NEW t \in Threads, loadSession(t), Clean'
  PROVE  InOrder'
  <1>1. PICK f \in Files : files[f] \in Sessions /\ Replace(files[f])
    BY DEF loadSession
  <1>2. /\ files' = files /\ newest' = newest /\ clock' = clock /\ pending' = pending
        /\ step' = "done" /\ current' = files[f]
    BY <1>1 DEF loadSession, Emits, Replace, counters, autoVars
  <1>3. VersionsGiven' /\ FilesNewest'
    BY <1>2 DEF InOrder, VersionsGiven, FilesNewest, Bears
  <1>4. CurrentNewest'
    <2>1. SUFFICES ASSUME files[f].name \in Names
                   PROVE  newest[files[f].name] <= files[f].version /\ files[f].version <= clock
      BY <1>2 DEF CurrentNewest
    <2>2. f \in Names /\ files[f].name = f
      BY <1>1, <2>1, ConstantsAssumption DEF InOrder, FilesNewest, Bears
    <2>3. files[f].version = newest[f] /\ newest[f] <= clock
      BY <1>1, <2>2 DEF InOrder, FilesNewest, VersionsGiven
    <2> QED
      BY <2>2, <2>3 DEF TypeOK, autoVars
  <1>5. SavesCurrent'
    BY <1>1, <1>2, ReplaceKeepsName DEF InOrder
  <1> QED
    BY <1>3, <1>4, <1>5 DEF InOrder

LEMMA deleteSessionOrder ==
  ASSUME TypeOK, Shape, InOrder, NEW t \in Threads, deleteSession(t), Clean'
  PROVE  InOrder'
  <1>1. /\ newest' = newest /\ clock' = clock /\ pending' = pending
        /\ step' = "done" /\ current' = current
    BY DEF deleteSession, Emits, counters, autoVars
  <1>2. FilesNewest'
    BY <1>1, LessFilesInOrder DEF deleteSession, InOrder
  <1> QED
    BY <1>1, <1>2 DEF InOrder, VersionsGiven, CurrentNewest, SavesCurrent, Bears

LEMMA setCurrentSessionOrder ==
  ASSUME TypeOK, Shape, InOrder, NEW t \in Threads,
         setCurrentSession(t) \/ clearCurrentSession(t), Clean'
  PROVE  InOrder'
  <1>1. PICK s \in Sessions : s.version = clock + 1 /\ clock' = s.version /\ Replace(s)
    BY DEF setCurrentSession, clearCurrentSession
  <1>2. /\ UNCHANGED <<files, lockVars, pending, newest>>
        /\ Enters(t)
    BY DEF setCurrentSession, clearCurrentSession
  <1>3. step' = "none" /\ current' = s
    BY <1>1, <1>2 DEF Enters, Shape, lockVars, Replace
  <1>4. VersionsGiven'
    BY <1>1, <1>2 DEF InOrder, VersionsGiven, TypeOK, autoVars
  <1>5. FilesNewest'
    BY <1>2 DEF InOrder, FilesNewest, Bears
  <1>6. CurrentNewest'
    <2>1. \A n \in Names : newest[n] \in Int /\ newest[n] <= clock /\ clock \in Int
      BY DEF InOrder, VersionsGiven, TypeOK, autoVars
    <2> QED
      BY <1>1, <1>2, <1>3, <2>1 DEF CurrentNewest
  <1>7. SavesCurrent'
    BY <1>1, <1>2, <1>3, ReplaceKeepsName DEF InOrder
  <1> QED
    BY <1>4, <1>5, <1>6, <1>7 DEF InOrder

LEMMA autoSaveOrder ==
  ASSUME TypeOK, Shape, InOrder, NEW t \in Threads, autoSave(t), Clean'
  PROVE  InOrder'
  <1>1. /\ UNCHANGED <<files, newest, clock, step, current, file, data>>
        /\ current \in Sessions
    BY DEF autoSave, lockVars, counters, TypeOK, autoVars
  <1>0. PICK second \in Seconds : pending' = [pending EXCEPT ![t] = AutoName(second)]
    BY DEF autoSave
  <1>2. Bears(AutoName(second), current)
    BY <1>1, AutoNameFits
  <1>3. \A u \in Threads : pending'[u] # NoSession => Bears(pending'[u], current)
    BY <1>0, <1>1, <1>2 DEF InOrder, SavesCurrent, TypeOK, autoVars
  <1>4. SavesCurrent'
    BY <1>1, <1>3 DEF InOrder, SavesCurrent, Bears, Written
  <1> QED
    BY <1>1, <1>4 DEF InOrder, VersionsGiven, FilesNewest, CurrentNewest, Bears

LEMMA autoSavesOrder ==
  ASSUME TypeOK, Shape, InOrder, NEW t \in Threads, autoSaves(t), Clean'
  PROVE  InOrder'
  <1>1. /\ UNCHANGED <<newest, clock, current>>
        /\ pending' = [pending EXCEPT ![t] = NoSession]
        /\ pending[t] # NoSession /\ pending[t] \in Files
        /\ file' = pending[t] /\ data' = NoSession
        /\ files' = [files EXCEPT ![pending[t]] = Damaged]
    BY DEF autoSaves, Truncate, counters, TypeOK, autoVars
  <1>2. FilesNewest'
    BY <1>1, LessFilesInOrder DEF InOrder
  <1>3. Written' = current
    BY <1>1 DEF Written
  <1>4. SavesCurrent'
    BY <1>1, <1>3 DEF InOrder, SavesCurrent, Bears, TypeOK, autoVars
  <1> QED
    BY <1>1, <1>2, <1>4 DEF InOrder, VersionsGiven, CurrentNewest

LEMMA autoSaveRefusedOrder ==
  ASSUME TypeOK, Shape, InOrder, NEW t \in Threads, autoSaveRefused(t), Clean'
  PROVE  InOrder'
  <1>1. /\ UNCHANGED <<files, newest, clock, step, current, file, data>>
        /\ pending' = [pending EXCEPT ![t] = NoSession]
    BY DEF autoSaveRefused, lockVars, counters, autoVars
  <1>2. SavesCurrent'
    BY <1>1 DEF InOrder, SavesCurrent, Bears, Written, TypeOK, autoVars
  <1> QED
    BY <1>1, <1>2 DEF InOrder, VersionsGiven, FilesNewest, CurrentNewest, Bears

LEMMA writeFileOrder ==
  ASSUME TypeOK, Shape, InOrder, writeFile, Clean'
  PROVE  InOrder'
  <1>1. /\ UNCHANGED <<clock, current, pending>>
        /\ step' = "done"
        /\ file \in Files /\ current \in Sessions
        /\ Bears(file, current)
        /\ files' = [files EXCEPT ![file] = current]
        /\ newest' = Newer(file, current.version)
    BY DEF writeFile, counters, Shape, InOrder, SavesCurrent, autoVars
  <1>2. current.version \in 0 .. MaxVersion
    BY <1>1, SessionFacts
  <1>3. /\ \A n \in Names : newest'[n] = IF n = file /\ current.version > newest[n]
                                        THEN current.version ELSE newest[n]
        /\ \A n \in Names : newest[n] \in Int
    BY <1>1, <1>2, NewerFacts DEF TypeOK, autoVars
  <1>4. file \in Names =>
          /\ current.name = file
          /\ newest[file] <= current.version /\ current.version <= clock
    BY <1>1 DEF Bears, InOrder, CurrentNewest
  <1>5. file \in Names => newest'[file] = current.version
    BY <1>2, <1>3, <1>4
  <1>6. \A n \in Names : n # file => newest'[n] = newest[n]
    BY <1>3
  <1>7. VersionsGiven'
    BY <1>1, <1>4, <1>5, <1>6 DEF InOrder, VersionsGiven
  <1>8. FilesNewest'
    <2>1. \A f \in Files : files'[f] = IF f = file THEN current ELSE files[f]
      BY <1>1 DEF TypeOK, autoVars
    <2> QED
      BY <1>1, <1>5, <1>6, <2>1, FileFacts DEF InOrder, FilesNewest, Bears
  <1>9. CurrentNewest'
    BY <1>1, <1>2, <1>4, <1>5, <1>6 DEF InOrder, CurrentNewest
  <1>10. SavesCurrent'
    BY <1>1 DEF InOrder, SavesCurrent, Bears
  <1> QED
    BY <1>7, <1>8, <1>9, <1>10 DEF InOrder

LEMMA OthersOrder ==
  ASSUME TypeOK, Shape, InOrder,
         writeFails \/ returns \/ slotReenters \/ enableAutoSave \/ elapses \/ start
           \/ UNCHANGED vars
  PROVE  InOrder'
  <1>1. /\ UNCHANGED <<files, newest, clock, current, pending>>
        /\ step' # "open" \/ UNCHANGED <<step, file, data>>
    BY DEF writeFails, returns, slotReenters, enableAutoSave, elapses, start, vars, lockVars, counters,
       autoVars
  <1>2. SavesCurrent'
    BY <1>1 DEF InOrder, SavesCurrent, Bears, Written
  <1> QED
    BY <1>1, <1>2 DEF InOrder, VersionsGiven, FilesNewest, CurrentNewest, Bears

LEMMA destroyOrder ==
  ASSUME TypeOK, Shape, InOrder, destroy
  PROVE  InOrder'
  <1>1. /\ UNCHANGED <<files, newest, clock, step, current, file, data>>
        /\ \A u \in Threads : pending'[u] = NoSession
             \/ \E second \in Seconds : pending'[u] = AutoName(second) /\ current \in Sessions
    <2>1. CASE enabled /\ current # NoSession
      BY <2>1 DEF destroy, Idle, lockVars, counters, TypeOK, autoVars
    <2>2. CASE ~(enabled /\ current # NoSession)
      <3>1. pending' = pending
        BY Zenon, <2>2 DEF destroy
      <3> QED
        BY <3>1 DEF destroy, Idle, lockVars, counters, autoVars
    <2> QED
      BY <2>1, <2>2
  <1>2. \A u \in Threads : pending'[u] # NoSession => Bears(pending'[u], current)
    BY <1>1, AutoNameFits
  <1>3. SavesCurrent'
    BY <1>1, <1>2 DEF InOrder, SavesCurrent, Bears, Written
  <1> QED
    BY <1>1, <1>3 DEF InOrder, VersionsGiven, FilesNewest, CurrentNewest, Bears

LEMMA DownOrder ==
  ASSUME TypeOK, Shape, InOrder, destroyed \/ crash
  PROVE  InOrder'
  <1>1. Down
    BY DEF destroyed, crash
  <1>2. SavesCurrent' /\ CurrentNewest'
    BY <1>1, ConstantsAssumption DEF Down, SavesCurrent, CurrentNewest
  <1> QED
    BY <1>1, <1>2 DEF Down, InOrder, VersionsGiven, FilesNewest, Bears

LEMMA NextOrder ==
  ASSUME IInv, [Next]_vars
  PROVE  IInv'
  <1>1. TypeOK' /\ Shape'
    BY NextWell DEF IInv
  <1>2. ASSUME Clean' PROVE InOrder'
    <2>1. TypeOK /\ Shape /\ InOrder
      BY <1>2, MishapsStay DEF IInv, Clean
    <2> QED
      BY Zenon, <1>2, <2>1, Steps, saveSessionOrder, loadSessionOrder, deleteSessionOrder,
         setCurrentSessionOrder, autoSaveOrder, autoSavesOrder, autoSaveRefusedOrder,
         writeFileOrder, OthersOrder, destroyOrder, DownOrder
  <1> QED
    BY <1>1, <1>2 DEF IInv

\* The session in a file that bears its name is known by name and version.
LEMMA InOrderSuffices == IInv => NewestIsKept
  <1> SUFFICES ASSUME TypeOK, InOrder, NEW n \in Names, files[n] \in Sessions
               PROVE  files[n] = [name |-> n, version |-> newest[n]]
    BY DEF IInv, NewestIsKept, Clean
  <1>1. files[n].name = n /\ files[n].version = newest[n]
    BY FileFacts DEF InOrder, FilesNewest, Bears
  <1> QED
    BY <1>1 DEF Sessions

LEMMA IInvHolds == Spec => []IInv
  <1>1. Init => IInv
    BY InitWell, InitOrder DEF IInv
  <1>2. IInv /\ [Next]_vars => IInv'
    BY NextOrder
  <1> QED
    BY <1>1, <1>2, PTL DEF Spec

\* Whichever threads autosave, load, save and clear, the file of a name holds
\* that session in the newest version ever stored.
THEOREM NothingOverwrittenByOlder == Spec => []NewestIsKept
  <1>1. IInv => NewestIsKept
    BY InOrderSuffices
  <1> QED
    BY <1>1, IInvHolds, PTL

-----------------------------------------------------------------------------
(***************************************************************************)
(* SessionManager implements SessionStore.                                 *)
(***************************************************************************)

Broken == mishaps \cap {"crash", "full"} # {}

\* Steps of the store, in this module's terms.
LEMMA StoreStutters ==
  ASSUME Stored' = Stored, current' = current, Broken' = Broken,
         (phase # "down")' = (phase # "down")
  PROVE  UNCHANGED Store!vars
  BY Zenon DEF Store!vars, Broken

\* A failed write, or a crash in the middle of one, ends the promise.
LEMMA StoreBreaks == ASSUME Broken' PROVE Store!Next
  BY Zenon DEF Store!Next, Broken

\* What is stored while no file is being written.
LEMMA StoredFacts ==
  ASSUME TypeOK
  PROVE  /\ step # "open" => Stored = files
         /\ Stored = [f \in Files |-> IF step = "open" /\ f = file THEN before ELSE files[f]]
  BY DEF Stored, TypeOK, autoVars

\* Truncating the file changes nothing yet.
LEMMA TruncateStutters ==
  ASSUME TypeOK, step # "open", NEW t, NEW f \in Files, NEW s, Truncate(t, f, s)
  PROVE  Stored' = Stored
  <1>1. /\ files' = [files EXCEPT ![f] = Damaged]
        /\ step' = "open" /\ file' = f /\ before' = files[f]
    BY DEF Truncate
  <1>2. \A g \in Files : files'[g] = IF g = f THEN Damaged ELSE files[g]
    BY <1>1 DEF TypeOK, autoVars
  <1>3. Stored' = [g \in Files |-> IF g = f THEN files[f] ELSE files[g]]
    BY <1>1, <1>2 DEF Stored
  <1>4. Stored = [g \in Files |-> files[g]]
    BY DEF Stored
  <1> QED
    BY <1>3, <1>4

LEMMA StoredStays ==
  ASSUME UNCHANGED <<files, step, file, before>> \/ (files' = files /\ step # "open" /\ step' # "open")
  PROVE  Stored' = Stored
  BY DEF Stored

LEMMA savesStutter ==
  ASSUME TypeOK, Shape, NEW t \in Threads, saveSession(t) \/ autoSaves(t)
  PROVE  UNCHANGED Store!vars
  <1>1. step # "open"
    BY DEF saveSession, autoSaves, Enters, Shape
  <1>2. Stored' = Stored
    <2>1. CASE saveSession(t)
      <3>1. PICK n \in Names, s \in Sessions : Truncate(t, n, s)
        BY <2>1 DEF saveSession
      <3> QED
        BY <1>1, <3>1, FileFacts, TruncateStutters
    <2>2. CASE autoSaves(t)
      BY <1>1, <2>2, TruncateStutters DEF autoSaves, TypeOK, autoVars
    <2> QED
      BY <2>1, <2>2
  <1>3. current' = current /\ phase' = phase
    BY DEF saveSession, autoSaves
  <1>4. mishaps' = mishaps \/ mishaps' = mishaps \cup {"detached"}
    BY DEF saveSession, autoSaves
  <1>5. Broken' = Broken
    BY <1>4 DEF Broken
  <1> QED
    BY <1>2, <1>3, <1>5, StoreStutters

LEMMA loadSessionTakes ==
  ASSUME TypeOK, Shape, ~Broken, NEW t \in Threads, loadSession(t)
  PROVE  Store!Next
  <1>1. PICK f \in Files : files[f] \in Sessions /\ Replace(files[f])
    BY DEF loadSession
  <1>2. /\ files' = files /\ step = "none" /\ step' = "done" /\ phase = "up" /\ phase' = "up"
        /\ current' = files[f]
    BY <1>1 DEF loadSession, Emits, Enters, Shape, Replace
  <1>3. mishaps' = mishaps \/ mishaps' = mishaps \cup {"swap"}
    BY <1>1 DEF Replace
  <1>4. ~Broken'
    BY <1>3 DEF Broken
  <1>5. Stored = files /\ Stored' = Stored
    BY <1>2, StoredFacts, StoredStays
  <1>6. Stored[f] # NoSession /\ current' = Stored[f]
    BY <1>1, <1>2, <1>5, SessionFacts
  <1>7. Store!Take
    BY <1>2, <1>4, <1>5, <1>6 DEF Store!Take, Broken
  <1> QED
    BY <1>7 DEF Store!Next, Broken

LEMMA deleteSessionDrops ==
  ASSUME TypeOK, Shape, ~Broken, NEW t \in Threads, deleteSession(t)
  PROVE  Store!Next
  <1>1. PICK f \in Files : files' = [files EXCEPT ![f] = NoSession]
    BY DEF deleteSession
  <1>2. /\ step = "none" /\ step' = "done" /\ phase = "up" /\ phase' = "up"
        /\ current' = current /\ mishaps' = mishaps
    BY DEF deleteSession, Emits, Enters, Shape
  <1>3. files' \in [Files -> Sessions \cup {NoSession, Damaged}]
    BY <1>1 DEF TypeOK, autoVars
  <1>4. Stored = files /\ Stored' = files'
    <2>1. Stored' = [g \in Files |-> files'[g]]
      BY <1>2 DEF Stored
    <2> QED
      BY <1>2, <1>3, <2>1, StoredFacts
  <1>5. Store!Drop
    BY <1>1, <1>2, <1>4 DEF Store!Drop
  <1> QED
    BY <1>5 DEF Store!Next, Broken

LEMMA setCurrentSessionHolds ==
  ASSUME TypeOK, Shape, ~Broken, NEW t \in Threads,
         setCurrentSession(t) \/ clearCurrentSession(t)
  PROVE  Store!Next
  <1>1. PICK s \in Sessions : Replace(s)
    BY DEF setCurrentSession, clearCurrentSession
  <1>2. /\ UNCHANGED <<files, step, file, before, phase>> /\ phase = "up"
        /\ current' \in Sessions
    BY <1>1 DEF setCurrentSession, clearCurrentSession, lockVars, Enters, Replace
  <1>3. mishaps' = mishaps \/ mishaps' = mishaps \cup {"swap"}
    BY <1>1 DEF Replace
  <1>4. ~Broken'
    BY <1>3 DEF Broken
  <1>5. Stored' = Stored
    BY <1>2, StoredStays
  <1>6. Store!Hold
    BY <1>2, <1>4, <1>5 DEF Store!Hold, Broken
  <1> QED
    BY <1>6 DEF Store!Next, Broken

LEMMA writeFilePuts ==
  ASSUME TypeOK, Shape, ~Broken, writeFile
  PROVE  Store!Next
  <1>1. /\ step = "open" /\ step' = "done" /\ phase' = phase /\ phase # "down"
        /\ current' = current /\ mishaps' = mishaps
        /\ file \in Files /\ Written \in Sessions
        /\ files' = [files EXCEPT ![file] = Written]
    BY DEF writeFile, Shape
  <1>2. \A g \in Files : files'[g] = IF g = file THEN Written ELSE files[g]
    BY <1>1 DEF TypeOK, autoVars
  <1>3. Stored' = [g \in Files |-> IF g = file THEN Written ELSE files[g]]
    BY <1>1, <1>2 DEF Stored
  <1>4. Stored = [g \in Files |-> IF g = file THEN before ELSE files[g]]
    BY <1>1 DEF Stored
  <1>5. Stored' = [Stored EXCEPT ![file] = Written]
    BY <1>1, <1>3, <1>4
  <1>6. Store!Put
    BY <1>1, <1>5 DEF Store!Put
  <1> QED
    BY <1>6 DEF Store!Next, Broken

LEMMA othersStutter ==
  ASSUME TypeOK, Shape,
         \/ returns \/ slotReenters \/ enableAutoSave \/ elapses \/ UNCHANGED vars
         \/ \E t \in Threads : autoSave(t) \/ autoSaveRefused(t)
  PROVE  UNCHANGED Store!vars
  <1>1. /\ UNCHANGED <<files, current, phase>>
        /\ UNCHANGED <<step, file, before>> \/ (step # "open" /\ step' # "open")
    BY DEF returns, slotReenters, enableAutoSave, elapses, vars, autoSave, autoSaveRefused,
       lockVars, autoVars
  <1>2. mishaps' = mishaps \/ mishaps' = mishaps \cup {"refused"}
    BY DEF returns, slotReenters, enableAutoSave, elapses, vars, autoSave, autoSaveRefused,
       autoVars
  <1>3. Broken' = Broken
    BY <1>2 DEF Broken
  <1>4. Stored' = Stored
    BY <1>1, StoredStays
  <1> QED
    BY <1>1, <1>3, <1>4, StoreStutters

LEMMA destroyStutters ==
  ASSUME TypeOK, Shape, destroy
  PROVE  UNCHANGED Store!vars
  <1>1. /\ UNCHANGED <<files, current, step, file, before, mishaps>>
        /\ phase # "down" /\ phase' # "down"
    BY DEF destroy, lockVars
  <1>2. Stored' = Stored /\ Broken' = Broken
    BY <1>1, StoredStays DEF Broken
  <1> QED
    BY <1>1, <1>2, StoreStutters

LEMMA downCloses ==
  ASSUME TypeOK, Shape, ~Broken, destroyed \/ crash
  PROVE  Store!Next
  <1>1. CASE step = "open"
    <2>1. ~destroyed
      <3>1. ASSUME destroyed PROVE FALSE
        <4>1. holder = NoOne
          BY <3>1 DEF destroyed, Idle, Shape
        <4> QED
          BY <1>1, <4>1 DEF Shape
      <3> QED
        BY <3>1
    <2>2. "crash" \in mishaps'
      BY <1>1, <2>1 DEF crash
    <2>3. Broken'
      BY <2>2 DEF Broken
    <2> QED
      BY <2>3, StoreBreaks
  <1>2. CASE step # "open"
    <2>1. /\ files' = files /\ step' = "none" /\ current' = NoSession
          /\ phase # "down" /\ phase' = "down" /\ mishaps' = mishaps
      BY <1>2 DEF destroyed, crash, Down
    <2>2. Stored' = Stored
      BY <1>2, <2>1, StoredStays
    <2>3. Store!Close
      BY <2>1, <2>2 DEF Store!Close
    <2> QED
      BY <2>3 DEF Store!Next, Broken
  <1> QED
    BY <1>1, <1>2

LEMMA startOpens ==
  ASSUME TypeOK, Shape, ~Broken, start
  PROVE  Store!Next
  <1>1. /\ UNCHANGED <<files, current, step, file, before, mishaps>>
        /\ phase = "down" /\ phase' # "down"
    BY DEF start, lockVars
  <1>2. Stored' = Stored
    BY <1>1, StoredStays
  <1>3. Store!Open
    BY <1>1, <1>2 DEF Store!Open
  <1> QED
    BY <1>3 DEF Store!Next, Broken

LEMMA StoreInit == Init => Store!Init
  <1> SUFFICES ASSUME Init PROVE Store!Init
    OBVIOUS
  <1>1. Stored = [f \in Files |-> NoSession]
    BY DEF Init, Stored
  <1>2. current = NoSession /\ phase # "down" /\ mishaps = {}
    BY DEF Init
  <1> QED
    BY <1>1, <1>2 DEF Store!Init

LEMMA StoreStep ==
  ASSUME TypeOK, Shape, [Next]_vars
  PROVE  [Store!Next]_(Store!vars)
  <1>1. CASE Broken
    <2>1. Broken'
      BY <1>1, MishapsStay DEF Broken
    <2> QED
      BY <2>1, StoreBreaks
  <1>2. CASE writeFails
    <2>1. Broken'
      BY <1>2 DEF writeFails, Broken
    <2> QED
      BY <2>1, StoreBreaks
  <1>3. ASSUME ~Broken, ~writeFails PROVE Store!Next \/ UNCHANGED Store!vars
    BY Zenon, <1>3, Steps, savesStutter, loadSessionTakes, deleteSessionDrops,
       setCurrentSessionHolds, writeFilePuts, othersStutter, destroyStutters, downCloses,
       startOpens
  <1> QED
    BY <1>1, <1>2, <1>3

\* Sessions are stored, removed and taken up as wholes and survive exits and
\* crashes, until the disk fails or a crash falls into a save.
THEOREM StoreIsKept == Spec => KeepsStore
  <1>1. Init => Store!Init
    BY StoreInit
  <1>2. TypeOK /\ Shape /\ [Next]_vars => [Store!Next]_(Store!vars)
    BY StoreStep
  <1>3. Spec => [](TypeOK /\ Shape)
    <2>1. Init => TypeOK /\ Shape
      BY InitWell
    <2>2. (TypeOK /\ Shape) /\ [Next]_vars => (TypeOK /\ Shape)'
      BY NextWell
    <2> QED
      BY <2>1, <2>2, PTL DEF Spec
  <1> QED
    BY <1>1, <1>2, <1>3, PTL DEF Spec, KeepsStore, Store!Spec

-----------------------------------------------------------------------------
(***************************************************************************)
(* Calls return and autosaves arrive.  ENABLED is opaque to the provers:   *)
(* that the fair steps can be taken under their own guards is a hypothesis *)
(* of both theorems.                                                       *)
(***************************************************************************)
SavesArePossible ==
  /\ step = "open" => ENABLED <<writeFile \/ writeFails>>_vars
  /\ step = "done" => ENABLED <<returns \/ slotReenters>>_vars
  /\ fresh => ENABLED <<Timer>>_vars
  /\ phase = "up" /\ Idle(Owner) /\ enabled /\ current # NoSession =>
       ENABLED <<Timer>>_vars
  /\ pending[Owner] # NoSession /\ holder = NoOne =>
       ENABLED <<autoSaves(Owner) \/ autoSaveRefused(Owner)>>_vars

WellHolds == TypeOK /\ Shape

LEMMA WellShaped == Spec => []WellHolds
  <1>1. Init => WellHolds
    BY InitWell DEF WellHolds
  <1>2. WellHolds /\ [Next]_vars => WellHolds'
    BY NextWell DEF WellHolds
  <1> QED
    BY <1>1, <1>2, PTL DEF Spec

Free == holder = NoOne
Stuck == step = "stuck"
Opened == step = "open"
Finished == step = "done"

\* Under the mutex a call is at one of three places.
LEMMA HolderIsSomewhere == WellHolds => Free \/ Stuck \/ Opened \/ Finished
  BY DEF WellHolds, TypeOK, Shape, Free, Stuck, Opened, Finished, autoVars

\* While a save is under way, no other call gets in: it is written, or the
\* program dies.
LEMMA OpenedStays ==
  ASSUME WellHolds, Opened, [Next]_vars
  PROVE  \/ UNCHANGED <<step, file, data, current, files, holder>>
         \/ writeFile \/ writeFails \/ crash
  <1>1. step = "open" /\ holder # NoOne /\ holder \in Threads
    BY DEF WellHolds, Shape, TypeOK, Opened, autoVars
  <1> QED
    BY <1>1, Steps DEF saveSession, loadSession, deleteSession, setCurrentSession,
       clearCurrentSession, Enters, autoSave, autoSaves, autoSaveRefused, returns, slotReenters,
       enableAutoSave, elapses, destroy, destroyed, Idle, start, vars, lockVars, WellHolds, Shape,
       autoVars

\* While it emits its signal, it returns, gets stuck, or the program dies.
LEMMA FinishedStays ==
  ASSUME WellHolds, Finished, [Next]_vars
  PROVE  Finished' \/ Stuck' \/ Free'
  <1>1. step = "done" /\ holder # NoOne
    BY DEF WellHolds, Shape, Finished
  <1> QED
    BY <1>1, Steps DEF saveSession, loadSession, deleteSession, setCurrentSession,
       clearCurrentSession, Enters, autoSave, autoSaves, autoSaveRefused, writeFile, writeFails,
       returns, slotReenters, enableAutoSave, elapses, destroy, destroyed, crash, Down, start, vars,
       lockVars, Finished, Stuck, Free, autoVars

LEMMA CallsReturnWell == FairSpec /\ []SavesArePossible => []<>(Free \/ Stuck)
  <1>1. WellHolds /\ Opened /\ [Next]_vars => Opened' \/ Finished' \/ Free'
    BY OpenedStays DEF Opened, Finished, Free, writeFile, writeFails, crash, Down
  <1>2. <<writeFile \/ writeFails>>_vars => Finished'
    BY DEF writeFile, writeFails, Finished
  <1>3. WellHolds /\ Finished /\ [Next]_vars => Finished' \/ Stuck' \/ Free'
    BY FinishedStays
  <1>4. <<returns \/ slotReenters>>_vars => Free' \/ Stuck'
    BY DEF returns, slotReenters, Free, Stuck
  <1>5. SavesArePossible => /\ Opened => ENABLED <<writeFile \/ writeFails>>_vars
                            /\ Finished => ENABLED <<returns \/ slotReenters>>_vars
    BY DEF SavesArePossible, Opened, Finished
  <1> QED
    BY <1>1, <1>2, <1>3, <1>4, <1>5, HolderIsSomewhere, WellShaped, PTL DEF FairSpec, Spec

\* Every call frees the mutex, whatever the other threads do and however many
\* there are, but for the one that gets stuck: if a slot calls the manager from
\* a signal emitted under the mutex, nothing more is said of any call.
THEOREM CallsAlwaysReturn == FairSpec /\ []SavesArePossible => CallsReturn
  <1>1. Free \/ Stuck <=> holder = NoOne \/ step = "stuck"
    BY DEF Free, Stuck
  <1> QED
    BY <1>1, CallsReturnWell, PTL DEF CallsReturn

Fresh == fresh
Named == pending[Owner] # NoSession
Saving == step = "open" /\ data = NoSession

\* A name once read is kept until the owner's save goes on, or the program
\* is no longer up.
LEMMA NamedStays ==
  ASSUME WellHolds, Named, Waiting', [Next]_vars
  PROVE  Named' \/ Saving'
  <1>1. /\ pending \in [Threads -> Files \cup {NoSession}] /\ Owner \in Threads
        /\ phase' = "up" /\ mishaps' \cap {"full", "refused"} = {}
    BY ConstantsAssumption DEF WellHolds, TypeOK, Waiting, Unsaved, autoVars
  <1>2. ASSUME NEW t \in Threads, autoSave(t) PROVE Named'
    BY <1>1, <1>2 DEF autoSave, Idle, Named
  <1>3. ASSUME NEW t \in Threads, autoSaves(t) PROVE Named' \/ Saving'
    BY <1>1, <1>3 DEF autoSaves, Truncate, Named, Saving
  <1>4. ASSUME NEW t \in Threads, autoSaveRefused(t) PROVE FALSE
    BY <1>1, <1>4 DEF autoSaveRefused
  <1> QED
    BY <1>1, <1>2, <1>3, <1>4, Steps DEF saveSession, loadSession, deleteSession,
       setCurrentSession, clearCurrentSession, writeFile, writeFails, returns, slotReenters,
       enableAutoSave, elapses, destroy, destroyed, crash, Down, start, vars, Named,
       autoVars

\* An autosave under way writes the current session: it stays under way or
\* leaves the session stored.
LEMMA SavingStays ==
  ASSUME WellHolds, Saving, Waiting', [Next]_vars
  PROVE  Saving' /\ ~writeFile /\ ~writeFails
  <1>1. ~crash
    BY DEF Waiting, Unsaved, crash, Down
  <1>2. ~writeFails
    BY DEF Waiting, writeFails
  <1>3. ~writeFile
    <2> SUFFICES ASSUME writeFile PROVE FALSE
      OBVIOUS
    <2>1. file \in Files /\ files' = [files EXCEPT ![file] = current] /\ current' = current
      BY DEF Saving, writeFile, Written, WellHolds, Shape
    <2>2. files'[file] = current'
      BY <2>1 DEF WellHolds, TypeOK, autoVars
    <2> QED
      BY <2>1, <2>2 DEF Waiting, Unsaved
  <1> QED
    BY <1>1, <1>2, <1>3, OpenedStays DEF Saving, Opened

\* With autosave on, the current session comes to be stored, for any number of
\* threads that load, save, clear and delete meanwhile, as long as the disk
\* takes what is written, no slot blocks the manager and the timer is not
\* started anew for ever.
THEOREM AutosavesArrive == FairSpec /\ []SavesArePossible => AutosaveArrives
  <1>1. SavesArePossible /\ Waiting /\ ~Named /\ Free /\ ~Fresh => ENABLED <<Timer>>_vars
    BY ConstantsAssumption DEF SavesArePossible, Waiting, Unsaved, Named, Free, Idle, Fresh
  <1>2. WellHolds /\ ~Fresh /\ <<Timer>>_vars => Named'
    <2>1. ASSUME WellHolds, autoSave(Owner) PROVE Named'
      <3>1. current \in Sessions /\ Owner \in Threads
        BY <2>1, ConstantsAssumption DEF WellHolds, TypeOK, autoSave, autoVars
      <3>2. PICK second \in Seconds : pending' = [pending EXCEPT ![Owner] = AutoName(second)]
        BY <2>1 DEF autoSave
      <3>3. AutoName(second) \in Files /\ NoSession \notin Files
        BY <2>1, <3>1, AutoNameFits, FileFacts DEF WellHolds
      <3> QED
        BY <2>1, <3>1, <3>2, <3>3 DEF Named, WellHolds, TypeOK, autoVars
    <2> QED
      BY <2>1 DEF Timer, elapses, Fresh
  <1>3. WellHolds /\ Named /\ Waiting' /\ [Next]_vars => Named' \/ Saving'
    BY NamedStays
  <1>4. SavesArePossible /\ Named /\ Free =>
          ENABLED <<autoSaves(Owner) \/ autoSaveRefused(Owner)>>_vars
    BY DEF SavesArePossible, Named, Free
  <1>5. Waiting' /\ <<autoSaves(Owner) \/ autoSaveRefused(Owner)>>_vars => Saving'
    BY DEF autoSaves, autoSaveRefused, Truncate, Waiting, Saving
  <1>6. WellHolds /\ Saving /\ Waiting' /\ [Next]_vars => Saving'
    BY SavingStays
  <1>7. WellHolds /\ Saving /\ Waiting' /\ [Next]_vars => ~<<writeFile \/ writeFails>>_vars
    BY SavingStays
  <1>8. SavesArePossible /\ Saving => ENABLED <<writeFile \/ writeFails>>_vars
    BY DEF SavesArePossible, Saving
  <1>9. Waiting => ~Stuck
    BY DEF Waiting, Stuck
  <1>10. Fresh <=> fresh
    BY DEF Fresh
  <1>11. SavesArePossible /\ Fresh => ENABLED <<Timer>>_vars
    BY DEF SavesArePossible, Fresh
  <1>12. Fresh /\ <<Timer>>_vars => ~Fresh'
    BY DEF Timer, elapses, Fresh
  <1> QED
    BY <1>1, <1>2, <1>3, <1>4, <1>5, <1>6, <1>7, <1>8, <1>9, <1>10, <1>11, <1>12,
       CallsReturnWell, WellShaped,
       PTL DEF FairSpec, Spec, AutosaveArrives

=============================================================================
