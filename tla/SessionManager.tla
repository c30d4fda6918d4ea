--------------------------- MODULE SessionManager ---------------------------
(***************************************************************************)
(* SessionManager (src/session_manager.cpp): the current session, the      *)
(* files of saved sessions, and the autosave.  m_mutex guards the calls    *)
(* but not autoSave, which reads the current session's name, calls         *)
(* saveSession, and only there takes the mutex.  A save truncates the file *)
(* first (QFile::open), writes, and emits sessionSaved under the mutex.    *)
(*                                                                         *)
(* A session is its name and a version that every edit makes anew.  Any    *)
(* thread may call; Owner is the thread the object, and its timer, live in.*)
(***************************************************************************)
EXTENDS Integers

CONSTANTS
  Names,       \* names users give to sessions
  Unnamed,     \* the name "" of a session
  Threads,     \* calling threads
  Owner,       \* the manager's own
  NoOne,       \* nobody holds the mutex
  NoSession,   \* an empty QJsonObject; a file that does not exist
  Damaged,     \* a truncated file, which does not parse
  MaxVersion,  \* bound: sessions edited
  Seconds,     \* those in which autosaves of unnamed sessions fall
  MaxExits     \* bound: exits and crashes

\* autoSave's name for a session without one.
AutoFile(second) == <<"autosave", second>>

Files == Names \cup {AutoFile(i) : i \in Seconds}
Sessions == [name : Names \cup {Unnamed}, version : 1 .. MaxVersion]

ASSUME ConstantsAssumption ==
  /\ Owner \in Threads /\ NoOne \notin Threads
  /\ Unnamed \notin Names /\ \A i \in Seconds : AutoFile(i) \notin Names
  /\ NoSession # Damaged /\ {NoSession, Damaged} \cap Sessions = {}
  /\ {NoSession} \cap Files = {}
  /\ MaxVersion \in Nat /\ MaxExits \in Nat

VARIABLES
  current,   \* m_currentSession
  files,     \* the session directory
  enabled,   \* m_autoSaveEnabled; the timer runs
  fresh,     \* it was started less than an interval ago
  phase,     \* "up", "quitting" (in the destructor), "down"
  holder,    \* the thread that holds m_mutex
  step,      \* what it does: "open" (file truncated), "done" (emits), "stuck"
  file,      \* the file it writes
  data,      \* the session it writes; NoSession: a reference to current
  before,    \* history: what was in the file
  pending,   \* the file autoSave is about to save to, by thread
  clock,     \* versions given out
  exits,     \* exits and crashes so far
  newest,    \* history: the newest version written under each name
  mishaps    \* history: what went wrong, or how the manager was misused

autoVars == <<enabled, fresh>>
lockVars == <<holder, step, file, data, before>>
counters == <<clock, exits>>
vars == <<current, files, autoVars, phase, lockVars, pending, counters, newest, mishaps>>

Mishaps == {"crash",     \* the program died in the middle of a save
            "full",      \* a write failed, which saveSession does not notice
            "refused",   \* a file could not be opened
            "swap",      \* the current session changed while autoSave had its name
            "detached"}  \* a session was saved that is not current, or as another

TypeOK ==
  /\ current \in Sessions \cup {NoSession}
  /\ files \in [Files -> Sessions \cup {NoSession, Damaged}]
  /\ enabled \in BOOLEAN /\ fresh \in BOOLEAN /\ phase \in {"up", "quitting", "down"}
  /\ holder \in Threads \cup {NoOne}
  /\ step \in {"none", "open", "done", "stuck"}
  /\ file \in Files \cup {NoSession} /\ data \in Sessions \cup {NoSession}
  /\ before \in Sessions \cup {NoSession, Damaged}
  /\ pending \in [Threads -> Files \cup {NoSession}]
  /\ clock \in 0 .. MaxVersion
  /\ exits \in 0 .. MaxExits /\ newest \in [Names -> 0 .. MaxVersion]
  /\ mishaps \subseteq Mishaps

Init ==
  /\ current = NoSession /\ files = [f \in Files |-> NoSession]
  /\ enabled = FALSE /\ fresh = FALSE /\ phase = "up"
  /\ holder = NoOne /\ step = "none"
  /\ file = NoSession /\ data = NoSession /\ before = NoSession
  /\ pending = [t \in Threads |-> NoSession]
  /\ clock = 0 /\ exits = 0
  /\ newest = [n \in Names |-> 0] /\ mishaps = {}

Idle(t) == holder # t /\ pending[t] = NoSession

\* A thread makes a call that takes the mutex.
Enters(t) == phase = "up" /\ Idle(t) /\ holder = NoOne

-----------------------------------------------------------------------------
(***************************************************************************)
(* saveSession: open and truncate, write, emit, release.                   *)
(***************************************************************************)
Truncate(t, f, s) ==
  /\ holder' = t /\ step' = "open"
  /\ file' = f /\ data' = s /\ before' = files[f]
  /\ files' = [files EXCEPT ![f] = Damaged]

\* The session of the call: the current one, or another the caller made.
\* A file that cannot be opened changes nothing.
saveSession(t) ==
  /\ Enters(t)
  /\ \E n \in Names, s \in Sessions :
       /\ \/ s = current /\ clock' = clock
          \/ s.version = clock + 1 /\ clock' = s.version
       /\ Truncate(t, n, s)
       /\ mishaps' = IF s = current /\ s.name = n THEN mishaps
                     ELSE mishaps \cup {"detached"}
  /\ UNCHANGED <<current, autoVars, phase, pending, exits, newest>>

Written == IF data = NoSession THEN current ELSE data

Newer(f, v) ==
  [n \in Names |-> IF n = f /\ v > newest[n] THEN v ELSE newest[n]]

writeFile ==
  /\ step = "open"
  /\ step' = "done" /\ files' = [files EXCEPT ![file] = Written]
  /\ newest' = Newer(file, Written.version)
  /\ UNCHANGED <<current, autoVars, phase, holder, file, data, before, pending,
                 counters, mishaps>>

\* The result of QFile::write is not looked at.
writeFails ==
  /\ step = "open"
  /\ step' = "done" /\ mishaps' = mishaps \cup {"full"}
  /\ UNCHANGED <<current, files, autoVars, phase, holder, file, data, before,
                 pending, counters, newest>>

\* The signal is emitted, its slots return, and QMutexLocker releases.
returns ==
  /\ step = "done"
  /\ holder' = NoOne /\ step' = "none"
  /\ file' = NoSession /\ data' = NoSession /\ before' = NoSession
  /\ UNCHANGED <<current, files, autoVars, phase, pending, counters, newest, mishaps>>

\* A slot connected directly calls the manager again: QMutex is not recursive.
slotReenters ==
  /\ step = "done"
  /\ step' = "stuck"
  /\ UNCHANGED <<current, files, autoVars, phase, holder, file, data, before,
                 pending, counters, newest, mishaps>>

-----------------------------------------------------------------------------
(***************************************************************************)
(* The other calls under the mutex.                                        *)
(***************************************************************************)

\* The current session is replaced, perhaps under an autoSave's feet.
Replace(s) ==
  /\ current' = s
  /\ mishaps' = IF /\ \E t \in Threads : pending[t] # NoSession
                   /\ s.name # current.name
                THEN mishaps \cup {"swap"} ELSE mishaps

Emits(t) ==
  /\ holder' = t /\ step' = "done"
  /\ UNCHANGED <<file, data, before>>

\* Defect: the current session is cleared before the file is looked at.
loadSessionClearing(t) ==
  /\ Enters(t)
  /\ \E f \in Files :
       current' = IF files[f] \in Sessions THEN files[f] ELSE NoSession
  /\ Emits(t)
  /\ UNCHANGED <<files, autoVars, phase, pending, counters, newest, mishaps>>

\* Defect: the mutex is still held when the call returns.
loadSessionKeepingLock(t) ==
  /\ Enters(t)
  /\ \E f \in Files : files[f] \in Sessions /\ Replace(files[f])
  /\ holder' = t /\ step' = "none"
  /\ UNCHANGED <<file, data, before, files, autoVars, phase, pending, counters, newest>>

\* A file that is missing or does not parse changes nothing.
loadSession(t) ==
  /\ Enters(t)
  /\ \E f \in Files : files[f] \in Sessions /\ Replace(files[f])
  /\ Emits(t)
  /\ UNCHANGED <<files, autoVars, phase, pending, counters, newest>>

deleteSession(t) ==
  /\ Enters(t)
  /\ \E f \in Files :
       /\ files[f] # NoSession
       /\ files' = [files EXCEPT ![f] = NoSession]
  /\ Emits(t)
  /\ UNCHANGED <<current, autoVars, phase, pending, counters, newest, mishaps>>

\* Defect: the mutex is not taken.
setCurrentSessionUnlocked(t) ==
  /\ phase = "up" /\ Idle(t)
  /\ \E s \in Sessions :
       s.version = clock + 1 /\ clock' = s.version /\ Replace(s)
  /\ UNCHANGED <<files, autoVars, phase, lockVars, pending, exits, newest>>

\* The version of an edited session is new.
setCurrentSession(t) ==
  /\ Enters(t)
  /\ \E s \in Sessions :
       s.version = clock + 1 /\ clock' = s.version /\ Replace(s)
  /\ UNCHANGED <<files, autoVars, phase, lockVars, pending, exits, newest>>

\* createDefaultSession has no name and a new date.
clearCurrentSession(t) ==
  /\ Enters(t)
  /\ \E s \in Sessions :
       /\ s.name = Unnamed /\ s.version = clock + 1
       /\ clock' = s.version
       /\ Replace(s)
  /\ UNCHANGED <<files, autoVars, phase, lockVars, pending, exits, newest>>

-----------------------------------------------------------------------------
(***************************************************************************)
(* Autosave.  The current session is read with no mutex held; a read torn  *)
(* by another thread's write ends the program, which is `crash'.           *)
(***************************************************************************)
AutoName(second) == IF current.name = Unnamed THEN AutoFile(second) ELSE current.name

\* Defect: a session without a name is not saved.
autoSaveNamed(t) ==
  /\ phase = "up" /\ Idle(t)
  /\ enabled /\ current # NoSession /\ current.name # Unnamed
  /\ pending' = [pending EXCEPT ![t] = current.name]
  /\ UNCHANGED <<current, files, autoVars, phase, lockVars, counters, newest, mishaps>>

autoSave(t) ==
  /\ phase = "up" /\ Idle(t)
  /\ enabled /\ current # NoSession
  /\ \E second \in Seconds : pending' = [pending EXCEPT ![t] = AutoName(second)]
  /\ UNCHANGED <<current, files, autoVars, phase, lockVars, counters, newest, mishaps>>

\* autoSave calls saveSession with a reference to the current session.
autoSaves(t) ==
  /\ pending[t] # NoSession /\ holder = NoOne
  /\ Truncate(t, pending[t], NoSession)
  /\ pending' = [pending EXCEPT ![t] = NoSession]
  /\ UNCHANGED <<current, autoVars, phase, counters, newest, mishaps>>

autoSaveRefused(t) ==
  /\ pending[t] # NoSession /\ holder = NoOne
  /\ pending' = [pending EXCEPT ![t] = NoSession]
  /\ mishaps' = mishaps \cup {"refused"}
  /\ UNCHANGED <<current, files, autoVars, phase, lockVars, counters, newest>>

\* Called in the timer's thread.  A timer that runs is started anew.
enableAutoSave ==
  /\ phase = "up" /\ Idle(Owner)
  /\ enabled' \in BOOLEAN /\ fresh' = enabled'
  /\ UNCHANGED <<current, files, phase, lockVars, pending, counters, newest, mishaps>>

\* An interval passes.  From then on the timer fires, again and again.
elapses ==
  /\ fresh
  /\ fresh' = FALSE
  /\ UNCHANGED <<current, files, enabled, phase, lockVars, pending, counters, newest,
                 mishaps>>

Timer == elapses \/ (~fresh /\ autoSave(Owner))

-----------------------------------------------------------------------------
(***************************************************************************)
(* The life of the program.                                                *)
(***************************************************************************)

\* The destructor autosaves; no other thread may be in a call by then.
destroy ==
  /\ phase = "up" /\ exits < MaxExits
  /\ \A t \in Threads : Idle(t)
  /\ phase' = "quitting"
  /\ IF enabled /\ current # NoSession
       THEN \E second \in Seconds : pending' = [pending EXCEPT ![Owner] = AutoName(second)]
       ELSE UNCHANGED pending
  /\ UNCHANGED <<current, files, autoVars, lockVars, counters, newest, mishaps>>

Down ==
  /\ phase' = "down" /\ current' = NoSession /\ enabled' = FALSE /\ fresh' = FALSE
  /\ holder' = NoOne /\ step' = "none"
  /\ file' = NoSession /\ data' = NoSession /\ before' = NoSession
  /\ pending' = [t \in Threads |-> NoSession] /\ exits' = exits + 1
  /\ UNCHANGED <<files, clock, newest>>

destroyed == phase = "quitting" /\ Idle(Owner) /\ Down /\ UNCHANGED mishaps

crash ==
  /\ phase # "down" /\ exits < MaxExits /\ Down
  /\ mishaps' = IF step = "open" THEN mishaps \cup {"crash"} ELSE mishaps

\* The constructor: nothing is current, the timer does not run.
start ==
  /\ phase = "down"
  /\ phase' = "up"
  /\ UNCHANGED <<current, files, autoVars, lockVars, pending, counters, newest, mishaps>>

Call(t) ==
  \/ saveSession(t) \/ loadSession(t) \/ deleteSession(t)
  \/ setCurrentSession(t) \/ clearCurrentSession(t)

AutoSave(t) == autoSave(t) \/ autoSaves(t) \/ autoSaveRefused(t)

Next ==
  \/ \E t \in Threads : Call(t) \/ AutoSave(t)
  \/ writeFile \/ writeFails \/ returns \/ slotReenters
  \/ enableAutoSave \/ elapses \/ destroy \/ destroyed \/ crash \/ start

Spec == Init /\ [][Next]_vars

\* Saves go on; a timer not started anew within every interval fires, and no
\* other thread keeps the mutex.
FairSpec ==
  /\ Spec
  /\ WF_vars(writeFile \/ writeFails)
  /\ WF_vars(returns \/ slotReenters)
  /\ SF_vars(Timer)
  /\ SF_vars(autoSaves(Owner) \/ autoSaveRefused(Owner))

-----------------------------------------------------------------------------
(***************************************************************************)
(* Properties.                                                             *)
(***************************************************************************)

\* What is stored under a name is that session, in the newest version ever
\* stored: no autosave, by whichever thread and after whatever loads and
\* restarts, puts an older session over a newer one or one over another.
\* Not so if saveSession was called with another session than the current one
\* or with another name than its own (it does not make it current,
\* session_manager.cpp:39), or the current session was replaced between
\* autoSave's reading of the name and saveSession's lock (:147, :152).
NewestIsKept ==
  mishaps \cap {"swap", "detached"} = {} =>
    \A n \in Names : files[n] \in Sessions =>
      files[n] = [name |-> n, version |-> newest[n]]

\* A file being written counts as what it was: the crash that leaves it
\* truncated is the end of the promise.
Stored == [f \in Files |-> IF step = "open" /\ f = file THEN before ELSE files[f]]

Store == INSTANCE SessionStore WITH
  store <- Stored,
  held <- current,
  open <- phase # "down",
  broken <- mishaps \cap {"crash", "full"} # {}

\* Sessions are stored, removed and taken up as wholes, and survive an exit
\* or a crash at any moment but the one between a save's truncation of the
\* file and its writing (session_manager.cpp:46, :51).
KeepsStore == Store!Spec

\* Every call comes back and frees the mutex, but for one whose signal, emitted
\* under the mutex, has a slot that calls the manager again: that one waits for
\* itself (session_manager.cpp:54, :80, :92).
CallsReturn == []<>(holder = NoOne \/ step = "stuck")

Unsaved ==
  /\ phase = "up" /\ enabled /\ current # NoSession
  /\ \A f \in Files : files[f] # current

\* A session that is not stored, with nothing in the autosave's way.
Waiting == Unsaved /\ step # "stuck" /\ mishaps \cap {"full", "refused"} = {}

\* With autosave on, the current session comes to be stored, whatever other
\* threads do meanwhile, while files can be opened and written: it waits for
\* ever only if the timer is started anew for ever (session_manager.cpp:133).
AutosaveArrives == <>[]Waiting => []<>fresh /\ []<>~fresh

=============================================================================
