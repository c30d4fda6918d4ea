---------------------------- MODULE BackendClient ---------------------------
(***************************************************************************)
(* BackendClient (src/backend_client.cpp): the Python backend as a child   *)
(* process, and the wait until it answers.  Requests and streams are in    *)
(* BackendReplies.  Everything runs in one thread; startBackend and        *)
(* stopBackend block it, but QProcess reports the child's end from inside  *)
(* waitForFinished, and a slot of that report may start the backend again. *)
(* waitForBackendReady runs an event loop, in which anything may happen,   *)
(* another wait or the deletion of the client included.                    *)
(*                                                                         *)
(* QProcess is taken by its contract: start() on a running process does    *)
(* nothing, and waitForStarted() then returns true.                        *)
(***************************************************************************)
EXTENDS Naturals

CONSTANTS
  MaxChecks,  \* timeoutMs / checkInterval
  MaxWaits,   \* bound: waits for the backend, one inside another
  MaxStarts   \* bound: starts of a child

ConstantsAssumption == MaxChecks \in Nat /\ MaxWaits \in Nat /\ MaxStarts \in Nat

VARIABLES
  child,      \* "none", "starting", "running", "dead" (QProcess does not know yet)
  flag,       \* m_backendRunning
  call,       \* "idle", or inside startBackend, stopBackend
  checks,     \* health checks each call of waitForBackendReady has left; 0: none
  phase,      \* "alive", "dying" (in the destructor), "gone"
  starts,     \* children started
  told,       \* history: the last of backendStarted and backendStopped
  mishaps     \* history: what separated the flag from the child

processVars == <<child, flag, call, phase, starts, told, mishaps>>
vars == <<processVars, checks>>

Waits == 1 .. MaxWaits

Mishaps == {"late",             \* a child started after startBackend gave up
            "unkilled",         \* a child outlived stopBackend
            "restarted",        \* a slot of backendStopped started one in a stop
            "restarted early"}  \* a slot of backendError did, before backendStopped

TypeOK ==
  /\ child \in {"none", "starting", "running", "dead"} /\ flag \in BOOLEAN
  /\ call \in {"idle", "start", "terminate", "kill", "ended"}
  /\ checks \in [Waits -> 0 .. MaxChecks] /\ phase \in {"alive", "dying", "gone"}
  /\ starts \in 0 .. MaxStarts /\ told \in {"none", "started", "stopped"}
  /\ mishaps \subseteq Mishaps
  /\ flag => child \in {"running", "dead"}

Init ==
  /\ child = "none" /\ flag = FALSE /\ call = "idle" /\ phase = "alive"
  /\ starts = 0 /\ told = "none" /\ mishaps = {}
  /\ checks = [w \in Waits |-> 0]

\* The event loop runs.
Loop == call = "idle" /\ phase = "alive"

-----------------------------------------------------------------------------
(***************************************************************************)
(* startBackend.                                                           *)
(***************************************************************************)

\* start() does nothing if the child of an earlier call runs or starts.
startBackend ==
  /\ Loop /\ ~flag
  /\ \/ child = "none" /\ starts < MaxStarts
        /\ child' = "starting" /\ starts' = starts + 1
     \/ child # "none" /\ UNCHANGED <<child, starts>>
  /\ call' = "start"
  /\ UNCHANGED <<flag, phase, told, mishaps, checks>>

\* The child starts, now or after the call has given up.
childStarts ==
  /\ child = "starting" /\ phase # "gone"
  /\ child' = "running"
  /\ mishaps' = IF call = "start" THEN mishaps ELSE mishaps \cup {"late"}
  /\ UNCHANGED <<flag, call, phase, starts, told, checks>>

childStartFails ==
  /\ child = "starting" /\ phase # "gone"
  /\ child' = "none"
  /\ UNCHANGED <<flag, call, phase, starts, told, mishaps, checks>>

started ==
  /\ call = "start" /\ child \in {"running", "dead"}
  /\ call' = "idle" /\ flag' = TRUE /\ told' = "started"
  /\ UNCHANGED <<child, phase, starts, mishaps, checks>>

\* The child failed to start, or waitForStarted's five seconds are over.
startFails ==
  /\ call = "start" /\ child \in {"none", "starting"}
  /\ call' = "idle"
  /\ UNCHANGED <<child, flag, phase, starts, told, mishaps, checks>>

-----------------------------------------------------------------------------
(***************************************************************************)
(* The child's end, and stopBackend.                                       *)
(***************************************************************************)

\* QProcess learns of the child's end in the event loop and in stopBackend's waits.
Reaping == Loop \/ call \in {"terminate", "kill"}

childDies ==
  /\ child = "running" /\ phase # "gone"
  /\ child' = "dead"
  /\ UNCHANGED <<flag, call, phase, starts, told, mishaps, checks>>

\* A slot of backendStopped, or of the backendError before it, starts again.
Restart ==
  /\ starts < MaxStarts
  /\ starts' = starts + 1 /\ child' = "running" /\ flag' = TRUE
  /\ \/ told' = "started"
        /\ mishaps' = IF call = "idle" THEN mishaps ELSE mishaps \cup {"restarted"}
     \/ told' = "stopped" /\ mishaps' = mishaps \cup {"restarted early"}

\* ... but gives up before the child has started.
RestartLate ==
  /\ starts < MaxStarts
  /\ starts' = starts + 1
  /\ child' = "starting" /\ flag' = FALSE /\ told' = "stopped"
  /\ UNCHANGED mishaps

\* Defect: the flag stays.
onBackendFinishedKeepingFlag ==
  /\ child = "dead" /\ Reaping
  /\ call' = IF call = "idle" THEN "idle" ELSE "ended"
  /\ child' = "none" /\ told' = "stopped"
  /\ UNCHANGED <<flag, starts, mishaps, phase, checks>>

onBackendFinished ==
  /\ child = "dead" /\ Reaping
  /\ call' = IF call = "idle" THEN "idle" ELSE "ended"
  /\ \/ child' = "none" /\ flag' = FALSE /\ told' = "stopped"
        /\ UNCHANGED <<starts, mishaps>>
     \/ Restart \/ RestartLate
  /\ UNCHANGED <<phase, checks>>

\* terminate(), and waitForFinished(3000).
stopBackend ==
  /\ call = "idle" /\ phase # "gone" /\ flag
  /\ call' = "terminate"
  /\ UNCHANGED <<child, flag, phase, starts, told, mishaps, checks>>

\* The wait is over: kill(), and waitForFinished(1000).
stopKills ==
  /\ call = "terminate"
  /\ call' = "kill"
  /\ UNCHANGED <<child, flag, phase, starts, told, mishaps, checks>>

\* Defect: the flag is left to onBackendFinished.
stopEndsKeepingFlag ==
  /\ call \in {"kill", "ended"}
  /\ call' = "idle" /\ told' = "stopped"
  /\ mishaps' = IF call = "kill" THEN mishaps \cup {"unkilled"} ELSE mishaps
  /\ UNCHANGED <<child, flag, phase, starts, checks>>

\* The child has ended, or the second wait is over as well.
stopEnds ==
  /\ call \in {"kill", "ended"}
  /\ call' = "idle" /\ flag' = FALSE /\ told' = "stopped"
  /\ mishaps' = IF call = "kill" THEN mishaps \cup {"unkilled"} ELSE mishaps
  /\ UNCHANGED <<child, phase, starts, checks>>

\* The destructor stops the backend; QProcess's own kills what is left.  (What a
\* wait in whose event loop that happens does next is undefined.)
destroy ==
  /\ Loop
  /\ phase' = "dying"
  /\ UNCHANGED <<child, flag, call, starts, told, mishaps, checks>>

destroyed ==
  /\ phase = "dying" /\ call = "idle" /\ ~flag
  /\ phase' = "gone" /\ child' = "none"
  /\ UNCHANGED <<flag, call, starts, told, mishaps, checks>>

-----------------------------------------------------------------------------
(***************************************************************************)
(* waitForBackendReady.                                                    *)
(***************************************************************************)
\* The call that waits inside the others.
Innermost(w) == checks[w] > 0 /\ \A v \in Waits : v > w => checks[v] = 0

waitForBackendReady(w) ==
  /\ Loop /\ \A v \in Waits : checks[v] > 0 <=> v < w
  /\ checks' = [checks EXCEPT ![w] = MaxChecks]
  /\ UNCHANGED processVars

\* Whatever serves at that address has answered, or nothing has after a second:
\* that is no error, either.
checkSucceeds(w) ==
  /\ Loop /\ Innermost(w)
  /\ checks' = [checks EXCEPT ![w] = 0]
  /\ UNCHANGED processVars

\* Defect: a wait whose time is over begins again.
checkFailsAnew(w) ==
  /\ Loop /\ Innermost(w)
  /\ checks' = [checks EXCEPT ![w] = IF @ = 1 THEN MaxChecks ELSE @ - 1]
  /\ UNCHANGED processVars

checkFails(w) ==
  /\ Loop /\ Innermost(w)
  /\ checks' = [checks EXCEPT ![w] = @ - 1]
  /\ UNCHANGED processVars

-----------------------------------------------------------------------------
Child == childStarts \/ childStartFails \/ childDies
Starting == started \/ startFails
Stopping == stopKills \/ stopEnds \/ onBackendFinished
Checking(w) == checkSucceeds(w) \/ checkFails(w)

Next ==
  \/ Child \/ Starting \/ Stopping
  \/ startBackend \/ stopBackend \/ destroy \/ destroyed
  \/ \E w \in Waits : waitForBackendReady(w) \/ Checking(w)

Spec == Init /\ [][Next]_vars

\* Waits end, the event loop delivers, and the destructor runs to its end.  A
\* check whose second is over ends when the waits inside it have, and before the
\* event loop it is in turns to more events.
Fairness ==
  /\ WF_vars(Starting)
  /\ WF_vars(stopKills \/ stopEnds)
  /\ SF_vars(onBackendFinished)
  /\ \A w \in Waits : SF_vars(Checking(w))
  /\ WF_vars(phase = "dying" /\ (stopBackend \/ destroyed))

-----------------------------------------------------------------------------
(***************************************************************************)
(* Properties.                                                             *)
(***************************************************************************)

\* Between calls, the flag says what the signals said: what listeners were
\* told last is what startBackend and stopBackend go by.  The exception is a
\* slot of backendError that starts a new child, after which backendStopped
\* still reports the old one (backend_client.cpp:444, :449).
FlagIsTold ==
  call = "idle" /\ "restarted early" \notin mishaps => (flag <=> told = "started")

\* A child runs unknown to the client, so that stopBackend refuses to stop it,
\* only if it started late, outlived a stop, or was started by a slot within a
\* stop, whose end then clears the flag (backend_client.cpp:153).
NoStrayChild ==
  call = "idle" /\ child = "running" /\ ~flag =>
    mishaps \cap {"late", "unkilled", "restarted", "restarted early"} # {}

\* The child's death is noticed, with any calls made meanwhile.
DeathIsNoticed == child = "dead" ~> child # "dead"

\* startBackend and stopBackend return.
CallsReturn == []<>(call = "idle")

\* waitForBackendReady returns, by an answer or when it has counted its checks,
\* also one in whose checks others wait.
WaitReturns == \A w \in Waits : []<>(checks[w] = 0 \/ phase = "gone")

=============================================================================
