---------------------------- MODULE SessionStore ----------------------------
(***************************************************************************)
(* What SessionManager promises of sessions: a map from names to sessions  *)
(* that changes by whole sessions only and outlives the program, and one   *)
(* session held in memory that does not.  The promise ends with the first  *)
(* failure of the disk, or crash in the middle of a save.                  *)
(***************************************************************************)
CONSTANTS Files, Sessions, NoSession

VARIABLES
  store,   \* the session stored under each name
  held,    \* the current session
  open,    \* the program runs
  broken   \* no more promises

vars == <<store, held, open, broken>>

Init ==
  /\ store = [f \in Files |-> NoSession]
  /\ held = NoSession
  /\ open = TRUE
  /\ broken = FALSE

Put ==
  /\ open
  /\ \E f \in Files, s \in Sessions : store' = [store EXCEPT ![f] = s]
  /\ UNCHANGED <<held, open, broken>>

Drop ==
  /\ open
  /\ \E f \in Files : store' = [store EXCEPT ![f] = NoSession]
  /\ UNCHANGED <<held, open, broken>>

Take ==
  /\ open
  /\ \E f \in Files : store[f] # NoSession /\ held' = store[f]
  /\ UNCHANGED <<store, open, broken>>

Hold ==
  /\ open
  /\ held' \in Sessions
  /\ UNCHANGED <<store, open, broken>>

Close ==
  /\ open
  /\ open' = FALSE
  /\ held' = NoSession
  /\ UNCHANGED <<store, broken>>

Open ==
  /\ ~open
  /\ open' = TRUE
  /\ UNCHANGED <<store, held, broken>>

Next ==
  \/ ~broken /\ (Put \/ Drop \/ Take \/ Hold \/ Close \/ Open)
  \/ broken'

Spec == Init /\ [][Next]_vars

=============================================================================
