--------------------------- MODULE KnowledgeStore ---------------------------
(***************************************************************************)
(* What RAGSystem promises of the documents it was given: a map from       *)
(* titles to documents that outlives the program, up to the first failure  *)
(* of the disk.  A clean exit keeps all of it, a crash what was saved last.*)
(***************************************************************************)
EXTENDS Naturals

CONSTANTS Titles, Documents, NoDocument

VARIABLES
  known,     \* the document known by each title
  saved,     \* the same, as of the last save
  open,      \* the program runs
  crashes,   \* how often it crashed
  damaged    \* the disk failed, or a crash hit a save: no more promises

vars == <<known, saved, open, crashes, damaged>>

Nothing == [t \in Titles |-> NoDocument]

Init ==
  /\ known = Nothing
  /\ saved = Nothing
  /\ open = FALSE
  /\ crashes = 0
  /\ damaged = FALSE

Learn ==
  /\ open
  /\ \E t \in Titles, d \in Documents : known' = [known EXCEPT ![t] = d]
  /\ UNCHANGED <<saved, open, crashes, damaged>>

Forget ==
  /\ open
  /\ \/ \E t \in Titles : known' = [known EXCEPT ![t] = NoDocument]
     \/ known' = Nothing
  /\ UNCHANGED <<saved, open, crashes, damaged>>

Save ==
  /\ open
  /\ saved' = known
  /\ UNCHANGED <<known, open, crashes, damaged>>

Revert ==
  /\ open
  /\ known' = saved
  /\ UNCHANGED <<saved, open, crashes, damaged>>

Start ==
  /\ ~open
  /\ open' = TRUE
  /\ known' = saved
  /\ UNCHANGED <<saved, crashes, damaged>>

Exit ==
  /\ open
  /\ open' = FALSE
  /\ saved' = known
  /\ UNCHANGED <<known, crashes, damaged>>

Crash ==
  /\ open
  /\ open' = FALSE
  /\ crashes' = crashes + 1
  /\ UNCHANGED <<known, saved, damaged>>

Next ==
  \/ ~damaged /\ (Learn \/ Forget \/ Save \/ Revert \/ Start \/ Exit \/ Crash)
  \/ damaged'

Spec == Init /\ [][Next]_vars

=============================================================================
