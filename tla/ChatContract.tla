---------------------------- MODULE ChatContract ----------------------------
(***************************************************************************)
(* What the chat tab promises to its user, with no threads, no queue and   *)
(* no llama.cpp in sight: questions are answered one at a time, an answer  *)
(* is shown token by token as it is produced, and a question is closed     *)
(* only when everything produced for it has been shown.                    *)
(*                                                                         *)
(* The promise is conditional.  Once `broken' is set nothing is promised   *)
(* any more; ChatEngine says which events of the program set it.           *)
(***************************************************************************)
EXTENDS Naturals

VARIABLES
  turn,        \* the number of questions asked so far
  answering,   \* the last question is still being answered
  produced,    \* tokens the engine has produced for the last question
  shown,       \* tokens of them the user has been shown
  broken       \* the promise no longer binds

contractVars == <<turn, answering, produced, shown, broken>>

Init ==
  /\ turn = 0
  /\ ~answering
  /\ produced = 0
  /\ shown = 0
  /\ ~broken

Ask ==
  /\ ~answering
  /\ turn' = turn + 1
  /\ answering'
  /\ produced' = 0
  /\ shown' = 0
  /\ UNCHANGED broken

Produce ==
  /\ answering
  /\ produced' = produced + 1
  /\ UNCHANGED <<turn, answering, shown, broken>>

Show ==
  /\ answering
  /\ shown < produced
  /\ shown' = shown + 1
  /\ UNCHANGED <<turn, answering, produced, broken>>

Finish ==
  /\ answering
  /\ shown = produced
  /\ ~answering'
  /\ UNCHANGED <<turn, produced, shown, broken>>

\* The step that breaks the promise, and every step after it: only the
\* breach is remembered.
Breach == broken'

Next == Ask \/ Produce \/ Show \/ Finish \/ Breach

Spec == Init /\ [][Next]_contractVars

=============================================================================
