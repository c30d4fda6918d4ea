-------------------------- MODULE MCSessionManager --------------------------
(***************************************************************************)
(* SessionManager on a small instance: one name and two threads.           *)
(***************************************************************************)
EXTENDS SessionManager

CONSTANTS n1, gui, worker

MCNames == {n1}
MCThreads == {gui, worker}

=============================================================================
