-------------------------- MODULE MCFineTuneEngine --------------------------
(***************************************************************************)
(* FineTuneEngine on small instances.                                      *)
(***************************************************************************)
EXTENDS FineTuneEngine

CONSTANTS a, b         \* output files

MCPaths == {a, b}

MCFewEpochs == {1}

=============================================================================
