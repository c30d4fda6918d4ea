---------------------------- MODULE MCRAGSystem -----------------------------
(***************************************************************************)
(* RAGSystem on a small instance.                                          *)
(***************************************************************************)
EXTENDS RAGSystem

CONSTANTS a, b         \* titles

MCTitles == {a, b}

\* A document without a sentence, and one whose chunks can be interrupted.
MCChunkCounts == {0, 2}

=============================================================================
