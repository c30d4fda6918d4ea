--------------------------- MODULE MCModelManager ---------------------------
(***************************************************************************)
(* ModelManager on a small instance: a model in a directory that may be    *)
(* added, a path in the built-in one, and two creations.                   *)
(***************************************************************************)
EXTENDS ModelManager

CONSTANTS builtIn, added, source, output, j1, j2

MCDirs == {builtIn, added}
MCBuiltIn == {builtIn}
MCPaths == {source, output}
MCDirOf == [p \in MCPaths |-> IF p = source THEN added ELSE builtIn]
\* The model's file may be damaged; the output does not exist yet.
MCAtStart == {[p \in MCPaths |-> IF p = source THEN c ELSE NoFile] : c \in Good \cup {Bad}}
MCJobs == {j1, j2}

=============================================================================
