----------------------------- MODULE MCServices -----------------------------
(***************************************************************************)
(* Services on a small instance.                                           *)
(***************************************************************************)
EXTENDS Services, TLC

CONSTANTS s1, s2, so, dll, other

MCStreams == {s1, s2}
MCKinds == {"loaded", "load", "unload", "list", "info", "health", "chat", "knowledge", "stats"}
MCFiles == {so, dll, other}
MCBaseName == (so :> "tool") @@ (dll :> "tool") @@ (other :> "skin")

=============================================================================
