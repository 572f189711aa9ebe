-------------------------- MODULE MCSemanticStore --------------------------
(* Small instances of SemanticStore for TLC. *)
EXTENDS SemanticStore
=============================================================================
