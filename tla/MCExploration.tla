--------------------------- MODULE MCExploration ---------------------------
(* A small instance of Exploration for TLC. *)
EXTENDS Exploration
=============================================================================
