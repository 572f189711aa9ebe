--------------------------- MODULE MCJobLifecycle ---------------------------
(* Small instances of JobLifecycle for TLC. *)
EXTENDS JobLifecycle, TLC

CONSTANTS s1, s2

\* A run of a session in its own lane.
OwnLane == {[session |-> s1, lane |-> s1]}

\* The same, or a derived session that uses the lane of its source.
SharedLane == OwnLane \cup {[session |-> s2, lane |-> s1]}

JobSymmetry == Permutations(Jobs)
=============================================================================
