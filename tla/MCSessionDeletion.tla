------------------------- MODULE MCSessionDeletion -------------------------
(* Small instances of SessionDeletion for TLC. *)
EXTENDS SessionDeletion

CONSTANTS r1, r2

\* Two kinds of jobs on the source run r1 that run in a derived session r2: a
\* report, which occupies the lane of r1, and a data operation, which has a
\* lane of its own and names r1 only as its request scope.
ReportAndDataOperation == {[session |-> r2, lane |-> r1, scope |-> r1],
                           [session |-> r2, lane |-> r2, scope |-> r1]}
=============================================================================
