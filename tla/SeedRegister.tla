---------------------------- MODULE SeedRegister ----------------------------
(***************************************************************************)
(* What the store of a project's semantic seeds promises its writers: one  *)
(* versioned register.  A request is applied at most once, all of it in    *)
(* one step, and on top of everything that was committed before.           *)
(***************************************************************************)
EXTENDS Naturals

CONSTANTS
    Requests,       \* what a request key can be
    Adds(_)         \* what a request adds to the seeds

VARIABLES
    version,        \* number of generations committed
    seeds,          \* the contents of the current one
    applied         \* requests that were committed

Init == version = 0 /\ seeds = {} /\ applied = {}

Commit(r) ==
    /\ r \notin applied
    /\ version' = version + 1
    /\ seeds' = seeds \cup {Adds(r)}
    /\ applied' = applied \cup {r}

Next == \E r \in Requests : Commit(r)

Spec == Init /\ [][Next]_<<version, seeds, applied>>
=============================================================================
