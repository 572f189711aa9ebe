----------------------------- MODULE EffectOnce -----------------------------
(***************************************************************************)
(* What a guarded effect promises: a request that may not be repeated      *)
(* leaves the process at most once, and an answer that was recorded is     *)
(* never lost or replaced.  Whether the answer is ever learnt is open.     *)
(***************************************************************************)
EXTENDS Naturals

CONSTANTS Tasks

VARIABLES
    sent,       \* how often the request of a task was issued
    known       \* whether its answer is recorded

Init == sent = [t \in Tasks |-> 0] /\ known = [t \in Tasks |-> FALSE]

Send(t) ==
    /\ sent[t] = 0
    /\ sent' = [sent EXCEPT ![t] = 1]
    /\ UNCHANGED known

Learn(t) ==
    /\ sent[t] = 1 /\ ~known[t]
    /\ known' = [known EXCEPT ![t] = TRUE]
    /\ UNCHANGED sent

Next == \E t \in Tasks : Send(t) \/ Learn(t)

Spec == Init /\ [][Next]_<<sent, known>>
=============================================================================
