---------------------------- MODULE MCLlmLedger ----------------------------
(* Small instances of LlmLedger for TLC. *)
EXTENDS LlmLedger

CallSymmetry == Permutations(Calls)

\* Parallel calls, a provider that overcharges or refuses, failing appends.
Rough == [threads |-> 2, overruns |-> TRUE, refusals |-> TRUE,
          silences |-> FALSE, emitFaults |-> TRUE]

\* One call at a time, whose usage may be lost on the way.
Gentle == [threads |-> 1, overruns |-> FALSE, refusals |-> FALSE,
           silences |-> TRUE, emitFaults |-> FALSE]

\* One call at a time, and a provider that may refuse.
Refusing == [Gentle EXCEPT !.refusals = TRUE]

RoughOrGentle == {Rough, Gentle}
OnlyRefusing  == {Refusing}
=============================================================================
