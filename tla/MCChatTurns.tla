---------------------------- MODULE MCChatTurns ----------------------------
(* Small instances of ChatTurns for TLC. *)
EXTENDS ChatTurns

\* Two turns that both propose the plan, and a crash.
Busy  == [questions |-> 2, plans |-> 2, crashes |-> 1, faults |-> 0, torn |-> FALSE]

\* One proposal, and several crashes and errors that may tear a line.
Rough == [questions |-> 1, plans |-> 1, crashes |-> 2, faults |-> 2, torn |-> TRUE]

BusyOrRough == {Busy, Rough}
=============================================================================
