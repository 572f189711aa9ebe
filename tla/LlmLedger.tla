----------------------------- MODULE LlmLedger -----------------------------
(***************************************************************************)
(* The hard budget of a session's model calls: SessionBudgetState reserves *)
(* the worst case before a call and settles the actual usage after it;     *)
(* LedgerLLMClient writes a durable event on either side of the call;      *)
(* restore_run_budget_state replays those events after a restart.          *)
(*                                                                         *)
(* Every call is a thread.  A step is what one lock acquisition or one     *)
(* durable append does, so calls interleave between them, and the process  *)
(* may crash there.  The five budget dimensions obey one formula and       *)
(* are modelled by one.  Durable: log, terminal (with size and prot, which *)
(* the events carry).  Lost in a crash: book, bill, used, and the threads. *)
(***************************************************************************)
EXTENDS Integers, Sequences, FiniteSets, FiniteSetsExt, SequencesExt

CONSTANTS
    Calls,          \* physical call ids
    Amounts,        \* sizes of reservations and of actual usage
    Limit,            \* the policy's limit
    Protected,      \* the part of it kept for finalization
    MaxCrashes,     \* bound: process crashes
    Environments    \* what may go wrong around the ledger, see env

ASSUME LedgerAssumption ==
    /\ IsFiniteSet(Calls)
    /\ Amounts \subseteq Nat \ {0}
    /\ Limit \in Nat /\ Protected \in 0..Limit
    /\ MaxCrashes \in Nat
    /\ Environments \subseteq [threads : Nat \ {0}, overruns : BOOLEAN,
                                refusals : BOOLEAN, silences : BOOLEAN,
                                emitFaults : BOOLEAN]

VARIABLES
    env,            \* chosen once: how many calls are in flight at once, and
                    \* whether a provider may bill more than was reserved,
                    \* refuse to serve (503) or report no usage, and whether
                    \* appending an event may raise
    proc,           \* the process: up, down, or its restore refused
    pc,             \* where the thread of each call is
    size, prot,     \* the reservation: its size, and whether it is protected
    book,           \* _active and _completed
    bill,           \* what a completed call consumed
    used,           \* the running counter of consumption
    log,            \* budget_reserved events, in order
    terminal,       \* budget_settled events
    answer,         \* what the provider told the thread
    spent,          \* what the provider charged (unknown to the code)
    crashes         \* bound: crashes so far

memory  == <<book, bill, used>>
events  == <<log, terminal>>
vars    == <<env, proc, pc, size, prot, memory, events, answer, spent, crashes>>

InFlight == {"probing", "held", "calling", "charged", "returned", "settled",
             "recorded"}
Places   == InFlight \cup {"idle", "done", "failed", "lost"}
Books    == {"none", "active", "settled", "uncertain", "released"}
Answers  == {"none", "usage", "silence", "refusal"}
NoEvent  == [status |-> "none", amount |-> 0]

-----------------------------------------------------------------------------
(* Sums over calls *)

Total(f, S) == MapThenSumSet(LAMBDA c : f[c], S)

Active       == {c \in Calls : book[c] = "active"}
ProtectedSet == {c \in Calls : prot[c]}

Held            == Total(size, Active)
OrdinaryHeld    == Total(size, Active \ ProtectedSet)
ProtectedBilled == Total(bill, ProtectedSet)
OrdinaryUsed    == used - ProtectedBilled

-----------------------------------------------------------------------------
Init ==
    /\ env \in Environments
    /\ proc = "up"
    /\ pc = [c \in Calls |-> "idle"]
    /\ size = [c \in Calls |-> 0]
    /\ prot = [c \in Calls |-> FALSE]
    /\ book = [c \in Calls |-> "none"]
    /\ bill = [c \in Calls |-> 0]
    /\ used = 0
    /\ log = <<>>
    /\ terminal = [c \in Calls |-> NoEvent]
    /\ answer = [c \in Calls |-> "none"]
    /\ spent = [c \in Calls |-> 0]
    /\ crashes = 0

Goto(c, place) == pc' = [pc EXCEPT ![c] = place]

\* Mutant of Admits: ordinary calls may use the protected part.
AdmitsEverything(n, p) == used + Held + n <= Limit

\* _enforce on the projected values of a reservation.
Admits(n, p) ==
    /\ used + Held + n <= Limit
    /\ p \/ OrdinaryUsed + OrdinaryHeld + n <= Limit - Protected

\* reserve: the check and the entry in _active are one locked step; the call
\* goes on to place.
Reserve(c, n, p, place) ==
    /\ proc = "up" /\ pc[c] = "idle"
    /\ Cardinality({k \in Calls : pc[k] \in InFlight}) < env.threads
    /\ Admits(n, p)
    /\ size' = [size EXCEPT ![c] = n]
    /\ prot' = [prot EXCEPT ![c] = p]
    /\ book' = [book EXCEPT ![c] = "active"]
    /\ Goto(c, place)
    /\ UNCHANGED <<env, proc, bill, used, events, answer, spent, crashes>>

\* _reserve, up to the append of its event.
ReserveCall(c, n, p) == Reserve(c, n, p, "held")

\* _preflight reserves and releases in two locked steps: while it probes,
\* its capacity is missing to everybody else.
PreflightReserve(c, n, p) == Reserve(c, n, p, "probing")

PreflightRelease(c) ==
    /\ pc[c] = "probing"
    /\ book' = [book EXCEPT ![c] = "released"]
    /\ Goto(c, "done")
    /\ UNCHANGED <<env, proc, size, prot, bill, used, events, answer, spent,
                   crashes>>

\* A reservation without capacity: nothing changes but the caller's fate.
Reject(c, n, p) ==
    /\ proc = "up" /\ pc[c] = "idle"
    /\ ~Admits(n, p)
    /\ Goto(c, "done")
    /\ UNCHANGED <<env, proc, size, prot, memory, events, answer, spent, crashes>>

\* Mutant of EmitReserved: the append is best effort.
EmitReservedSafely(c) ==
    /\ pc[c] = "held"
    /\ \/ log' = Append(log, c)
       \/ env.emitFaults /\ UNCHANGED log
    /\ Goto(c, "calling")
    /\ UNCHANGED <<env, proc, size, prot, book, bill, used, terminal, answer,
                   spent, crashes>>

\* The budget_reserved event is appended before the provider is called.  An
\* append that raises, durable or not, releases the reservation.
EmitReserved(c) ==
    /\ pc[c] = "held"
    /\ \/ /\ log' = Append(log, c)
          /\ Goto(c, "calling")
          /\ UNCHANGED book
       \/ /\ env.emitFaults
          /\ log' \in {log, Append(log, c)}
          /\ book' = [book EXCEPT ![c] = "released"]
          /\ Goto(c, "failed")
    /\ UNCHANGED <<env, proc, size, prot, bill, used, terminal, answer, spent,
                   crashes>>

-----------------------------------------------------------------------------
(* The provider *)

\* The provider serves the request and charges n.
Charge(c, n) ==
    /\ pc[c] = "calling"
    /\ env.overruns \/ n <= size[c]
    /\ spent' = [spent EXCEPT ![c] = n]
    /\ Goto(c, "charged")
    /\ UNCHANGED <<env, proc, size, prot, memory, events, answer, crashes>>

\* The answer arrives with its usage, or without (a lost connection, an
\* adapter that reports none), or the provider states that it did not serve.
Answer(c) ==
    /\ \/ /\ pc[c] = "charged"
          /\ answer' = [answer EXCEPT ![c] = "usage"]
       \/ /\ env.silences /\ pc[c] \in {"calling", "charged"}
          /\ answer' = [answer EXCEPT ![c] = "silence"]
       \/ /\ env.refusals /\ pc[c] = "calling"
          /\ answer' = [answer EXCEPT ![c] = "refusal"]
    /\ Goto(c, "returned")
    /\ UNCHANGED <<env, proc, size, prot, memory, events, spent, crashes>>

-----------------------------------------------------------------------------
(* Settlement *)

\* _consume, and the move from _active to _completed.
Consume(c, status, amount) ==
    /\ book' = [book EXCEPT ![c] = status]
    /\ bill' = [bill EXCEPT ![c] = amount]
    /\ used' = used + amount

\* Mutant of Settle: a refused call hands back what it never consumed.
SettleRefunds(c) ==
    /\ pc[c] = "returned"
    /\ \/ /\ answer[c] = "refusal"
          /\ book' = [book EXCEPT ![c] = "released"]
          /\ used' = used - size[c]
          /\ UNCHANGED bill
       \/ answer[c] = "silence" /\ Consume(c, "uncertain", size[c])
       \/ answer[c] = "usage" /\ Consume(c, "settled", spent[c])
    /\ Goto(c, "settled")
    /\ UNCHANGED <<env, proc, size, prot, events, answer, spent, crashes>>

\* _settle: release a refused call, bill a silent one in full, else the
\* actual usage.  Exceeding a limit raises only after the books are updated.
Settle(c) ==
    /\ pc[c] = "returned"
    /\ \/ /\ answer[c] = "refusal"
          /\ book' = [book EXCEPT ![c] = "released"]
          /\ UNCHANGED <<bill, used>>
       \/ answer[c] = "silence" /\ Consume(c, "uncertain", size[c])
       \/ answer[c] = "usage" /\ Consume(c, "settled", spent[c])
    /\ Goto(c, "settled")
    /\ UNCHANGED <<env, proc, size, prot, events, answer, spent, crashes>>

\* The llm_usage event; if its append raises, no budget_settled follows.
Record(c) ==
    /\ pc[c] = "settled"
    /\ \/ Goto(c, "recorded")
       \/ env.emitFaults /\ Goto(c, "failed")
    /\ UNCHANGED <<env, proc, size, prot, memory, events, answer, spent, crashes>>

\* Mutant of RecordBudgetTerminal: the event says nothing of usage_known.
RecordTerminalUnknown(c) ==
    /\ pc[c] = "recorded"
    /\ terminal' = IF book[c] = "released" THEN terminal
                   ELSE [terminal EXCEPT ![c] = [status |-> "uncertain",
                                                 amount |-> bill[c]]]
    /\ Goto(c, "done")
    /\ UNCHANGED <<env, proc, size, prot, memory, log, answer, spent, crashes>>

\* _record_budget_terminal: budget_settled, but none for a released call.
RecordBudgetTerminal(c) ==
    /\ pc[c] = "recorded"
    /\ \/ /\ terminal' = IF book[c] = "released" THEN terminal
                         ELSE [terminal EXCEPT ![c] = [status |-> book[c],
                                                       amount |-> bill[c]]]
          /\ Goto(c, "done")
       \/ /\ env.emitFaults /\ book[c] # "released"
          /\ UNCHANGED terminal
          /\ Goto(c, "failed")
    /\ UNCHANGED <<env, proc, size, prot, memory, log, answer, spent, crashes>>

-----------------------------------------------------------------------------
(* Crash and restore *)

\* Everything in memory is lost.
Crash ==
    /\ proc = "up" /\ crashes < MaxCrashes
    /\ proc' = "down"
    /\ crashes' = crashes + 1
    /\ pc' = [c \in Calls |-> IF pc[c] \in InFlight THEN "lost" ELSE pc[c]]
    /\ book' = [c \in Calls |-> "none"]
    /\ bill' = [c \in Calls |-> 0]
    /\ used' = 0
    /\ UNCHANGED <<env, size, prot, events, answer, spent>>

\* What the replay bills for a call: the known usage of its terminal event,
\* else its whole reservation.
RestoredBill(c) ==
    IF terminal[c].status = "settled" THEN terminal[c].amount ELSE size[c]

\* One turn of the replay loop: reserve, then settle or mark_uncertain.
\* Either check may raise; a settlement's comes after its consumption.
ReplayCall(acc, c) ==
    LET amount   == RestoredBill(c)
        after    == acc.used + amount
        afterOrd == IF prot[c] THEN acc.ordinary ELSE acc.ordinary + amount
    IN  [used     |-> after,
         ordinary |-> afterOrd,
         ok |-> /\ acc.ok
                /\ acc.used + size[c] <= Limit
                /\ prot[c] \/ acc.ordinary + size[c] <= Limit - Protected
                /\ terminal[c].status = "settled" =>
                      after <= Limit /\ afterOrd <= Limit - Protected]

Replay == FoldLeft(ReplayCall, [used |-> 0, ordinary |-> 0, ok |-> TRUE], log)

Logged == Range(log)

\* Mutant of Restore: a call without a terminal event is not billed.
RestoreSettledOnly ==
    /\ proc = "down"
    /\ proc' = IF Replay.ok THEN "up" ELSE "refused"
    /\ bill' = [c \in Calls |-> terminal[c].amount]
    /\ used' = MapThenSumSet(LAMBDA c : terminal[c].amount, Calls)
    /\ book' = [c \in Calls |-> IF c \in Logged THEN "settled" ELSE "none"]
    /\ UNCHANGED <<env, pc, size, prot, events, answer, spent, crashes>>

\* restore_run_budget_state.  When it raises, the session cannot go on.
Restore ==
    /\ proc = "down"
    /\ proc' = IF Replay.ok THEN "up" ELSE "refused"
    /\ used' = Replay.used
    /\ bill' = [c \in Calls |-> IF c \in Logged THEN RestoredBill(c) ELSE 0]
    /\ book' = [c \in Calls |->
                   IF c \notin Logged THEN "none"
                   ELSE IF terminal[c].status = "settled" THEN "settled"
                                                          ELSE "uncertain"]
    /\ UNCHANGED <<env, pc, size, prot, events, answer, spent, crashes>>

-----------------------------------------------------------------------------
CallStep(c) ==
    \/ \E n \in Amounts, p \in BOOLEAN :
          ReserveCall(c, n, p) \/ PreflightReserve(c, n, p) \/ Reject(c, n, p)
    \/ PreflightRelease(c) \/ EmitReserved(c)
    \/ \E n \in Amounts : Charge(c, n)
    \/ Answer(c) \/ Settle(c) \/ Record(c) \/ RecordBudgetTerminal(c)

Next == (\E c \in Calls : CallStep(c)) \/ Crash \/ Restore

Spec == Init /\ [][Next]_vars

-----------------------------------------------------------------------------
(* Properties *)

\* The one type invariant; used never goes below zero.
TypeOK ==
    /\ env \in Environments
    /\ proc \in {"up", "down", "refused"}
    /\ pc \in [Calls -> Places]
    /\ size \in [Calls -> Nat] /\ prot \in [Calls -> BOOLEAN]
    /\ book \in [Calls -> Books] /\ bill \in [Calls -> Nat]
    /\ used \in Nat
    /\ log \in Seq(Calls)
    /\ terminal \in [Calls -> [status : {"none", "settled", "uncertain"},
                               amount : Nat]]
    /\ answer \in [Calls -> Answers]
    /\ spent \in [Calls -> Nat]
    /\ crashes \in Nat

\* By how much each call was charged above its reservation, and those of S.
Excess     == [c \in Calls |-> IF spent[c] > size[c] THEN spent[c] - size[c] ELSE 0]
Overrun(S) == Total(Excess, S)

\* The session never spends more than its limit, whatever calls run at once
\* and however often the process restarts; only a provider that charges
\* above a reservation can exceed it, and only by that much.
SpendBounded == Total(spent, Calls) <= Limit + Overrun(Calls)

\* At every moment a restart would bill at least what was charged: no call
\* reaches the provider without a durable reservation behind it.
RestartCovers == Total(spent, Calls) <= Replay.used + Overrun(Calls)

\* Ordinary calls never lock out finalization: a protected reservation that
\* fits in what is left of the protected part is admitted, whatever else is
\* in flight.
FinalizationAdmitted ==
    proc = "up" =>
        \A n \in Amounts :
            LET mine == Total(size, Active \cap ProtectedSet) + ProtectedBilled
            IN  n + mine + Overrun(Calls \ ProtectedSet) <= Protected
                    => Admits(n, TRUE)

\* A session that stayed within its limits can be resumed: the replay admits
\* every call the live run admitted, if it made one call at a time, every
\* append succeeded, and the provider served each call within its reservation.
ResumeAccepted ==
    /\ env.threads = 1 /\ ~env.overruns /\ ~env.refusals /\ ~env.emitFaults
    => proc # "refused"

\* Stated in test_provider_unavailable_recovery.py:149: an unserved call must
\* not eat the cap.  A call that the provider refused, and whose thread has
\* recorded that, is billed nothing.
UnservedNotBilled ==
    proc = "up" => \A c \in Calls :
        answer[c] = "refusal" /\ pc[c] = "done" => bill[c] = 0
=============================================================================
