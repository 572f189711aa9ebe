----------------------------- MODULE ChatTurns -----------------------------
(***************************************************************************)
(* The chat turns of one session: ChatService with its single in-memory    *)
(* turn slot, the durable admission and delivery of ChatExecution-         *)
(* Repository, the effects of the turn's graph, the transcript file, and   *)
(* the approval of a plan that a turn proposed.                            *)
(*                                                                         *)
(* A step is one transaction, one file append, or one call that leaves the *)
(* process; the process may crash between any two.  Durable: exec, kind,   *)
(* effect, reply, answers, torn, row.  Lost in a crash: the live turn's    *)
(* place and the requests in flight.  All turns propose the same plan, so  *)
(* they share one row of pending_actions.  One model request stands for    *)
(* the guarded effects of a question, the execution of an approved plan    *)
(* for the effects that may be repeated.                                   *)
(***************************************************************************)
EXTENDS PendingActions, FiniteSets

CONSTANTS
    MaxTurns,       \* bound: turns of the session
    Environments    \* what a history may bring: see env

ASSUME ChatAssumption ==
    /\ MaxTurns \in Nat /\ Nobody \notin 1 .. MaxTurns
    /\ Environments \subseteq [questions : Nat, plans : Nat, crashes : Nat,
                               faults : Nat, torn : BOOLEAN]

VARIABLES
    env,            \* bounds of this history: turns that ask, plans proposed,
                    \* crashes, errors; whether a crash may tear a line
    exec,           \* chat_executions.status
    kind,           \* a question, or the execution of an approved plan
    effect, reply,  \* execution_effects: the row's state, the recorded result
    answers,        \* readable assistant lines of a turn in the transcript
    torn,           \* the transcript ends in half a line
    row,            \* the plan's row in pending_actions
    slot, at,       \* the live turn of the session, and where its thread is
    recovering,     \* the live turn is a recovery
    stop, verdict,  \* its cancel_requested, and what it made of it
    token,          \* the generation its approval request carries
    resume,         \* the turn that a resume request has read as resumable
    reject,         \* the reject request: its place and generation
    sent,           \* history: model requests issued by a turn
    minted,         \* history: approvals a turn has asked for
    starts,         \* history: the generation that admitted a turn
    refused,        \* history: generations the transcript calls cancelled
    revived,        \* history: turns whose answer a recovery wrote
    overlap,        \* history: a plan was proposed during a reject
    tore,           \* history: a line was torn
    crashes, faults \* bounds: crashes and errors so far

Turns == 1 .. MaxTurns      \* turn ids

tables   == <<exec, kind, row>>
graph    == <<effect, reply>>
file     == <<answers, torn>>
thread   == <<slot, at, recovering, stop, verdict, token>>
requests == <<resume, reject>>
history  == <<sent, minted, starts, refused, revived, overlap, tore>>
vars     == <<env, tables, graph, file, thread, requests, history, crashes, faults>>

Places == {"idle", "user", "admit", "approve", "begin", "effect", "call",
           "record", "settle", "register", "write", "deliver", "abort",
           "stuck"}
Ended  == {"delivered", "cancelled", "blocked"}
NoGen  == 0
NoReject == [at |-> "idle", gen |-> NoGen]

-----------------------------------------------------------------------------
Init ==
    /\ env \in Environments
    /\ exec = [t \in Turns |-> "none"]
    /\ kind = [t \in Turns |-> "question"]
    /\ effect = [t \in Turns |-> "none"]
    /\ reply = [t \in Turns |-> "none"]
    /\ answers = [t \in Turns |-> 0]
    /\ torn = FALSE
    /\ row = NoRow
    /\ slot = Nobody /\ at = "idle" /\ token = NoGen
    /\ recovering = FALSE /\ stop = FALSE /\ verdict = "completed"
    /\ resume = Nobody /\ reject = NoReject
    /\ sent = [t \in Turns |-> 0]
    /\ minted = [t \in Turns |-> 0]
    /\ starts = [t \in Turns |-> NoGen]
    /\ refused = {} /\ revived = {} /\ overlap = FALSE /\ tore = FALSE
    /\ crashes = 0 /\ faults = 0

\* New ids are unused; which of them is taken makes no difference.
Fresh(t) == exec[t] = "none" /\ \A u \in Turns : u < t => exec[u] # "none"

Fault ==
    /\ faults < env.faults
    /\ faults' = faults + 1

Goto(place) ==
    /\ at' = place
    /\ UNCHANGED <<slot, recovering, stop, verdict, token>>

\* _reserve_session: the check for a live turn and the registration of the
\* new one are one step.
ReserveSlot(t, place, gen, isRecovery) ==
    /\ slot = Nobody
    /\ slot' = t /\ at' = place /\ token' = gen
    /\ recovering' = isRecovery /\ stop' = FALSE /\ verdict' = "completed"

\* Mutant of FreeSlot: the thread ends and its entry is kept.
KeepSlot ==
    /\ at' = "idle"
    /\ UNCHANGED <<slot, token, recovering, stop, verdict>>

\* A terminal event sets session.done, _discard_session drops the entry:
\* either way the session has no live turn.
FreeSlot ==
    /\ slot' = Nobody /\ at' = "idle" /\ token' = NoGen
    /\ recovering' = FALSE /\ stop' = FALSE /\ verdict' = "completed"

-----------------------------------------------------------------------------
(* Admission *)

\* send_message takes the slot, appends the user's line, and admits the turn.
Ask(t) ==
    /\ Fresh(t)
    /\ Cardinality({u \in Turns : u < t /\ kind[u] = "question"}) < env.questions
    /\ ReserveSlot(t, "user", NoGen, FALSE)
    /\ UNCHANGED <<tables, graph, file, requests, history, crashes, faults>>

\* An append after half a line completes that line: both are unreadable.
AppendUser(t) ==
    /\ slot = t /\ at = "user"
    /\ \/ torn' = FALSE /\ Goto("admit") /\ UNCHANGED faults
       \/ Fault /\ FreeSlot /\ UNCHANGED torn
    /\ UNCHANGED <<tables, graph, answers, requests, history, crashes>>

Admit(t) ==
    /\ slot = t /\ at = "admit"
    /\ \/ exec' = [exec EXCEPT ![t] = "queued"] /\ Goto("begin")
          /\ UNCHANGED faults
       \/ Fault /\ FreeSlot /\ UNCHANGED exec
    /\ UNCHANGED <<kind, row, graph, file, requests, history, crashes>>

\* approve_plan, with any token the user was ever shown.
Approve(t, gen) ==
    /\ Fresh(t)
    /\ ReserveSlot(t, "approve", gen, FALSE)
    /\ UNCHANGED <<tables, graph, file, requests, history, crashes, faults>>

\* Mutant of AdmitApproved: the approval is checked, but not consumed in the
\* transaction that admits the turn.
AdmitUnconsumed(t) ==
    /\ slot = t /\ at = "approve" /\ Open(row, token)
    /\ exec' = [exec EXCEPT ![t] = "queued"]
    /\ kind' = [kind EXCEPT ![t] = "approved"]
    /\ starts' = [starts EXCEPT ![t] = token]
    /\ Goto("begin")
    /\ UNCHANGED <<row, graph, file, requests, sent, minted, refused, revived,
                   overlap, tore, crashes, faults>>

\* admit with an approval: one transaction consumes the token and inserts the
\* execution, or neither happens and the slot is given back.
AdmitApproved(t) ==
    /\ slot = t /\ at = "approve"
    /\ IF Open(row, token)
       THEN /\ row' = Consumed(row, t)
            /\ exec' = [exec EXCEPT ![t] = "queued"]
            /\ kind' = [kind EXCEPT ![t] = "approved"]
            /\ starts' = [starts EXCEPT ![t] = token]
            /\ Goto("begin")
       ELSE FreeSlot /\ UNCHANGED <<tables, starts>>
    /\ UNCHANGED <<graph, file, requests, sent, minted, refused, revived,
                   overlap, tore, crashes, faults>>

\* resume_turn reads the record and the turn's graph before it takes the
\* slot.  A guarded effect without a result makes the turn unresumable.
ReadResumable(t) ==
    /\ resume = Nobody
    /\ exec[t] \in {"queued", "running"}
    /\ ~(kind[t] = "question" /\ effect[t] = "pending")
    /\ resume' = t
    /\ UNCHANGED <<tables, graph, file, thread, reject, history, crashes,
                   faults>>

\* Mutant of ResumeTurn: the session does not know that it is a recovery.
ResumeAsNew(t) ==
    /\ resume = t /\ slot = Nobody
    /\ resume' = Nobody
    /\ ReserveSlot(t, "begin", NoGen, FALSE)
    /\ UNCHANGED <<tables, graph, file, reject, history, crashes, faults>>

\* The slot is free, or the request fails with ChatRunBusyError.
ResumeTurn(t) ==
    /\ resume = t
    /\ resume' = Nobody
    /\ IF slot = Nobody THEN ReserveSlot(t, "begin", NoGen, TRUE)
       ELSE UNCHANGED thread
    /\ UNCHANGED <<tables, graph, file, reject, history, crashes, faults>>

-----------------------------------------------------------------------------
(* Execution *)

\* begin, and the turn.started event.
Begin(t) ==
    /\ slot = t /\ at = "begin"
    /\ \/ exec' = [exec EXCEPT ![t] = "running"] /\ Goto("effect")
          /\ UNCHANGED faults
       \/ Fault /\ Goto("abort") /\ UNCHANGED exec
    /\ UNCHANGED <<kind, row, graph, file, requests, history, crashes>>

\* GraphEffectUncertain: the execution is blocked and turn.failed is sent.
BlockTurn(t) == exec' = [exec EXCEPT ![t] = "blocked"] /\ FreeSlot

\* Mutant of EnterEffect: a pending row is taken as a request to try again.
EnterRetrying(t) ==
    /\ slot = t /\ at = "effect"
    /\ IF effect[t] = "done"
       THEN Goto("settle") /\ UNCHANGED <<exec, effect>>
       ELSE effect' = [effect EXCEPT ![t] = "pending"] /\ Goto("call")
            /\ UNCHANGED exec
    /\ UNCHANGED <<kind, row, reply, file, requests, history, crashes, faults>>

\* The first transaction of GraphExecution.effect.
EnterEffect(t) ==
    /\ slot = t /\ at = "effect"
    /\ \/ /\ effect[t] = "done"
          /\ Goto("settle") /\ UNCHANGED <<exec, effect>>
       \/ /\ effect[t] = "pending" /\ kind[t] = "question"
          /\ BlockTurn(t) /\ UNCHANGED effect
       \/ /\ effect[t] = "none" \/ (effect[t] = "pending" /\ kind[t] # "question")
          /\ effect' = [effect EXCEPT ![t] = "pending"]
          /\ Goto("call") /\ UNCHANGED exec
    /\ UNCHANGED <<kind, row, reply, file, requests, history, crashes, faults>>

\* The call itself.  A provider whose outcome is unknown blocks the turn; the
\* execution of a plan that raises only fails it.
CallEffect(t) ==
    /\ slot = t /\ at = "call"
    /\ sent' = IF kind[t] = "question" THEN [sent EXCEPT ![t] = @ + 1] ELSE sent
    /\ \/ Goto("record") /\ UNCHANGED <<exec, faults>>
       \/ Fault /\ kind[t] = "question" /\ BlockTurn(t)
       \/ Fault /\ kind[t] # "question" /\ FreeSlot /\ UNCHANGED exec
    /\ UNCHANGED <<kind, row, graph, file, requests, minted, starts, refused,
                   revived, overlap, tore, crashes>>

\* The second transaction records the result: an answer, or a plan.
RecordEffect(t, result) ==
    /\ slot = t /\ at = "record"
    /\ result = "plan" =>
          /\ kind[t] = "question"
          /\ Cardinality({u \in Turns : reply[u] = "plan"}) < env.plans
    /\ effect' = [effect EXCEPT ![t] = "done"]
    /\ reply' = [reply EXCEPT ![t] = result]
    /\ Goto("settle")
    /\ UNCHANGED <<tables, file, requests, history, crashes, faults>>

\* Any other exception of load_run or run_chat_turn: turn.failed, and the
\* execution stays running, to be resumed.
ExecutionFails(t) ==
    /\ slot = t /\ at \in {"effect", "record", "settle"}
    /\ Fault /\ FreeSlot
    /\ UNCHANGED <<tables, graph, file, requests, history, crashes>>

\* cancel_turn sets the flag of the live turn.
CancelTurn ==
    /\ slot # Nobody /\ ~stop
    /\ at \in {"begin", "effect", "call", "record", "settle"}
    /\ stop' = TRUE
    /\ UNCHANGED <<tables, graph, file, slot, at, recovering, verdict, token,
                   requests, history, crashes, faults>>

\* A checkpoint of the driver observes it: the turn is answered at once, and
\* an effect it had entered stays pending.
Checkpoint(t) ==
    /\ slot = t /\ at \in {"effect", "call"} /\ stop
    /\ Goto("settle")
    /\ UNCHANGED <<tables, graph, file, requests, history, crashes, faults>>

-----------------------------------------------------------------------------
(* Delivery *)

\* The last look at the flag decides what the turn delivers.
Settle(t) ==
    /\ slot = t /\ at = "settle"
    /\ verdict' = IF stop THEN "cancelled" ELSE "completed"
    /\ at' = IF ~stop /\ reply[t] = "plan" THEN "register" ELSE "write"
    /\ UNCHANGED <<slot, recovering, stop, token, tables, graph, file,
                   requests, history, crashes, faults>>

Rearm(t) ==
    /\ row' = Armed(row, t)
    /\ minted' = [minted EXCEPT ![t] = @ + 1]
    /\ overlap' = (overlap \/ reject.at # "idle")

\* Mutant of RegisterPendingPlan: it only reuses a row that is still open.
RegisterUnlessOpen(t) ==
    /\ slot = t /\ at = "register"
    /\ IF row.by = t /\ Open(row, row.gen)
       THEN UNCHANGED <<row, minted, overlap>>
       ELSE Rearm(t)
    /\ Goto("write")
    /\ UNCHANGED <<exec, kind, graph, file, requests, sent, starts, refused,
                   revived, tore, crashes, faults>>

\* _register_pending_plan.  A turn that finds its own row, or recovers and
\* finds another's, arms nothing; whether it then presents the open token or
\* calls the plan decided, it goes on to write its answer.
RegisterPendingPlan(t) ==
    /\ slot = t /\ at = "register"
    /\ IF row.status # "none" /\ (row.by = t \/ recovering)
       THEN UNCHANGED <<row, minted, overlap>>
       ELSE Rearm(t)
    /\ Goto("write")
    /\ UNCHANGED <<exec, kind, graph, file, requests, sent, starts, refused,
                   revived, tore, crashes, faults>>

\* append_chat_line for the answer.  Only a recovery looks for the line of an
\* earlier attempt, and only a recovery cuts off half a line first.
PutAnswer(t) ==
    IF recovering /\ answers[t] > 0 THEN UNCHANGED file
    ELSE /\ torn' = FALSE
         /\ answers' = IF torn /\ ~recovering THEN answers
                       ELSE [answers EXCEPT ![t] = @ + 1]

\* The append may raise before or after the line is in the file.
WriteAnswer(t) ==
    /\ slot = t /\ at = "write"
    /\ \/ /\ PutAnswer(t)
          /\ revived' = IF recovering THEN revived \cup {t} ELSE revived
          /\ Goto("deliver") /\ UNCHANGED faults
       \/ /\ Fault /\ FreeSlot /\ (PutAnswer(t) \/ UNCHANGED file)
          /\ UNCHANGED revived
    /\ UNCHANGED <<tables, graph, requests, sent, minted, starts, refused,
                   overlap, tore, crashes>>

\* append_event with message.completed or plan.pending: the event and the
\* status are one transaction, and the session is done.
Deliver(t) ==
    /\ slot = t /\ at = "deliver"
    /\ \/ /\ exec' = [exec EXCEPT ![t] = IF verdict = "cancelled"
                                         THEN "cancelled" ELSE "delivered"]
          /\ FreeSlot /\ UNCHANGED faults
       \/ Fault /\ Goto("abort") /\ UNCHANGED exec
    /\ UNCHANGED <<kind, row, graph, file, requests, history, crashes>>

\* Mutant of Abort: the guard around the thread only logs.
AbortSilently(t) ==
    /\ slot = t /\ at = "abort"
    /\ Goto("stuck")
    /\ UNCHANGED <<tables, graph, file, requests, history, crashes, faults>>

\* The guard of _spawn sends turn.failed for a turn that is not done.  If that
\* append raises too, the thread is gone and the session stays busy.
Abort(t) ==
    /\ slot = t /\ at = "abort"
    /\ \/ FreeSlot /\ UNCHANGED faults
       \/ Fault /\ Goto("stuck")
    /\ UNCHANGED <<tables, graph, file, requests, history, crashes>>

-----------------------------------------------------------------------------
(* Rejection of a plan, which takes no slot *)

\* reject_plan: the consuming transaction of validate_and_consume.
Reject(gen) ==
    /\ reject.at = "idle" /\ Open(row, gen)
    /\ row' = Consumed(row, Nobody)
    /\ reject' = [at |-> "check", gen |-> gen]
    /\ UNCHANGED <<exec, kind, graph, file, thread, resume, history, crashes,
                   faults>>

\* It reads the row again; a row of another generation is not its own, but is
\* restored like one.
RejectCheck ==
    /\ reject.at = "check"
    /\ IF row.gen = reject.gen
       THEN reject' = [reject EXCEPT !.at = "line"] /\ UNCHANGED row
       ELSE reject' = NoReject /\ row' = Restored(row)
    /\ UNCHANGED <<exec, kind, graph, file, thread, resume, history, crashes,
                   faults>>

\* The refusal goes to the transcript.  A failure restores the approval, or
\* fails to, which is suppressed.
RejectLine ==
    /\ reject.at = "line"
    /\ reject' = NoReject
    /\ \/ /\ torn' = FALSE
          /\ refused' = refused \cup {reject.gen}
          /\ UNCHANGED <<row, faults>>
       \/ /\ Fault
          /\ row' \in {row, Restored(row)}
          /\ UNCHANGED <<torn, refused>>
    /\ UNCHANGED <<exec, kind, graph, answers, thread, resume, sent, minted,
                   starts, revived, overlap, tore, crashes>>

\* The approval's time to live runs out.
Lapse ==
    /\ row.status = "pending" /\ ~row.lapsed
    /\ row' = Expired([row EXCEPT !.lapsed = TRUE])
    /\ UNCHANGED <<exec, kind, graph, file, thread, requests, history, crashes,
                   faults>>

-----------------------------------------------------------------------------
\* The process dies; a line that was being written may be left in half.
Crash ==
    /\ crashes < env.crashes
    /\ crashes' = crashes + 1
    /\ FreeSlot
    /\ resume' = Nobody /\ reject' = NoReject
    /\ IF env.torn /\ (at \in {"user", "write"} \/ reject.at = "line")
       THEN torn' \in {torn, TRUE} ELSE UNCHANGED torn
    /\ tore' = (tore \/ torn')
    /\ UNCHANGED <<tables, graph, answers, sent, minted, starts, refused,
                   revived, overlap, faults>>

TurnStep(t) ==
    \/ AppendUser(t) \/ Admit(t) \/ AdmitApproved(t)
    \/ Begin(t) \/ EnterEffect(t) \/ CallEffect(t)
    \/ \E result \in {"answer", "plan"} : RecordEffect(t, result)
    \/ ExecutionFails(t) \/ Checkpoint(t) \/ Settle(t)
    \/ RegisterPendingPlan(t) \/ WriteAnswer(t) \/ Deliver(t) \/ Abort(t)

Step ==
    \/ \E t \in Turns :
          \/ Ask(t) \/ \E gen \in 1 .. row.gen : Approve(t, gen)
          \/ ReadResumable(t) \/ ResumeTurn(t) \/ TurnStep(t)
    \/ CancelTurn
    \/ \E gen \in 1 .. row.gen : Reject(gen)
    \/ RejectCheck \/ RejectLine \/ Lapse \/ Crash

Next == Step /\ UNCHANGED env

Spec == Init /\ [][Next]_vars

\* A turn's thread runs.  Nothing is asked of the user.
LiveSpec == Spec /\ \A t \in Turns : WF_vars(TurnStep(t) /\ UNCHANGED env)

-----------------------------------------------------------------------------
(* Properties *)

\* Every variable has its type: the one type invariant of the module.
TypeOK ==
    /\ env \in Environments
    /\ exec \in [Turns -> {"none", "queued", "running"} \cup Ended]
    /\ kind \in [Turns -> {"question", "approved"}]
    /\ effect \in [Turns -> {"none", "pending", "done"}]
    /\ reply \in [Turns -> {"none", "answer", "plan"}]
    /\ answers \in [Turns -> Nat] /\ torn \in BOOLEAN
    /\ row \in Rows(Turns, Turns)
    /\ slot \in Turns \cup {Nobody} /\ at \in Places
    /\ at = "idle" <=> slot = Nobody
    /\ {recovering, stop, overlap, tore} \subseteq BOOLEAN
    /\ verdict \in {"completed", "cancelled"}
    /\ token \in Nat /\ starts \in [Turns -> Nat]
    /\ resume \in Turns \cup {Nobody} /\ revived \subseteq Turns
    /\ reject \in [at : {"idle", "check", "line"}, gen : Nat]
    /\ sent \in [Turns -> Nat] /\ minted \in [Turns -> Nat]
    /\ refused \subseteq Nat
    /\ crashes \in Nat /\ faults \in Nat

\* However often a turn is interrupted and resumed, and wherever, the
\* transcript has at most one answer to it, and exactly one when the turn counts
\* as delivered.  (A turn delivered at its first attempt may lose its answer to
\* half a line that a crash left behind: append_chat_line cuts that off only for
\* recoveries.)
AnsweredOnce ==
    \A t \in Turns :
        /\ answers[t] <= 1
        /\ exec[t] \in {"delivered", "cancelled"} /\ (tore => t \in revived)
              => answers[t] = 1

\* A turn asks for approval at most once: no resume re-arms a plan that the
\* user approved, rejected or let expire.
AsksOnce == \A t \in Turns : minted[t] <= 1

\* One approval starts one turn, and a plan that the transcript calls cancelled
\* is never executed, unless a new plan was proposed while a reject of the old
\* one was still in flight: restoring looks at neither generation nor consumer.
ApprovalStartsOnce ==
    ~overlap =>
        \A t \in Turns :
            /\ starts[t] \notin refused
            /\ \A u \in Turns \ {t} : starts[t] = starts[u] => starts[t] = NoGen

\* The graph of a turn issues a model request at most once and never loses a
\* recorded answer, across crashes and resumes: it implements EffectOnce.
Guarded == INSTANCE EffectOnce WITH
    Tasks <- Turns,
    sent  <- sent,
    known <- [t \in Turns |-> kind[t] = "question" /\ effect[t] = "done"]

GuardedEffects == Guarded!Spec

\* A turn does not hold the session's slot for ever, as long as no two errors
\* fall on one turn's last events.
SlotFreed == [](faults <= 1) => (slot # Nobody ~> slot = Nobody)
=============================================================================
