-------------------------- MODULE ChatTurnsProofs --------------------------
(***************************************************************************)
(* Proofs about ChatTurns, for every number of turns and for every set of  *)
(* environments, whatever crashes and errors they bring.                   *)
(***************************************************************************)
EXTENDS ChatTurns, TLAPS

-----------------------------------------------------------------------------
(* The inductive invariant, turn by turn *)

\* The places of a turn that is not admitted yet; of one that has not passed
\* its registration; of one that has not passed its answer.
Entering     == {"user", "admit", "approve"}
Unregistered == Entering \cup {"begin", "effect", "call", "record", "settle",
                               "register"}
Unanswered   == Unregistered \cup {"write"}

\* A turn leaves traces, and can be read as resumable, only once admitted.
Admitted(t) ==
    /\ exec[t] = "none" =>
          /\ effect[t] = "none" /\ sent[t] = 0 /\ minted[t] = 0
          /\ answers[t] = 0 /\ t \notin revived
    /\ slot = t => (at \in Entering <=> exec[t] = "none")
    /\ resume = t => exec[t] # "none"

\* How the effect row, the request and the place of the thread agree.
EffectAgrees(t) ==
    /\ sent[t] \in {0, 1}
    /\ kind[t] # "question" => sent[t] = 0
    /\ kind[t] = "question" =>
          /\ effect[t] = "none" => sent[t] = 0
          /\ effect[t] = "done" => sent[t] = 1
          /\ slot = t /\ at \in {"call", "record"} => effect[t] = "pending"
          /\ slot = t /\ at = "call" => sent[t] = 0
          /\ slot = t /\ at = "record" => sent[t] = 1

\* A first attempt has asked for nothing; a plan once proposed has a row.
AskedOnce(t) ==
    /\ minted[t] <= 1
    /\ minted[t] > 0 => row.status # "none"
    /\ slot = t /\ ~recovering /\ at \in Unregistered => minted[t] = 0

\* A first attempt has answered nothing.  A turn that is delivered, or about to
\* be, has its answer, unless half a line has swallowed it.
Answered(t) ==
    /\ answers[t] <= 1
    /\ slot = t /\ ~recovering /\ at \in Unanswered => answers[t] = 0
    /\ t \in revived => answers[t] = 1
    /\ /\ exec[t] \in {"delivered", "cancelled"} \/ (slot = t /\ at = "deliver")
       /\ tore => t \in revived
       => answers[t] = 1

TornKnown == torn => tore

\* An open approval, and one that a reject may still restore, has started
\* nothing and is not called cancelled.
Unused(gen) == gen \notin refused /\ \A t \in Turns : starts[t] # gen

Approvals ==
    /\ \A t \in Turns : starts[t] <= row.gen
    /\ \A gen \in refused : gen \in 1 .. row.gen
    /\ row.status = "pending" => Unused(row.gen)
    /\ reject.at # "idle" =>
          row.gen = reject.gen /\ row.status = "consumed" /\ Unused(row.gen)

RowCounts == row.status # "none" => row.gen > 0

IInv ==
    /\ TypeOK
    /\ \A t \in Turns :
          Admitted(t) /\ EffectAgrees(t) /\ AskedOnce(t) /\ Answered(t)
    /\ TornKnown /\ RowCounts
    /\ ~overlap => Approvals
    /\ ApprovalStartsOnce


-----------------------------------------------------------------------------
(* Types *)

\* The parts of TypeOK: the thread of the live turn, flags, tables and counts.
ThreadOK ==
    /\ slot \in Turns \cup {Nobody} /\ at \in Places
    /\ at = "idle" <=> slot = Nobody
    /\ verdict \in {"completed", "cancelled"} /\ token \in Nat

FlagsOK ==
    /\ torn \in BOOLEAN
    /\ {recovering, stop, overlap, tore} \subseteq BOOLEAN

CountsOK ==
    /\ env \in Environments
    /\ crashes \in Nat /\ faults \in Nat

RequestsOK ==
    /\ resume \in Turns \cup {Nobody}
    /\ reject \in [at : {"idle", "check", "line"}, gen : Nat]
    /\ refused \subseteq Nat

DataOK ==
    /\ exec \in [Turns -> {"none", "queued", "running"} \cup Ended]
    /\ kind \in [Turns -> {"question", "approved"}]
    /\ effect \in [Turns -> {"none", "pending", "done"}]
    /\ reply \in [Turns -> {"none", "answer", "plan"}]
    /\ answers \in [Turns -> Nat]
    /\ starts \in [Turns -> Nat]
    /\ revived \subseteq Turns
    /\ sent \in [Turns -> Nat] /\ minted \in [Turns -> Nat]

RowOK == row \in Rows(Turns, Turns)

\* Together they are the type invariant.
LEMMA TypeParts ==
    /\ TypeOK <=> /\ ThreadOK /\ FlagsOK /\ CountsOK
                  /\ RequestsOK /\ DataOK /\ RowOK
    /\ TypeOK' <=> /\ ThreadOK' /\ FlagsOK' /\ CountsOK'
                   /\ RequestsOK' /\ DataOK' /\ RowOK'
  BY DEF TypeOK, ThreadOK, FlagsOK, CountsOK, RequestsOK, DataOK, RowOK

\* consume_pending_action closes the row and keeps its generation.
LEMMA ConsumedRow ==
    ASSUME RowOK, NEW k \in Turns \cup {Nobody}
    PROVE  /\ Consumed(row, k) \in Rows(Turns, Turns)
           /\ Consumed(row, k).status = "consumed"
           /\ Consumed(row, k).gen = row.gen
  BY DEF RowOK, Rows, Consumed, Statuses

\* restore_pending_action re-opens a consumed row and leaves any other alone.
LEMMA RestoredRow ==
    ASSUME RowOK
    PROVE  /\ Restored(row) \in Rows(Turns, Turns)
           /\ Restored(row).status = (IF row.status = "consumed" THEN "pending"
                                      ELSE row.status)
           /\ Restored(row).gen = row.gen
  BY DEF RowOK, Rows, Restored, Statuses

\* create_pending_action opens a new generation.
LEMMA ArmedRow ==
    ASSUME RowOK, NEW t \in Turns
    PROVE  /\ Armed(row, t) \in Rows(Turns, Turns)
           /\ Armed(row, t).status = "pending"
           /\ Armed(row, t).gen = row.gen + 1
  BY DEF RowOK, Rows, Armed, Statuses

\* An open row whose time is up expires.
LEMMA LapsedRow ==
    ASSUME RowOK, row.status = "pending"
    PROVE  /\ Expired([row EXCEPT !.lapsed = TRUE]) \in Rows(Turns, Turns)
           /\ Expired([row EXCEPT !.lapsed = TRUE]).status = "expired"
           /\ Expired([row EXCEPT !.lapsed = TRUE]).gen = row.gen
<1> DEFINE q == [row EXCEPT !.lapsed = TRUE]
<1>1. q \in Rows(Turns, Turns) /\ q.gen = row.gen
      /\ q.status = row.status /\ q.lapsed
  BY DEF RowOK, Rows
<1> HIDE DEF q
<1>2. /\ Expired(q) \in Rows(Turns, Turns) /\ Expired(q).gen = row.gen
      /\ Expired(q).status = "expired"
  BY <1>1 DEF Rows, Expired, Statuses
<1> QED BY <1>2 DEF q

\* Counting one more.
LEMMA Bump ==
    ASSUME NEW f \in [Turns -> Nat], NEW t \in Turns
    PROVE  /\ [f EXCEPT ![t] = @ + 1] \in [Turns -> Nat]
           /\ [f EXCEPT ![t] = @ + 1][t] = f[t] + 1
           /\ \A u \in Turns \ {t} : [f EXCEPT ![t] = @ + 1][u] = f[u]
  OBVIOUS

\* Whoever takes, moves or frees the slot keeps its types.
LEMMA ThreadStep ==
    ASSUME IInv, Next
    PROVE  ThreadOK'
<1>1. ThreadOK
    BY TypeParts DEF IInv
<1>2. ASSUME NEW t \in Turns, Ask(t)
      PROVE  ThreadOK'
    BY <1>1, <1>2, ChatAssumption DEF Ask, Fresh, ReserveSlot, NoGen, tables,
       graph, file, requests, history, ThreadOK, Turns, Places
<1>3. ASSUME NEW t \in Turns, AppendUser(t)
      PROVE  ThreadOK'
    BY <1>1, <1>3, ChatAssumption DEF AppendUser, Goto, Fault, FreeSlot,
       NoGen, tables, graph, requests, history, ThreadOK, Turns, Places
<1>4. ASSUME NEW t \in Turns, Admit(t)
      PROVE  ThreadOK'
    BY <1>1, <1>4, ChatAssumption DEF Admit, Goto, Fault, FreeSlot, NoGen,
       graph, file, requests, history, ThreadOK, Turns, Places
<1>5. ASSUME NEW t \in Turns, NEW gen \in 1 .. row.gen, Approve(t, gen)
      PROVE  ThreadOK'
    BY <1>1, <1>5, ChatAssumption DEF Approve, Fresh, ReserveSlot, tables,
       graph, file, requests, history, ThreadOK, Turns, Places
<1>6. ASSUME NEW t \in Turns, AdmitApproved(t)
      PROVE  ThreadOK'
    BY <1>1, <1>6, ChatAssumption DEF AdmitApproved, Goto, FreeSlot, NoGen,
       tables, graph, file, requests, ThreadOK, Turns, Places
<1>7. ASSUME NEW t \in Turns, ReadResumable(t)
      PROVE  ThreadOK'
    BY <1>1, <1>7, ChatAssumption DEF ReadResumable, tables, graph, file,
       thread, history, ThreadOK, Turns, Places
<1>8. ASSUME NEW t \in Turns, ResumeTurn(t)
      PROVE  ThreadOK'
    BY <1>1, <1>8, ChatAssumption DEF ResumeTurn, ReserveSlot, NoGen, thread,
       tables, graph, file, history, ThreadOK, Turns, Places
<1>9. ASSUME NEW t \in Turns, Begin(t)
      PROVE  ThreadOK'
    BY <1>1, <1>9, ChatAssumption DEF Begin, Goto, Fault, graph, file,
       requests, history, ThreadOK, Turns, Places
<1>10. ASSUME NEW t \in Turns, EnterEffect(t)
      PROVE  ThreadOK'
    BY <1>1, <1>10, ChatAssumption DEF EnterEffect, Goto, BlockTurn, FreeSlot,
       NoGen, file, requests, history, ThreadOK, Turns, Places
<1>11. ASSUME NEW t \in Turns, CallEffect(t)
      PROVE  ThreadOK'
    BY <1>1, <1>11, ChatAssumption DEF CallEffect, Goto, Fault, BlockTurn,
       FreeSlot, NoGen, graph, file, requests, ThreadOK, Turns, Places
<1>12. ASSUME NEW t \in Turns, NEW result \in {"answer", "plan"},
             RecordEffect(t, result)
      PROVE  ThreadOK'
    BY <1>1, <1>12, ChatAssumption DEF RecordEffect, Goto, tables, file,
       requests, history, ThreadOK, Turns, Places
<1>13. ASSUME NEW t \in Turns, ExecutionFails(t)
      PROVE  ThreadOK'
    BY <1>1, <1>13, ChatAssumption DEF ExecutionFails, Fault, FreeSlot, NoGen,
       tables, graph, file, requests, history, ThreadOK, Turns, Places
<1>14. CASE CancelTurn
    BY <1>1, <1>14, ChatAssumption DEF CancelTurn, tables, graph, file,
       requests, history, ThreadOK, Turns, Places
<1>15. ASSUME NEW t \in Turns, Checkpoint(t)
      PROVE  ThreadOK'
    BY <1>1, <1>15, ChatAssumption DEF Checkpoint, Goto, tables, graph, file,
       requests, history, ThreadOK, Turns, Places
<1>16. ASSUME NEW t \in Turns, Settle(t)
      PROVE  ThreadOK'
    BY <1>1, <1>16, ChatAssumption DEF Settle, tables, graph, file, requests,
       history, ThreadOK, Turns, Places
<1>17. ASSUME NEW t \in Turns, RegisterPendingPlan(t)
      PROVE  ThreadOK'
    BY <1>1, <1>17, ChatAssumption DEF RegisterPendingPlan, Goto, graph, file,
       requests, ThreadOK, Turns, Places
<1>18. ASSUME NEW t \in Turns, WriteAnswer(t)
      PROVE  ThreadOK'
    BY <1>1, <1>18, ChatAssumption DEF WriteAnswer, file, Goto, Fault,
       FreeSlot, NoGen, tables, graph, requests, ThreadOK, Turns, Places
<1>19. ASSUME NEW t \in Turns, Deliver(t)
      PROVE  ThreadOK'
    BY <1>1, <1>19, ChatAssumption DEF Deliver, FreeSlot, NoGen, Fault, Goto,
       graph, file, requests, history, ThreadOK, Turns, Places
<1>20. ASSUME NEW t \in Turns, Abort(t)
      PROVE  ThreadOK'
    BY <1>1, <1>20, ChatAssumption DEF Abort, FreeSlot, NoGen, Fault, Goto,
       tables, graph, file, requests, history, ThreadOK, Turns, Places
<1>21. ASSUME NEW gen \in 1 .. row.gen, Reject(gen)
      PROVE  ThreadOK'
    BY <1>1, <1>21, ChatAssumption DEF Reject, graph, file, thread, history,
       ThreadOK, Turns, Places
<1>22. CASE RejectCheck
    BY <1>1, <1>22, ChatAssumption DEF RejectCheck, NoGen, graph, file,
       thread, history, ThreadOK, Turns, Places
<1>23. CASE RejectLine
    BY <1>1, <1>23, ChatAssumption DEF RejectLine, NoGen, Fault, graph,
       thread, ThreadOK, Turns, Places
<1>24. CASE Lapse
    BY <1>1, <1>24, ChatAssumption DEF Lapse, graph, file, thread, requests,
       history, ThreadOK, Turns, Places
<1>25. CASE Crash
    BY <1>1, <1>25, ChatAssumption DEF Crash, FreeSlot, NoGen, tables, graph,
       ThreadOK, Turns, Places
<1> QED
    BY <1>2, <1>3, <1>4, <1>5, <1>6, <1>7, <1>8, <1>9, <1>10, <1>11, <1>12,
       <1>13, <1>14, <1>15, <1>16, <1>17, <1>18, <1>19, <1>20, <1>21, <1>22,
       <1>23, <1>24, <1>25 DEF Next, Step, TurnStep

\* Flags stay Boolean.
LEMMA FlagsStep ==
    ASSUME IInv, Next
    PROVE  FlagsOK'
<1>1. FlagsOK
    BY TypeParts DEF IInv
<1>2. ASSUME NEW t \in Turns, Ask(t)
      PROVE  FlagsOK'
    BY <1>1, <1>2 DEF Ask, Fresh, ReserveSlot, NoGen, tables, graph, file,
       requests, history, FlagsOK
<1>3. ASSUME NEW t \in Turns, AppendUser(t)
      PROVE  FlagsOK'
    BY <1>1, <1>3 DEF AppendUser, Goto, Fault, FreeSlot, NoGen, tables, graph,
       requests, history, FlagsOK
<1>4. ASSUME NEW t \in Turns, Admit(t)
      PROVE  FlagsOK'
    BY <1>1, <1>4 DEF Admit, Goto, Fault, FreeSlot, NoGen, graph, file,
       requests, history, FlagsOK
<1>5. ASSUME NEW t \in Turns, NEW gen \in 1 .. row.gen, Approve(t, gen)
      PROVE  FlagsOK'
    BY <1>1, <1>5 DEF Approve, Fresh, ReserveSlot, tables, graph, file,
       requests, history, FlagsOK
<1>6. ASSUME NEW t \in Turns, AdmitApproved(t)
      PROVE  FlagsOK'
    BY <1>1, <1>6 DEF AdmitApproved, Goto, FreeSlot, NoGen, tables, graph,
       file, requests, FlagsOK
<1>7. ASSUME NEW t \in Turns, ReadResumable(t)
      PROVE  FlagsOK'
    BY <1>1, <1>7 DEF ReadResumable, tables, graph, file, thread, history,
       FlagsOK
<1>8. ASSUME NEW t \in Turns, ResumeTurn(t)
      PROVE  FlagsOK'
    BY <1>1, <1>8 DEF ResumeTurn, ReserveSlot, NoGen, thread, tables, graph,
       file, history, FlagsOK
<1>9. ASSUME NEW t \in Turns, Begin(t)
      PROVE  FlagsOK'
    BY <1>1, <1>9 DEF Begin, Goto, Fault, graph, file, requests, history,
       FlagsOK
<1>10. ASSUME NEW t \in Turns, EnterEffect(t)
      PROVE  FlagsOK'
    BY <1>1, <1>10 DEF EnterEffect, Goto, BlockTurn, FreeSlot, NoGen, file,
       requests, history, FlagsOK
<1>11. ASSUME NEW t \in Turns, CallEffect(t)
      PROVE  FlagsOK'
    BY <1>1, <1>11 DEF CallEffect, Goto, Fault, BlockTurn, FreeSlot, NoGen,
       graph, file, requests, FlagsOK
<1>12. ASSUME NEW t \in Turns, NEW result \in {"answer", "plan"},
             RecordEffect(t, result)
      PROVE  FlagsOK'
    BY <1>1, <1>12 DEF RecordEffect, Goto, tables, file, requests, history,
       FlagsOK
<1>13. ASSUME NEW t \in Turns, ExecutionFails(t)
      PROVE  FlagsOK'
    BY <1>1, <1>13 DEF ExecutionFails, Fault, FreeSlot, NoGen, tables, graph,
       file, requests, history, FlagsOK
<1>14. CASE CancelTurn
    BY <1>1, <1>14 DEF CancelTurn, tables, graph, file, requests, history,
       FlagsOK
<1>15. ASSUME NEW t \in Turns, Checkpoint(t)
      PROVE  FlagsOK'
    BY <1>1, <1>15 DEF Checkpoint, Goto, tables, graph, file, requests,
       history, FlagsOK
<1>16. ASSUME NEW t \in Turns, Settle(t)
      PROVE  FlagsOK'
    BY <1>1, <1>16 DEF Settle, tables, graph, file, requests, history, FlagsOK
<1>17. ASSUME NEW t \in Turns, RegisterPendingPlan(t)
      PROVE  FlagsOK'
    BY <1>1, <1>17 DEF RegisterPendingPlan, Rearm, Goto, graph, file,
       requests, FlagsOK
<1>18. ASSUME NEW t \in Turns, WriteAnswer(t)
      PROVE  FlagsOK'
    BY <1>1, <1>18 DEF WriteAnswer, PutAnswer, file, Goto, Fault, FreeSlot,
       NoGen, tables, graph, requests, FlagsOK
<1>19. ASSUME NEW t \in Turns, Deliver(t)
      PROVE  FlagsOK'
    BY <1>1, <1>19 DEF Deliver, FreeSlot, NoGen, Fault, Goto, graph, file,
       requests, history, FlagsOK
<1>20. ASSUME NEW t \in Turns, Abort(t)
      PROVE  FlagsOK'
    BY <1>1, <1>20 DEF Abort, FreeSlot, NoGen, Fault, Goto, tables, graph,
       file, requests, history, FlagsOK
<1>21. ASSUME NEW gen \in 1 .. row.gen, Reject(gen)
      PROVE  FlagsOK'
    BY <1>1, <1>21 DEF Reject, graph, file, thread, history, FlagsOK
<1>22. CASE RejectCheck
    BY <1>1, <1>22 DEF RejectCheck, NoReject, NoGen, graph, file, thread,
       history, FlagsOK
<1>23. CASE RejectLine
    BY <1>1, <1>23 DEF RejectLine, NoReject, NoGen, Fault, graph, thread,
       FlagsOK
<1>24. CASE Lapse
    BY <1>1, <1>24 DEF Lapse, graph, file, thread, requests, history, FlagsOK
<1>25. CASE Crash
    BY <1>1, <1>25 DEF Crash, FreeSlot, NoGen, NoReject, tables, graph,
       FlagsOK
<1> QED
    BY <1>2, <1>3, <1>4, <1>5, <1>6, <1>7, <1>8, <1>9, <1>10, <1>11, <1>12,
       <1>13, <1>14, <1>15, <1>16, <1>17, <1>18, <1>19, <1>20, <1>21, <1>22,
       <1>23, <1>24, <1>25 DEF Next, Step, TurnStep

\* Counts stay natural numbers.
LEMMA CountsStep ==
    ASSUME IInv, Next
    PROVE  CountsOK'
<1>1. CountsOK /\ env' = env
    BY TypeParts DEF IInv, Next
<1>2. ASSUME NEW t \in Turns,
             \/ Ask(t)
             \/ \E gen \in 1 .. row.gen : Approve(t, gen)
             \/ AdmitApproved(t) \/ ReadResumable(t) \/ ResumeTurn(t)
             \/ EnterEffect(t)
             \/ \E result \in {"answer", "plan"} : RecordEffect(t, result)
             \/ Checkpoint(t) \/ Settle(t) \/ RegisterPendingPlan(t)
      PROVE  UNCHANGED <<crashes, faults>>
    BY <1>2 DEF Ask, Approve, AdmitApproved, ReadResumable, ResumeTurn,
       EnterEffect, RecordEffect, Checkpoint, Settle, RegisterPendingPlan,
       tables, graph, file, requests, history, thread
<1>3. ASSUME \/ CancelTurn
             \/ \E gen \in 1 .. row.gen : Reject(gen)
             \/ RejectCheck \/ Lapse
      PROVE  UNCHANGED <<crashes, faults>>
    BY <1>3 DEF CancelTurn, Reject, RejectCheck, Lapse, tables, graph, file,
       requests, history, thread
<1>4. CASE UNCHANGED <<crashes, faults>>
    BY <1>1, <1>4 DEF CountsOK
<1>5. ASSUME NEW t \in Turns, AppendUser(t)
      PROVE  CountsOK'
    BY <1>1, <1>5 DEF AppendUser, Goto, Fault, FreeSlot, NoGen, tables, graph,
       requests, history, CountsOK
<1>6. ASSUME NEW t \in Turns, Admit(t)
      PROVE  CountsOK'
    BY <1>1, <1>6 DEF Admit, Goto, Fault, FreeSlot, NoGen, graph, file,
       requests, history, CountsOK
<1>7. ASSUME NEW t \in Turns, Begin(t)
      PROVE  CountsOK'
    BY <1>1, <1>7 DEF Begin, Goto, Fault, graph, file, requests, history,
       CountsOK
<1>8. ASSUME NEW t \in Turns, CallEffect(t)
      PROVE  CountsOK'
    BY <1>1, <1>8 DEF CallEffect, Goto, Fault, BlockTurn, FreeSlot, NoGen,
       graph, file, requests, CountsOK
<1>9. ASSUME NEW t \in Turns, ExecutionFails(t)
      PROVE  CountsOK'
    BY <1>1, <1>9 DEF ExecutionFails, Fault, FreeSlot, NoGen, tables, graph,
       file, requests, history, CountsOK
<1>10. ASSUME NEW t \in Turns, WriteAnswer(t)
      PROVE  CountsOK'
    BY <1>1, <1>10 DEF WriteAnswer, file, Goto, Fault, FreeSlot, NoGen,
       tables, graph, requests, CountsOK
<1>11. ASSUME NEW t \in Turns, Deliver(t)
      PROVE  CountsOK'
    BY <1>1, <1>11 DEF Deliver, FreeSlot, NoGen, Fault, Goto, graph, file,
       requests, history, CountsOK
<1>12. ASSUME NEW t \in Turns, Abort(t)
      PROVE  CountsOK'
    BY <1>1, <1>12 DEF Abort, FreeSlot, NoGen, Fault, Goto, tables, graph,
       file, requests, history, CountsOK
<1>13. CASE RejectLine
    BY <1>1, <1>13 DEF RejectLine, NoReject, NoGen, Fault, graph, thread,
       CountsOK
<1>14. CASE Crash
    BY <1>1, <1>14 DEF Crash, FreeSlot, NoGen, NoReject, tables, graph,
       CountsOK
<1> QED
    BY <1>2, <1>3, <1>4, <1>5, <1>6, <1>7, <1>8, <1>9, <1>10, <1>11, <1>12,
       <1>13, <1>14 DEF Next, Step, TurnStep

\* The requests in flight keep their types.
LEMMA RequestsStep ==
    ASSUME IInv, Next
    PROVE  RequestsOK'
<1>1. RequestsOK /\ RowOK
    BY TypeParts DEF IInv
<1>2. ASSUME NEW t \in Turns,
             \/ Ask(t) \/ AppendUser(t) \/ Admit(t)
             \/ \E gen \in 1 .. row.gen : Approve(t, gen)
             \/ AdmitApproved(t) \/ Begin(t) \/ EnterEffect(t)
             \/ CallEffect(t)
             \/ \E result \in {"answer", "plan"} : RecordEffect(t, result)
             \/ ExecutionFails(t) \/ Checkpoint(t) \/ Settle(t)
             \/ RegisterPendingPlan(t) \/ WriteAnswer(t) \/ Deliver(t)
             \/ Abort(t)
      PROVE  UNCHANGED <<resume, reject, refused>>
    BY <1>2 DEF Ask, AppendUser, Admit, Approve, AdmitApproved, Begin,
       EnterEffect, CallEffect, RecordEffect, ExecutionFails, Checkpoint, Settle,
       RegisterPendingPlan, WriteAnswer, Deliver, Abort, tables, graph, file,
       requests, history
<1>3. ASSUME \/ CancelTurn \/ Lapse
      PROVE  UNCHANGED <<resume, reject, refused>>
    BY <1>3 DEF CancelTurn, Lapse, tables, graph, file, requests, history,
       thread
<1>4. CASE UNCHANGED <<resume, reject, refused>>
    BY <1>1, <1>4 DEF RequestsOK, RowOK, Rows
<1>5. ASSUME NEW t \in Turns, ReadResumable(t)
      PROVE  RequestsOK'
    BY <1>1, <1>5 DEF ReadResumable, tables, graph, file, thread, history,
       RequestsOK, RowOK, Rows
<1>6. ASSUME NEW t \in Turns, ResumeTurn(t)
      PROVE  RequestsOK'
    BY <1>1, <1>6 DEF ResumeTurn, ReserveSlot, NoGen, thread, tables, graph,
       file, history, RequestsOK, RowOK, Rows
<1>7. ASSUME NEW gen \in 1 .. row.gen, Reject(gen)
      PROVE  RequestsOK'
    BY <1>1, <1>7 DEF Reject, graph, file, thread, history, RequestsOK, RowOK,
       Rows
<1>8. CASE RejectCheck
    BY <1>1, <1>8 DEF RejectCheck, NoReject, NoGen, graph, file, thread,
       history, RequestsOK, RowOK, Rows
<1>9. CASE RejectLine
    BY <1>1, <1>9 DEF RejectLine, NoReject, NoGen, Fault, graph, thread,
       RequestsOK, RowOK, Rows
<1>10. CASE Crash
    BY <1>1, <1>10 DEF Crash, FreeSlot, NoGen, NoReject, tables, graph,
       RequestsOK, RowOK, Rows
<1> QED
    BY <1>2, <1>3, <1>4, <1>5, <1>6, <1>7, <1>8, <1>9, <1>10 DEF Next, Step,
       TurnStep

\* So do the rows and counts of the turns.
LEMMA DataStep ==
    ASSUME IInv, Next
    PROVE  DataOK'
<1>1. DataOK /\ ThreadOK
    BY TypeParts DEF IInv
<1>2. ASSUME NEW t \in Turns, Ask(t)
      PROVE  DataOK'
    BY <1>1, <1>2, Bump DEF Ask, Fresh, ReserveSlot, NoGen, tables, graph,
       file, requests, history, DataOK, ThreadOK, Turns, Ended
<1>3. ASSUME NEW t \in Turns, AppendUser(t)
      PROVE  DataOK'
    BY <1>1, <1>3, Bump DEF AppendUser, Goto, Fault, FreeSlot, NoGen, tables,
       graph, requests, history, DataOK, ThreadOK, Turns, Ended
<1>4. ASSUME NEW t \in Turns, Admit(t)
      PROVE  DataOK'
    BY <1>1, <1>4, Bump DEF Admit, Goto, Fault, FreeSlot, NoGen, graph, file,
       requests, history, DataOK, ThreadOK, Turns, Ended
<1>5. ASSUME NEW t \in Turns, NEW gen \in 1 .. row.gen, Approve(t, gen)
      PROVE  DataOK'
    BY <1>1, <1>5, Bump DEF Approve, Fresh, ReserveSlot, tables, graph, file,
       requests, history, DataOK, ThreadOK, Turns, Ended
<1>6. ASSUME NEW t \in Turns, AdmitApproved(t)
      PROVE  DataOK'
    BY <1>1, <1>6, Bump DEF AdmitApproved, Goto, FreeSlot, NoGen, tables,
       graph, file, requests, DataOK, ThreadOK, Turns, Ended
<1>7. ASSUME NEW t \in Turns, ReadResumable(t)
      PROVE  DataOK'
    BY <1>1, <1>7, Bump DEF ReadResumable, tables, graph, file, thread,
       history, DataOK, ThreadOK, Turns, Ended
<1>8. ASSUME NEW t \in Turns, ResumeTurn(t)
      PROVE  DataOK'
    BY <1>1, <1>8, Bump DEF ResumeTurn, ReserveSlot, NoGen, thread, tables,
       graph, file, history, DataOK, ThreadOK, Turns, Ended
<1>9. ASSUME NEW t \in Turns, Begin(t)
      PROVE  DataOK'
    BY <1>1, <1>9, Bump DEF Begin, Goto, Fault, graph, file, requests,
       history, DataOK, ThreadOK, Turns, Ended
<1>10. ASSUME NEW t \in Turns, EnterEffect(t)
      PROVE  DataOK'
    BY <1>1, <1>10, Bump DEF EnterEffect, Goto, BlockTurn, FreeSlot, NoGen,
       file, requests, history, DataOK, ThreadOK, Turns, Ended
<1>11. ASSUME NEW t \in Turns, CallEffect(t)
      PROVE  DataOK'
  <2>1. sent' \in {sent, [sent EXCEPT ![t] = @ + 1]}
    BY <1>11 DEF CallEffect
  <2>2. exec' \in {exec, [exec EXCEPT ![t] = "blocked"]}
    BY <1>11 DEF CallEffect, BlockTurn
  <2>3. UNCHANGED <<kind, effect, reply, answers, starts, revived, minted>>
    BY <1>11 DEF CallEffect, graph, file
  <2> QED BY <1>1, <2>1, <2>2, <2>3, Bump DEF DataOK, Ended
<1>12. ASSUME NEW t \in Turns, NEW result \in {"answer", "plan"},
             RecordEffect(t, result)
      PROVE  DataOK'
    BY <1>1, <1>12, Bump DEF RecordEffect, Goto, tables, file, requests,
       history, DataOK, ThreadOK, Turns, Ended
<1>13. ASSUME NEW t \in Turns, ExecutionFails(t)
      PROVE  DataOK'
    BY <1>1, <1>13, Bump DEF ExecutionFails, Fault, FreeSlot, NoGen, tables,
       graph, file, requests, history, DataOK, ThreadOK, Turns, Ended
<1>14. CASE CancelTurn
    BY <1>1, <1>14, Bump DEF CancelTurn, tables, graph, file, requests,
       history, DataOK, ThreadOK, Turns, Ended
<1>15. ASSUME NEW t \in Turns, Checkpoint(t)
      PROVE  DataOK'
    BY <1>1, <1>15, Bump DEF Checkpoint, Goto, tables, graph, file, requests,
       history, DataOK, ThreadOK, Turns, Ended
<1>16. ASSUME NEW t \in Turns, Settle(t)
      PROVE  DataOK'
    BY <1>1, <1>16, Bump DEF Settle, tables, graph, file, requests, history,
       DataOK, ThreadOK, Turns, Ended
<1>17. ASSUME NEW t \in Turns, RegisterPendingPlan(t)
      PROVE  DataOK'
    BY <1>1, <1>17, Bump DEF RegisterPendingPlan, Rearm, Goto, graph, file,
       requests, DataOK, ThreadOK, Turns, Ended
<1>18. ASSUME NEW t \in Turns, WriteAnswer(t)
      PROVE  DataOK'
  <2>1. answers' \in {answers, [answers EXCEPT ![t] = @ + 1]}
    BY <1>18 DEF WriteAnswer, PutAnswer, file
  <2>2. revived' \in {revived, revived \cup {t}}
    BY <1>18 DEF WriteAnswer
  <2>3. UNCHANGED <<exec, kind, effect, reply, starts, sent, minted>>
    BY <1>18 DEF WriteAnswer, tables, graph
  <2> QED BY <1>1, <2>1, <2>2, <2>3, Bump DEF DataOK
<1>19. ASSUME NEW t \in Turns, Deliver(t)
      PROVE  DataOK'
    BY <1>1, <1>19, Bump DEF Deliver, FreeSlot, NoGen, Fault, Goto, graph,
       file, requests, history, DataOK, ThreadOK, Turns, Ended
<1>20. ASSUME NEW t \in Turns, Abort(t)
      PROVE  DataOK'
    BY <1>1, <1>20, Bump DEF Abort, FreeSlot, NoGen, Fault, Goto, tables,
       graph, file, requests, history, DataOK, ThreadOK, Turns, Ended
<1>21. ASSUME NEW gen \in 1 .. row.gen, Reject(gen)
      PROVE  DataOK'
    BY <1>1, <1>21, Bump DEF Reject, graph, file, thread, history, DataOK,
       ThreadOK, Turns, Ended
<1>22. CASE RejectCheck
    BY <1>1, <1>22, Bump DEF RejectCheck, NoReject, NoGen, graph, file,
       thread, history, DataOK, ThreadOK, Turns, Ended
<1>23. CASE RejectLine
    BY <1>1, <1>23, Bump DEF RejectLine, NoReject, NoGen, Fault, graph,
       thread, DataOK, ThreadOK, Turns, Ended
<1>24. CASE Lapse
    BY <1>1, <1>24, Bump DEF Lapse, graph, file, thread, requests, history,
       DataOK, ThreadOK, Turns, Ended
<1>25. CASE Crash
    BY <1>1, <1>25, Bump DEF Crash, FreeSlot, NoGen, NoReject, tables, graph,
       DataOK, ThreadOK, Turns, Ended
<1> QED
    BY <1>2, <1>3, <1>4, <1>5, <1>6, <1>7, <1>8, <1>9, <1>10, <1>11, <1>12,
       <1>13, <1>14, <1>15, <1>16, <1>17, <1>18, <1>19, <1>20, <1>21, <1>22,
       <1>23, <1>24, <1>25 DEF Next, Step, TurnStep

\* What a step may do to the approval row.
RowMoves ==
    \/ row' = row
    \/ /\ row.status = "pending"
       /\ \E k \in Turns \cup {Nobody} : row' = Consumed(row, k)
    \/ \E t \in Turns : row' = Armed(row, t)
    \/ row' = Restored(row)
    \/ row.status = "pending" /\ row' = Expired([row EXCEPT !.lapsed = TRUE])

\* It does nothing else.
LEMMA RowMove ==
    ASSUME IInv, Next
    PROVE  RowMoves
<1>2. ASSUME NEW t \in Turns,
             \/ Ask(t) \/ AppendUser(t) \/ Admit(t)
             \/ \E gen \in 1 .. row.gen : Approve(t, gen)
             \/ ReadResumable(t) \/ ResumeTurn(t) \/ Begin(t)
             \/ EnterEffect(t) \/ CallEffect(t)
             \/ \E result \in {"answer", "plan"} : RecordEffect(t, result)
             \/ ExecutionFails(t) \/ Checkpoint(t) \/ Settle(t)
             \/ WriteAnswer(t) \/ Deliver(t) \/ Abort(t)
      PROVE  UNCHANGED row
    BY <1>2 DEF Ask, AppendUser, Admit, Approve, ReadResumable, ResumeTurn,
       Begin, EnterEffect, CallEffect, RecordEffect, ExecutionFails, Checkpoint,
       Settle, WriteAnswer, Deliver, Abort, tables, graph, file, requests,
       history, thread
<1>3. ASSUME \/ CancelTurn \/ Crash
      PROVE  UNCHANGED row
    BY <1>3 DEF CancelTurn, Crash, tables, graph, file, requests, history
<1>4. CASE UNCHANGED row
    BY <1>4 DEF RowMoves
<1>5. ASSUME NEW t \in Turns, AdmitApproved(t)
      PROVE  RowMoves
    BY <1>5 DEF AdmitApproved, Open, tables, RowMoves
<1>6. ASSUME NEW t \in Turns, RegisterPendingPlan(t)
      PROVE  RowMoves
    BY <1>6 DEF RegisterPendingPlan, Rearm, RowMoves
<1>7. ASSUME NEW gen \in 1 .. row.gen, Reject(gen)
      PROVE  RowMoves
    BY <1>7 DEF Reject, Open, RowMoves
<1>8. CASE RejectCheck
    BY <1>8 DEF RejectCheck, RowMoves
<1>9. CASE RejectLine
    BY <1>9 DEF RejectLine, RowMoves
<1>10. CASE Lapse
    BY <1>10 DEF Lapse, RowMoves
<1> QED
    BY <1>2, <1>3, <1>4, <1>5, <1>6, <1>7, <1>8, <1>9, <1>10 DEF Next, Step,
       TurnStep

\* The row keeps its type and, once there, its generation; it never goes away.
LEMMA RowStep ==
    ASSUME IInv, Next
    PROVE  RowOK' /\ RowCounts' /\ (row.status # "none" => row'.status # "none")
<1>1. RowOK /\ RowCounts /\ row.gen \in Nat
  BY TypeParts DEF IInv, RowOK, Rows
<1>2. CASE row' = row
  BY <1>1, <1>2 DEF RowOK, RowCounts
<1>3. CASE /\ row.status = "pending"
           /\ \E k \in Turns \cup {Nobody} : row' = Consumed(row, k)
  BY <1>1, <1>3, ConsumedRow DEF RowOK, RowCounts
<1>4. CASE \E t \in Turns : row' = Armed(row, t)
  BY <1>1, <1>4, ArmedRow DEF RowOK, RowCounts
<1>5. CASE row' = Restored(row)
  BY <1>1, <1>5, RestoredRow DEF RowOK, RowCounts
<1>6. CASE row.status = "pending" /\ row' = Expired([row EXCEPT !.lapsed = TRUE])
  BY <1>1, <1>6, LapsedRow DEF RowOK, RowCounts
<1> QED BY <1>2, <1>3, <1>4, <1>5, <1>6, RowMove DEF RowMoves

\* Every step keeps Admitted.
LEMMA AdmittedStep ==
    ASSUME IInv, Next, NEW u \in Turns
    PROVE  Admitted(u)'
<1>1. DataOK /\ ThreadOK /\ RequestsOK /\ Admitted(u)
    BY TypeParts DEF IInv
<1>2. ASSUME NEW t \in Turns, Ask(t)
      PROVE  Admitted(u)'
    BY <1>1, <1>2, ChatAssumption DEF Ask, Fresh, ReserveSlot, NoGen, tables,
       graph, file, requests, history, Admitted, Entering, RequestsOK, DataOK,
       ThreadOK, Turns
<1>3. ASSUME NEW t \in Turns, AppendUser(t)
      PROVE  Admitted(u)'
    BY <1>1, <1>3, ChatAssumption DEF AppendUser, Goto, Fault, FreeSlot,
       NoGen, tables, graph, requests, history, Admitted, Entering, RequestsOK,
       DataOK, ThreadOK, Turns
<1>4. ASSUME NEW t \in Turns, Admit(t)
      PROVE  Admitted(u)'
  <2>1. exec' \in {exec, [exec EXCEPT ![t] = "queued"]}
    BY <1>4 DEF Admit
  <2>2. UNCHANGED <<effect, sent, minted, answers, revived, resume>>
    BY <1>4 DEF Admit, graph, file, requests, history
  <2>3. \/ slot' = Nobody /\ exec' = exec
        \/ slot' = t /\ at' = "begin" /\ exec'[t] = "queued"
    BY <1>1, <1>4 DEF Admit, FreeSlot, Goto, DataOK
  <2> QED BY <1>1, <2>1, <2>2, <2>3, ChatAssumption
          DEF Admitted, Entering, DataOK, Turns
<1>5. ASSUME NEW t \in Turns, NEW gen \in 1 .. row.gen, Approve(t, gen)
      PROVE  Admitted(u)'
    BY <1>1, <1>5, ChatAssumption DEF Approve, Fresh, ReserveSlot, tables,
       graph, file, requests, history, Admitted, Entering, RequestsOK, DataOK,
       ThreadOK, Turns
<1>6. ASSUME NEW t \in Turns, AdmitApproved(t)
      PROVE  Admitted(u)'
  <2>1. exec' \in {exec, [exec EXCEPT ![t] = "queued"]}
    BY <1>6 DEF AdmitApproved, tables
  <2>2. UNCHANGED <<effect, sent, minted, answers, revived, resume>>
    BY <1>6 DEF AdmitApproved, graph, file, requests
  <2>3. \/ slot' = Nobody /\ exec' = exec
        \/ slot' = t /\ at' = "begin" /\ exec'[t] = "queued"
    BY <1>1, <1>6 DEF AdmitApproved, FreeSlot, Goto, tables, DataOK
  <2> QED BY <1>1, <2>1, <2>2, <2>3, ChatAssumption
          DEF Admitted, Entering, DataOK, Turns
<1>7. ASSUME NEW t \in Turns, ReadResumable(t)
      PROVE  Admitted(u)'
    BY <1>1, <1>7, ChatAssumption DEF ReadResumable, tables, graph, file,
       thread, history, Admitted, Entering, RequestsOK, DataOK, ThreadOK, Turns
<1>8. ASSUME NEW t \in Turns, ResumeTurn(t)
      PROVE  Admitted(u)'
    BY <1>1, <1>8, ChatAssumption DEF ResumeTurn, ReserveSlot, NoGen, thread,
       tables, graph, file, history, Admitted, Entering, RequestsOK, DataOK,
       ThreadOK, Turns
<1>9. ASSUME NEW t \in Turns, Begin(t)
      PROVE  Admitted(u)'
    BY <1>1, <1>9, ChatAssumption DEF Begin, Goto, Fault, graph, file,
       requests, history, Admitted, Entering, RequestsOK, DataOK, ThreadOK, Turns
<1>10. ASSUME NEW t \in Turns, EnterEffect(t)
      PROVE  Admitted(u)'
    BY <1>1, <1>10, ChatAssumption DEF EnterEffect, Goto, BlockTurn, FreeSlot,
       NoGen, file, requests, history, Admitted, Entering, RequestsOK, DataOK,
       ThreadOK, Turns
<1>11. ASSUME NEW t \in Turns, CallEffect(t)
      PROVE  Admitted(u)'
    BY <1>1, <1>11, ChatAssumption DEF CallEffect, Goto, Fault, BlockTurn,
       FreeSlot, NoGen, graph, file, requests, Admitted, Entering, RequestsOK,
       DataOK, ThreadOK, Turns
<1>12. ASSUME NEW t \in Turns, NEW result \in {"answer", "plan"},
             RecordEffect(t, result)
      PROVE  Admitted(u)'
    BY <1>1, <1>12, ChatAssumption DEF RecordEffect, Goto, tables, file,
       requests, history, Admitted, Entering, RequestsOK, DataOK, ThreadOK, Turns
<1>13. ASSUME NEW t \in Turns, ExecutionFails(t)
      PROVE  Admitted(u)'
    BY <1>1, <1>13, ChatAssumption DEF ExecutionFails, Fault, FreeSlot, NoGen,
       tables, graph, file, requests, history, Admitted, Entering, RequestsOK,
       DataOK, ThreadOK, Turns
<1>14. CASE CancelTurn
    BY <1>1, <1>14, ChatAssumption DEF CancelTurn, tables, graph, file,
       requests, history, Admitted, Entering, RequestsOK, DataOK, ThreadOK, Turns
<1>15. ASSUME NEW t \in Turns, Checkpoint(t)
      PROVE  Admitted(u)'
    BY <1>1, <1>15, ChatAssumption DEF Checkpoint, Goto, tables, graph, file,
       requests, history, Admitted, Entering, RequestsOK, DataOK, ThreadOK, Turns
<1>16. ASSUME NEW t \in Turns, Settle(t)
      PROVE  Admitted(u)'
    BY <1>1, <1>16, ChatAssumption DEF Settle, tables, graph, file, requests,
       history, Admitted, Entering, RequestsOK, DataOK, ThreadOK, Turns
<1>17. ASSUME NEW t \in Turns, RegisterPendingPlan(t)
      PROVE  Admitted(u)'
    BY <1>1, <1>17, ChatAssumption DEF RegisterPendingPlan, Rearm, Goto,
       graph, file, requests, Admitted, Entering, RequestsOK, DataOK, ThreadOK,
       Turns
<1>18. ASSUME NEW t \in Turns, WriteAnswer(t)
      PROVE  Admitted(u)'
    BY <1>1, <1>18, ChatAssumption DEF WriteAnswer, PutAnswer, file, Goto,
       Fault, FreeSlot, NoGen, tables, graph, requests, Admitted, Entering,
       RequestsOK, DataOK, ThreadOK, Turns
<1>19. ASSUME NEW t \in Turns, Deliver(t)
      PROVE  Admitted(u)'
    BY <1>1, <1>19, ChatAssumption DEF Deliver, FreeSlot, NoGen, Fault, Goto,
       graph, file, requests, history, Admitted, Entering, RequestsOK, DataOK,
       ThreadOK, Turns
<1>20. ASSUME NEW t \in Turns, Abort(t)
      PROVE  Admitted(u)'
    BY <1>1, <1>20, ChatAssumption DEF Abort, FreeSlot, NoGen, Fault, Goto,
       tables, graph, file, requests, history, Admitted, Entering, RequestsOK,
       DataOK, ThreadOK, Turns
<1>21. ASSUME NEW gen \in 1 .. row.gen, Reject(gen)
      PROVE  Admitted(u)'
    BY <1>1, <1>21, ChatAssumption DEF Reject, graph, file, thread, history,
       Admitted, Entering, RequestsOK, DataOK, ThreadOK, Turns
<1>22. CASE RejectCheck
    BY <1>1, <1>22, ChatAssumption DEF RejectCheck, NoReject, NoGen, graph,
       file, thread, history, Admitted, Entering, RequestsOK, DataOK, ThreadOK,
       Turns
<1>23. CASE RejectLine
    BY <1>1, <1>23, ChatAssumption DEF RejectLine, NoReject, NoGen, Fault,
       graph, thread, Admitted, Entering, RequestsOK, DataOK, ThreadOK, Turns
<1>24. CASE Lapse
    BY <1>1, <1>24, ChatAssumption DEF Lapse, graph, file, thread, requests,
       history, Admitted, Entering, RequestsOK, DataOK, ThreadOK, Turns
<1>25. CASE Crash
    BY <1>1, <1>25, ChatAssumption DEF Crash, FreeSlot, NoGen, NoReject,
       tables, graph, Admitted, Entering, RequestsOK, DataOK, ThreadOK, Turns
<1> QED
    BY <1>2, <1>3, <1>4, <1>5, <1>6, <1>7, <1>8, <1>9, <1>10, <1>11, <1>12,
       <1>13, <1>14, <1>15, <1>16, <1>17, <1>18, <1>19, <1>20, <1>21, <1>22,
       <1>23, <1>24, <1>25 DEF Next, Step, TurnStep

\* Every step keeps EffectAgrees.
LEMMA EffectStep ==
    ASSUME IInv, Next, NEW u \in Turns
    PROVE  EffectAgrees(u)'
<1>1. DataOK /\ ThreadOK /\ RequestsOK /\ Admitted(u) /\ EffectAgrees(u)
    BY TypeParts DEF IInv
<1>2. ASSUME NEW t \in Turns, Ask(t)
      PROVE  EffectAgrees(u)'
    BY <1>1, <1>2, ChatAssumption DEF Ask, Fresh, ReserveSlot, NoGen, tables,
       graph, file, requests, history, EffectAgrees, Admitted, Entering, DataOK,
       ThreadOK, Turns
<1>3. ASSUME NEW t \in Turns, AppendUser(t)
      PROVE  EffectAgrees(u)'
    BY <1>1, <1>3, ChatAssumption DEF AppendUser, Goto, Fault, FreeSlot,
       NoGen, tables, graph, requests, history, EffectAgrees, Admitted, Entering,
       DataOK, ThreadOK, Turns
<1>4. ASSUME NEW t \in Turns, Admit(t)
      PROVE  EffectAgrees(u)'
    BY <1>1, <1>4, ChatAssumption DEF Admit, Goto, Fault, FreeSlot, NoGen,
       graph, file, requests, history, EffectAgrees, Admitted, Entering, DataOK,
       ThreadOK, Turns
<1>5. ASSUME NEW t \in Turns, NEW gen \in 1 .. row.gen, Approve(t, gen)
      PROVE  EffectAgrees(u)'
    BY <1>1, <1>5, ChatAssumption DEF Approve, Fresh, ReserveSlot, tables,
       graph, file, requests, history, EffectAgrees, Admitted, Entering, DataOK,
       ThreadOK, Turns
<1>6. ASSUME NEW t \in Turns, AdmitApproved(t)
      PROVE  EffectAgrees(u)'
    BY <1>1, <1>6, ChatAssumption DEF AdmitApproved, Goto, FreeSlot, NoGen,
       tables, graph, file, requests, EffectAgrees, Admitted, Entering, DataOK,
       ThreadOK, Turns
<1>7. ASSUME NEW t \in Turns, ReadResumable(t)
      PROVE  EffectAgrees(u)'
    BY <1>1, <1>7, ChatAssumption DEF ReadResumable, tables, graph, file,
       thread, history, EffectAgrees, Admitted, Entering, DataOK, ThreadOK, Turns
<1>8. ASSUME NEW t \in Turns, ResumeTurn(t)
      PROVE  EffectAgrees(u)'
    BY <1>1, <1>8, ChatAssumption DEF ResumeTurn, ReserveSlot, NoGen, thread,
       tables, graph, file, history, EffectAgrees, Admitted, Entering, DataOK,
       ThreadOK, Turns
<1>9. ASSUME NEW t \in Turns, Begin(t)
      PROVE  EffectAgrees(u)'
    BY <1>1, <1>9, ChatAssumption DEF Begin, Goto, Fault, graph, file,
       requests, history, EffectAgrees, Admitted, Entering, DataOK, ThreadOK,
       Turns
<1>10. ASSUME NEW t \in Turns, EnterEffect(t)
      PROVE  EffectAgrees(u)'
    BY <1>1, <1>10, ChatAssumption DEF EnterEffect, Goto, BlockTurn, FreeSlot,
       NoGen, file, requests, history, EffectAgrees, Admitted, Entering, DataOK,
       ThreadOK, Turns
<1>11. ASSUME NEW t \in Turns, CallEffect(t)
      PROVE  EffectAgrees(u)'
  <2>1. sent' = IF kind[t] = "question" THEN [sent EXCEPT ![t] = @ + 1]
                ELSE sent
    BY <1>11 DEF CallEffect
  <2>2. /\ slot = t /\ at = "call"
        /\ slot' = Nobody \/ (slot' = t /\ at' = "record")
        /\ UNCHANGED <<kind, effect>>
    BY <1>11 DEF CallEffect, BlockTurn, FreeSlot, Goto, graph
  <2>3. CASE u = t
    BY <1>1, <2>1, <2>2, <2>3, ChatAssumption DEF EffectAgrees, DataOK, Turns
  <2>4. CASE u # t
    BY <1>1, <2>1, <2>2, <2>4, ChatAssumption DEF EffectAgrees, DataOK, Turns
  <2> QED BY <2>3, <2>4
<1>12. ASSUME NEW t \in Turns, NEW result \in {"answer", "plan"},
             RecordEffect(t, result)
      PROVE  EffectAgrees(u)'
    BY <1>1, <1>12, ChatAssumption DEF RecordEffect, Goto, tables, file,
       requests, history, EffectAgrees, Admitted, Entering, DataOK, ThreadOK,
       Turns
<1>13. ASSUME NEW t \in Turns, ExecutionFails(t)
      PROVE  EffectAgrees(u)'
    BY <1>1, <1>13, ChatAssumption DEF ExecutionFails, Fault, FreeSlot, NoGen,
       tables, graph, file, requests, history, EffectAgrees, Admitted, Entering,
       DataOK, ThreadOK, Turns
<1>14. CASE CancelTurn
    BY <1>1, <1>14, ChatAssumption DEF CancelTurn, tables, graph, file,
       requests, history, EffectAgrees, Admitted, Entering, DataOK, ThreadOK,
       Turns
<1>15. ASSUME NEW t \in Turns, Checkpoint(t)
      PROVE  EffectAgrees(u)'
    BY <1>1, <1>15, ChatAssumption DEF Checkpoint, Goto, tables, graph, file,
       requests, history, EffectAgrees, Admitted, Entering, DataOK, ThreadOK,
       Turns
<1>16. ASSUME NEW t \in Turns, Settle(t)
      PROVE  EffectAgrees(u)'
    BY <1>1, <1>16, ChatAssumption DEF Settle, tables, graph, file, requests,
       history, EffectAgrees, Admitted, Entering, DataOK, ThreadOK, Turns
<1>17. ASSUME NEW t \in Turns, RegisterPendingPlan(t)
      PROVE  EffectAgrees(u)'
    BY <1>1, <1>17, ChatAssumption DEF RegisterPendingPlan, Rearm, Goto,
       graph, file, requests, EffectAgrees, Admitted, Entering, DataOK, ThreadOK,
       Turns
<1>18. ASSUME NEW t \in Turns, WriteAnswer(t)
      PROVE  EffectAgrees(u)'
    BY <1>1, <1>18, ChatAssumption DEF WriteAnswer, PutAnswer, file, Goto,
       Fault, FreeSlot, NoGen, tables, graph, requests, EffectAgrees, Admitted,
       Entering, DataOK, ThreadOK, Turns
<1>19. ASSUME NEW t \in Turns, Deliver(t)
      PROVE  EffectAgrees(u)'
    BY <1>1, <1>19, ChatAssumption DEF Deliver, FreeSlot, NoGen, Fault, Goto,
       graph, file, requests, history, EffectAgrees, Admitted, Entering, DataOK,
       ThreadOK, Turns
<1>20. ASSUME NEW t \in Turns, Abort(t)
      PROVE  EffectAgrees(u)'
    BY <1>1, <1>20, ChatAssumption DEF Abort, FreeSlot, NoGen, Fault, Goto,
       tables, graph, file, requests, history, EffectAgrees, Admitted, Entering,
       DataOK, ThreadOK, Turns
<1>21. ASSUME NEW gen \in 1 .. row.gen, Reject(gen)
      PROVE  EffectAgrees(u)'
    BY <1>1, <1>21, ChatAssumption DEF Reject, graph, file, thread, history,
       EffectAgrees, Admitted, Entering, DataOK, ThreadOK, Turns
<1>22. CASE RejectCheck
    BY <1>1, <1>22, ChatAssumption DEF RejectCheck, NoReject, NoGen, graph,
       file, thread, history, EffectAgrees, Admitted, Entering, DataOK, ThreadOK,
       Turns
<1>23. CASE RejectLine
    BY <1>1, <1>23, ChatAssumption DEF RejectLine, NoReject, NoGen, Fault,
       graph, thread, EffectAgrees, Admitted, Entering, DataOK, ThreadOK, Turns
<1>24. CASE Lapse
    BY <1>1, <1>24, ChatAssumption DEF Lapse, graph, file, thread, requests,
       history, EffectAgrees, Admitted, Entering, DataOK, ThreadOK, Turns
<1>25. CASE Crash
    BY <1>1, <1>25, ChatAssumption DEF Crash, FreeSlot, NoGen, NoReject,
       tables, graph, EffectAgrees, Admitted, Entering, DataOK, ThreadOK, Turns
<1> QED
    BY <1>2, <1>3, <1>4, <1>5, <1>6, <1>7, <1>8, <1>9, <1>10, <1>11, <1>12,
       <1>13, <1>14, <1>15, <1>16, <1>17, <1>18, <1>19, <1>20, <1>21, <1>22,
       <1>23, <1>24, <1>25 DEF Next, Step, TurnStep

\* Every step keeps AskedOnce.
LEMMA AskedStep ==
    ASSUME IInv, Next, NEW u \in Turns
    PROVE  AskedOnce(u)'
<1>1. DataOK /\ ThreadOK /\ Admitted(u) /\ AskedOnce(u)
      /\ (row.status # "none" => row'.status # "none")
    BY TypeParts, RowStep DEF IInv
<1>2. ASSUME NEW t \in Turns, Ask(t)
      PROVE  AskedOnce(u)'
    BY <1>1, <1>2, ChatAssumption DEF Ask, Fresh, ReserveSlot, NoGen, tables,
       graph, file, requests, history, AskedOnce, Admitted, Entering,
       Unregistered, DataOK, ThreadOK, Turns
<1>3. ASSUME NEW t \in Turns, AppendUser(t)
      PROVE  AskedOnce(u)'
    BY <1>1, <1>3, ChatAssumption DEF AppendUser, Goto, Fault, FreeSlot,
       NoGen, tables, graph, requests, history, AskedOnce, Admitted, Entering,
       Unregistered, DataOK, ThreadOK, Turns
<1>4. ASSUME NEW t \in Turns, Admit(t)
      PROVE  AskedOnce(u)'
    BY <1>1, <1>4, ChatAssumption DEF Admit, Goto, Fault, FreeSlot, NoGen,
       graph, file, requests, history, AskedOnce, Admitted, Entering,
       Unregistered, DataOK, ThreadOK, Turns
<1>5. ASSUME NEW t \in Turns, NEW gen \in 1 .. row.gen, Approve(t, gen)
      PROVE  AskedOnce(u)'
    BY <1>1, <1>5, ChatAssumption DEF Approve, Fresh, ReserveSlot, tables,
       graph, file, requests, history, AskedOnce, Admitted, Entering,
       Unregistered, DataOK, ThreadOK, Turns
<1>6. ASSUME NEW t \in Turns, AdmitApproved(t)
      PROVE  AskedOnce(u)'
    BY <1>1, <1>6, ChatAssumption DEF AdmitApproved, Goto, FreeSlot, NoGen,
       tables, graph, file, requests, AskedOnce, Admitted, Entering,
       Unregistered, DataOK, ThreadOK, Turns
<1>7. ASSUME NEW t \in Turns, ReadResumable(t)
      PROVE  AskedOnce(u)'
    BY <1>1, <1>7, ChatAssumption DEF ReadResumable, tables, graph, file,
       thread, history, AskedOnce, Admitted, Entering, Unregistered, DataOK,
       ThreadOK, Turns
<1>8. ASSUME NEW t \in Turns, ResumeTurn(t)
      PROVE  AskedOnce(u)'
    BY <1>1, <1>8, ChatAssumption DEF ResumeTurn, ReserveSlot, NoGen, thread,
       tables, graph, file, history, AskedOnce, Admitted, Entering, Unregistered,
       DataOK, ThreadOK, Turns
<1>9. ASSUME NEW t \in Turns, Begin(t)
      PROVE  AskedOnce(u)'
    BY <1>1, <1>9, ChatAssumption DEF Begin, Goto, Fault, graph, file,
       requests, history, AskedOnce, Admitted, Entering, Unregistered, DataOK,
       ThreadOK, Turns
<1>10. ASSUME NEW t \in Turns, EnterEffect(t)
      PROVE  AskedOnce(u)'
    BY <1>1, <1>10, ChatAssumption DEF EnterEffect, Goto, BlockTurn, FreeSlot,
       NoGen, file, requests, history, AskedOnce, Admitted, Entering,
       Unregistered, DataOK, ThreadOK, Turns
<1>11. ASSUME NEW t \in Turns, CallEffect(t)
      PROVE  AskedOnce(u)'
    BY <1>1, <1>11, ChatAssumption DEF CallEffect, Goto, Fault, BlockTurn,
       FreeSlot, NoGen, graph, file, requests, AskedOnce, Admitted, Entering,
       Unregistered, DataOK, ThreadOK, Turns
<1>12. ASSUME NEW t \in Turns, NEW result \in {"answer", "plan"},
             RecordEffect(t, result)
      PROVE  AskedOnce(u)'
    BY <1>1, <1>12, ChatAssumption DEF RecordEffect, Goto, tables, file,
       requests, history, AskedOnce, Admitted, Entering, Unregistered, DataOK,
       ThreadOK, Turns
<1>13. ASSUME NEW t \in Turns, ExecutionFails(t)
      PROVE  AskedOnce(u)'
    BY <1>1, <1>13, ChatAssumption DEF ExecutionFails, Fault, FreeSlot, NoGen,
       tables, graph, file, requests, history, AskedOnce, Admitted, Entering,
       Unregistered, DataOK, ThreadOK, Turns
<1>14. CASE CancelTurn
    BY <1>1, <1>14, ChatAssumption DEF CancelTurn, tables, graph, file,
       requests, history, AskedOnce, Admitted, Entering, Unregistered, DataOK,
       ThreadOK, Turns
<1>15. ASSUME NEW t \in Turns, Checkpoint(t)
      PROVE  AskedOnce(u)'
    BY <1>1, <1>15, ChatAssumption DEF Checkpoint, Goto, tables, graph, file,
       requests, history, AskedOnce, Admitted, Entering, Unregistered, DataOK,
       ThreadOK, Turns
<1>16. ASSUME NEW t \in Turns, Settle(t)
      PROVE  AskedOnce(u)'
    BY <1>1, <1>16, ChatAssumption DEF Settle, tables, graph, file, requests,
       history, AskedOnce, Admitted, Entering, Unregistered, DataOK, ThreadOK,
       Turns
<1>17. ASSUME NEW t \in Turns, RegisterPendingPlan(t)
      PROVE  AskedOnce(u)'
  <2>1. slot = t /\ at = "register" /\ slot' = t /\ at' = "write"
    BY <1>17 DEF RegisterPendingPlan, Goto
  <2>2. CASE minted' = minted
    BY <1>1, <2>1, <2>2 DEF AskedOnce, Unregistered, Entering
  <2>3. CASE Rearm(t) /\ ~(row.status # "none" /\ recovering)
    <3>1. row'.status = "pending"
      BY <2>3, ArmedRow, TypeParts DEF IInv, Rearm
    <3>2. minted[t] = 0
      <4>1. AskedOnce(t) /\ minted[t] \in Nat
        BY <1>1 DEF IInv, DataOK
      <4> QED BY <2>1, <2>3, <4>1 DEF AskedOnce, Unregistered
    <3>3. minted' = [minted EXCEPT ![t] = @ + 1]
      BY <2>3 DEF Rearm
    <3> QED BY <1>1, <2>1, <3>1, <3>2, <3>3
            DEF AskedOnce, Unregistered, Entering, DataOK
  <2> QED BY <1>17, <2>2, <2>3 DEF RegisterPendingPlan
<1>18. ASSUME NEW t \in Turns, WriteAnswer(t)
      PROVE  AskedOnce(u)'
    BY <1>1, <1>18, ChatAssumption DEF WriteAnswer, PutAnswer, file, Goto,
       Fault, FreeSlot, NoGen, tables, graph, requests, AskedOnce, Admitted,
       Entering, Unregistered, DataOK, ThreadOK, Turns
<1>19. ASSUME NEW t \in Turns, Deliver(t)
      PROVE  AskedOnce(u)'
    BY <1>1, <1>19, ChatAssumption DEF Deliver, FreeSlot, NoGen, Fault, Goto,
       graph, file, requests, history, AskedOnce, Admitted, Entering,
       Unregistered, DataOK, ThreadOK, Turns
<1>20. ASSUME NEW t \in Turns, Abort(t)
      PROVE  AskedOnce(u)'
    BY <1>1, <1>20, ChatAssumption DEF Abort, FreeSlot, NoGen, Fault, Goto,
       tables, graph, file, requests, history, AskedOnce, Admitted, Entering,
       Unregistered, DataOK, ThreadOK, Turns
<1>21. ASSUME NEW gen \in 1 .. row.gen, Reject(gen)
      PROVE  AskedOnce(u)'
    BY <1>1, <1>21, ChatAssumption DEF Reject, graph, file, thread, history,
       AskedOnce, Admitted, Entering, Unregistered, DataOK, ThreadOK, Turns
<1>22. CASE RejectCheck
    BY <1>1, <1>22, ChatAssumption DEF RejectCheck, NoReject, NoGen, graph,
       file, thread, history, AskedOnce, Admitted, Entering, Unregistered,
       DataOK, ThreadOK, Turns
<1>23. CASE RejectLine
    BY <1>1, <1>23, ChatAssumption DEF RejectLine, NoReject, NoGen, Fault,
       graph, thread, AskedOnce, Admitted, Entering, Unregistered, DataOK,
       ThreadOK, Turns
<1>24. CASE Lapse
    BY <1>1, <1>24, ChatAssumption DEF Lapse, graph, file, thread, requests,
       history, AskedOnce, Admitted, Entering, Unregistered, DataOK, ThreadOK,
       Turns
<1>25. CASE Crash
    BY <1>1, <1>25, ChatAssumption DEF Crash, FreeSlot, NoGen, NoReject,
       tables, graph, AskedOnce, Admitted, Entering, Unregistered, DataOK,
       ThreadOK, Turns
<1> QED
    BY <1>2, <1>3, <1>4, <1>5, <1>6, <1>7, <1>8, <1>9, <1>10, <1>11, <1>12,
       <1>13, <1>14, <1>15, <1>16, <1>17, <1>18, <1>19, <1>20, <1>21, <1>22,
       <1>23, <1>24, <1>25 DEF Next, Step, TurnStep

\* Every step keeps Answered.
LEMMA AnsweredStep ==
    ASSUME IInv, Next, NEW u \in Turns
    PROVE  Answered(u)'
<1>1. DataOK /\ ThreadOK /\ RequestsOK /\ TornKnown /\ Admitted(u) /\ Answered(u)
    BY TypeParts DEF IInv
<1>2. ASSUME NEW t \in Turns, Ask(t)
      PROVE  Answered(u)'
    BY <1>1, <1>2, ChatAssumption DEF Ask, Fresh, ReserveSlot, NoGen, tables,
       graph, file, requests, history, Answered, TornKnown, Admitted, Entering,
       Unregistered, Unanswered, DataOK, ThreadOK, Turns
<1>3. ASSUME NEW t \in Turns, AppendUser(t)
      PROVE  Answered(u)'
    BY <1>1, <1>3, ChatAssumption DEF AppendUser, Goto, Fault, FreeSlot,
       NoGen, tables, graph, requests, history, Answered, TornKnown, Admitted,
       Entering, Unregistered, Unanswered, DataOK, ThreadOK, Turns
<1>4. ASSUME NEW t \in Turns, Admit(t)
      PROVE  Answered(u)'
    BY <1>1, <1>4, ChatAssumption DEF Admit, Goto, Fault, FreeSlot, NoGen,
       graph, file, requests, history, Answered, TornKnown, Admitted, Entering,
       Unregistered, Unanswered, DataOK, ThreadOK, Turns
<1>5. ASSUME NEW t \in Turns, NEW gen \in 1 .. row.gen, Approve(t, gen)
      PROVE  Answered(u)'
    BY <1>1, <1>5, ChatAssumption DEF Approve, Fresh, ReserveSlot, tables,
       graph, file, requests, history, Answered, TornKnown, Admitted, Entering,
       Unregistered, Unanswered, DataOK, ThreadOK, Turns
<1>6. ASSUME NEW t \in Turns, AdmitApproved(t)
      PROVE  Answered(u)'
    BY <1>1, <1>6, ChatAssumption DEF AdmitApproved, Goto, FreeSlot, NoGen,
       tables, graph, file, requests, Answered, TornKnown, Admitted, Entering,
       Unregistered, Unanswered, DataOK, ThreadOK, Turns
<1>7. ASSUME NEW t \in Turns, ReadResumable(t)
      PROVE  Answered(u)'
    BY <1>1, <1>7, ChatAssumption DEF ReadResumable, tables, graph, file,
       thread, history, Answered, TornKnown, Admitted, Entering, Unregistered,
       Unanswered, DataOK, ThreadOK, Turns
<1>8. ASSUME NEW t \in Turns, ResumeTurn(t)
      PROVE  Answered(u)'
    BY <1>1, <1>8, ChatAssumption DEF ResumeTurn, ReserveSlot, NoGen, thread,
       tables, graph, file, history, Answered, TornKnown, Admitted, Entering,
       Unregistered, Unanswered, DataOK, ThreadOK, Turns
<1>9. ASSUME NEW t \in Turns, Begin(t)
      PROVE  Answered(u)'
    BY <1>1, <1>9, ChatAssumption DEF Begin, Goto, Fault, graph, file,
       requests, history, Answered, TornKnown, Admitted, Entering, Unregistered,
       Unanswered, DataOK, ThreadOK, Turns
<1>10. ASSUME NEW t \in Turns, EnterEffect(t)
      PROVE  Answered(u)'
    BY <1>1, <1>10, ChatAssumption DEF EnterEffect, Goto, BlockTurn, FreeSlot,
       NoGen, file, requests, history, Answered, TornKnown, Admitted, Entering,
       Unregistered, Unanswered, DataOK, ThreadOK, Turns
<1>11. ASSUME NEW t \in Turns, CallEffect(t)
      PROVE  Answered(u)'
    BY <1>1, <1>11, ChatAssumption DEF CallEffect, Goto, Fault, BlockTurn,
       FreeSlot, NoGen, graph, file, requests, Answered, TornKnown, Admitted,
       Entering, Unregistered, Unanswered, DataOK, ThreadOK, Turns
<1>12. ASSUME NEW t \in Turns, NEW result \in {"answer", "plan"},
             RecordEffect(t, result)
      PROVE  Answered(u)'
    BY <1>1, <1>12, ChatAssumption DEF RecordEffect, Goto, tables, file,
       requests, history, Answered, TornKnown, Admitted, Entering, Unregistered,
       Unanswered, DataOK, ThreadOK, Turns
<1>13. ASSUME NEW t \in Turns, ExecutionFails(t)
      PROVE  Answered(u)'
    BY <1>1, <1>13, ChatAssumption DEF ExecutionFails, Fault, FreeSlot, NoGen,
       tables, graph, file, requests, history, Answered, TornKnown, Admitted,
       Entering, Unregistered, Unanswered, DataOK, ThreadOK, Turns
<1>14. CASE CancelTurn
    BY <1>1, <1>14, ChatAssumption DEF CancelTurn, tables, graph, file,
       requests, history, Answered, TornKnown, Admitted, Entering, Unregistered,
       Unanswered, DataOK, ThreadOK, Turns
<1>15. ASSUME NEW t \in Turns, Checkpoint(t)
      PROVE  Answered(u)'
    BY <1>1, <1>15, ChatAssumption DEF Checkpoint, Goto, tables, graph, file,
       requests, history, Answered, TornKnown, Admitted, Entering, Unregistered,
       Unanswered, DataOK, ThreadOK, Turns
<1>16. ASSUME NEW t \in Turns, Settle(t)
      PROVE  Answered(u)'
    BY <1>1, <1>16, ChatAssumption DEF Settle, tables, graph, file, requests,
       history, Answered, TornKnown, Admitted, Entering, Unregistered,
       Unanswered, DataOK, ThreadOK, Turns
<1>17. ASSUME NEW t \in Turns, RegisterPendingPlan(t)
      PROVE  Answered(u)'
    BY <1>1, <1>17, ChatAssumption DEF RegisterPendingPlan, Rearm, Goto,
       graph, file, requests, Answered, TornKnown, Admitted, Entering,
       Unregistered, Unanswered, DataOK, ThreadOK, Turns
<1>18. ASSUME NEW t \in Turns, WriteAnswer(t)
      PROVE  Answered(u)'
  <2>1. /\ slot = t /\ at = "write" /\ UNCHANGED <<exec, tore>>
        /\ \/ slot' = Nobody /\ revived' = revived
           \/ /\ slot' = t /\ at' = "deliver"
              /\ revived' = IF recovering THEN revived \cup {t} ELSE revived
    BY <1>18 DEF WriteAnswer, FreeSlot, Goto, tables
  <2>2. PutAnswer(t) \/ (UNCHANGED file /\ slot' = Nobody)
    BY <1>18 DEF WriteAnswer, FreeSlot
  <2>3. CASE u = t
    <3>1. answers[t] \in Nat /\ answers[t] <= 1 /\ t # Nobody
      BY <1>1, <2>3, ChatAssumption DEF Answered, DataOK, Turns
    <3>2. slot' = t => at' = "deliver"
      BY <2>1, <3>1
    <3>3. CASE UNCHANGED file /\ slot' = Nobody
      BY <1>1, <2>1, <2>3, <3>1, <3>3 DEF file, Answered
    <3>4. CASE answers'[t] = 1
      BY <2>3, <3>1, <3>2, <3>4 DEF Answered, Unanswered, Unregistered, Entering
    <3>5. CASE PutAnswer(t) /\ answers'[t] # 1
      <4>1. ~recovering => answers[t] = 0
        BY <1>1, <2>1, <2>3 DEF Answered, Unanswered
      <4>2. torn /\ ~recovering /\ answers' = answers
        BY <1>1, <3>1, <3>5, <4>1 DEF PutAnswer, file, DataOK
      <4>3. tore' /\ answers'[t] = 0 /\ revived' = revived
        BY <1>1, <2>1, <4>1, <4>2 DEF TornKnown
      <4>4. ~(t \in revived)
        BY <1>1, <2>3, <4>1, <4>2 DEF Answered
      <4> QED BY <2>3, <3>2, <4>3, <4>4
              DEF Answered, Unanswered, Unregistered, Entering
    <3> QED BY <2>2, <3>3, <3>4, <3>5
  <2>4. CASE u # t
    BY <1>1, <2>1, <2>2, <2>4, ChatAssumption
       DEF PutAnswer, file, Answered, DataOK, Turns
  <2> QED BY <2>3, <2>4
<1>19. ASSUME NEW t \in Turns, Deliver(t)
      PROVE  Answered(u)'
    BY <1>1, <1>19, ChatAssumption DEF Deliver, FreeSlot, NoGen, Fault, Goto,
       graph, file, requests, history, Answered, TornKnown, Admitted, Entering,
       Unregistered, Unanswered, DataOK, ThreadOK, Turns
<1>20. ASSUME NEW t \in Turns, Abort(t)
      PROVE  Answered(u)'
    BY <1>1, <1>20, ChatAssumption DEF Abort, FreeSlot, NoGen, Fault, Goto,
       tables, graph, file, requests, history, Answered, TornKnown, Admitted,
       Entering, Unregistered, Unanswered, DataOK, ThreadOK, Turns
<1>21. ASSUME NEW gen \in 1 .. row.gen, Reject(gen)
      PROVE  Answered(u)'
    BY <1>1, <1>21, ChatAssumption DEF Reject, graph, file, thread, history,
       Answered, TornKnown, Admitted, Entering, Unregistered, Unanswered, DataOK,
       ThreadOK, Turns
<1>22. CASE RejectCheck
    BY <1>1, <1>22, ChatAssumption DEF RejectCheck, NoReject, NoGen, graph,
       file, thread, history, Answered, TornKnown, Admitted, Entering,
       Unregistered, Unanswered, DataOK, ThreadOK, Turns
<1>23. CASE RejectLine
    BY <1>1, <1>23, ChatAssumption DEF RejectLine, NoReject, NoGen, Fault,
       graph, thread, Answered, TornKnown, Admitted, Entering, Unregistered,
       Unanswered, DataOK, ThreadOK, Turns
<1>24. CASE Lapse
    BY <1>1, <1>24, ChatAssumption DEF Lapse, graph, file, thread, requests,
       history, Answered, TornKnown, Admitted, Entering, Unregistered,
       Unanswered, DataOK, ThreadOK, Turns
<1>25. CASE Crash
    BY <1>1, <1>25, ChatAssumption DEF Crash, FreeSlot, NoGen, NoReject,
       tables, graph, Answered, TornKnown, Admitted, Entering, Unregistered,
       Unanswered, DataOK, ThreadOK, Turns
<1> QED
    BY <1>2, <1>3, <1>4, <1>5, <1>6, <1>7, <1>8, <1>9, <1>10, <1>11, <1>12,
       <1>13, <1>14, <1>15, <1>16, <1>17, <1>18, <1>19, <1>20, <1>21, <1>22,
       <1>23, <1>24, <1>25 DEF Next, Step, TurnStep

\* A torn line is known to be one.
LEMMA TornStep ==
    ASSUME IInv, Next
    PROVE  TornKnown'
<1>1. TornKnown
    BY DEF IInv
<1>2. ASSUME NEW t \in Turns,
             \/ Ask(t) \/ Admit(t)
             \/ \E gen \in 1 .. row.gen : Approve(t, gen)
             \/ AdmitApproved(t) \/ ReadResumable(t) \/ ResumeTurn(t)
             \/ Begin(t) \/ EnterEffect(t) \/ CallEffect(t)
             \/ \E result \in {"answer", "plan"} : RecordEffect(t, result)
             \/ ExecutionFails(t) \/ Checkpoint(t) \/ Settle(t)
             \/ RegisterPendingPlan(t) \/ Deliver(t) \/ Abort(t)
      PROVE  UNCHANGED <<torn, tore>>
    BY <1>2 DEF Ask, Admit, Approve, AdmitApproved, ReadResumable, ResumeTurn,
       Begin, EnterEffect, CallEffect, RecordEffect, ExecutionFails, Checkpoint,
       Settle, RegisterPendingPlan, Deliver, Abort, tables, graph, file,
       requests, history, thread
<1>3. ASSUME \/ CancelTurn
             \/ \E gen \in 1 .. row.gen : Reject(gen)
             \/ RejectCheck \/ Lapse
      PROVE  UNCHANGED <<torn, tore>>
    BY <1>3 DEF CancelTurn, Reject, RejectCheck, Lapse, tables, graph, file,
       requests, history, thread
<1>4. CASE UNCHANGED <<torn, tore>>
    BY <1>1, <1>4 DEF TornKnown
<1>5. ASSUME NEW t \in Turns, AppendUser(t)
      PROVE  TornKnown'
    BY <1>1, <1>5 DEF AppendUser, Goto, Fault, FreeSlot, NoGen, tables, graph,
       requests, history, TornKnown
<1>6. ASSUME NEW t \in Turns, WriteAnswer(t)
      PROVE  TornKnown'
    BY <1>1, <1>6 DEF WriteAnswer, PutAnswer, file, Goto, Fault, FreeSlot,
       NoGen, tables, graph, requests, TornKnown
<1>7. CASE RejectLine
    BY <1>1, <1>7 DEF RejectLine, NoReject, NoGen, Fault, graph, thread,
       TornKnown
<1>8. CASE Crash
    BY <1>1, <1>8 DEF Crash, FreeSlot, NoGen, NoReject, tables, graph,
       TornKnown
<1> QED
    BY <1>2, <1>3, <1>4, <1>5, <1>6, <1>7, <1>8 DEF Next, Step, TurnStep

\* Every step keeps Approvals, and with it that an approval starts one turn.
LEMMA ApprovalStep ==
    ASSUME IInv, Next
    PROVE  (~overlap => Approvals)' /\ ApprovalStartsOnce'
<1>1. DataOK /\ RequestsOK /\ RowOK /\ RowCounts /\ (~overlap => Approvals)
      /\ ApprovalStartsOnce
    BY TypeParts DEF IInv
<1>2. ASSUME NEW t \in Turns,
             \/ Ask(t) \/ AppendUser(t) \/ Admit(t)
             \/ \E gen \in 1 .. row.gen : Approve(t, gen)
             \/ ReadResumable(t) \/ ResumeTurn(t) \/ Begin(t)
             \/ EnterEffect(t) \/ CallEffect(t)
             \/ \E result \in {"answer", "plan"} : RecordEffect(t, result)
             \/ ExecutionFails(t) \/ Checkpoint(t) \/ Settle(t)
             \/ WriteAnswer(t) \/ Deliver(t) \/ Abort(t)
      PROVE  UNCHANGED <<row, reject, starts, refused, overlap>>
    BY <1>2 DEF Ask, AppendUser, Admit, Approve, ReadResumable, ResumeTurn,
       Begin, EnterEffect, CallEffect, RecordEffect, ExecutionFails, Checkpoint,
       Settle, WriteAnswer, Deliver, Abort, tables, graph, file, requests,
       history, thread
<1>3. ASSUME CancelTurn
      PROVE  UNCHANGED <<row, reject, starts, refused, overlap>>
    BY <1>3 DEF CancelTurn, tables, graph, file, requests, history
<1>4. CASE UNCHANGED <<row, reject, starts, refused, overlap>>
    BY <1>1, <1>4 DEF Approvals, RowCounts, ApprovalStartsOnce, Unused, NoGen,
       DataOK, RequestsOK, RowOK, Rows
<1>5. ASSUME NEW t \in Turns, AdmitApproved(t)
      PROVE  (~overlap => Approvals)' /\ ApprovalStartsOnce'
    BY <1>1, <1>5, ConsumedRow DEF AdmitApproved, Open, Goto, FreeSlot, NoGen,
       tables, graph, file, requests, Approvals, RowCounts, ApprovalStartsOnce,
       Unused, DataOK, RequestsOK, RowOK, Rows
<1>6. ASSUME NEW t \in Turns, RegisterPendingPlan(t)
      PROVE  (~overlap => Approvals)' /\ ApprovalStartsOnce'
  <2>1. UNCHANGED <<reject, starts, refused>>
    BY <1>6 DEF RegisterPendingPlan, requests
  <2>2. CASE UNCHANGED <<row, overlap>>
    BY <1>4, <2>1, <2>2
  <2>3. CASE Rearm(t)
    <3>1. ~overlap' => ~overlap /\ reject.at = "idle"
      BY <2>3 DEF Rearm
    <3>2. row'.status = "pending" /\ row'.gen = row.gen + 1
      BY <1>1, <2>3, ArmedRow DEF Rearm
    <3>3. row.gen \in Nat
      BY <1>1 DEF RowOK, Rows
    <3>4. (~overlap => Approvals)'
      BY <1>1, <2>1, <3>1, <3>2, <3>3 DEF Approvals, Unused, DataOK, RequestsOK
    <3> QED BY <1>1, <2>1, <3>1, <3>4 DEF ApprovalStartsOnce
  <2> QED BY <1>6, <2>2, <2>3 DEF RegisterPendingPlan
<1>7. ASSUME NEW gen \in 1 .. row.gen, Reject(gen)
      PROVE  (~overlap => Approvals)' /\ ApprovalStartsOnce'
    BY <1>1, <1>7, ConsumedRow DEF Reject, Open, graph, file, thread, history,
       Approvals, RowCounts, ApprovalStartsOnce, Unused, NoGen, DataOK,
       RequestsOK, RowOK, Rows
<1>8. CASE RejectCheck
    BY <1>1, <1>8, RestoredRow DEF RejectCheck, NoReject, NoGen, graph, file,
       thread, history, Approvals, RowCounts, ApprovalStartsOnce, Unused, DataOK,
       RequestsOK, RowOK, Rows
<1>9. CASE RejectLine
  <2>1. reject.at = "line" /\ reject'.at = "idle" /\ UNCHANGED <<starts, overlap>>
    BY <1>9 DEF RejectLine, NoReject
  <2>2. CASE refused' = refused \cup {reject.gen} /\ row' = row
    BY <1>1, <2>1, <2>2
       DEF Approvals, ApprovalStartsOnce, RowCounts, Unused, DataOK, RowOK, Rows
  <2>3. CASE refused' = refused /\ row' \in {row, Restored(row)}
    <3>1. row'.gen = row.gen
      BY <1>1, <2>3, RestoredRow
    <3> QED BY <1>1, <2>1, <2>3, <3>1 DEF Approvals, ApprovalStartsOnce, Unused
  <2> QED BY <1>9, <2>2, <2>3 DEF RejectLine
<1>10. CASE Lapse
    BY <1>1, <1>10, LapsedRow DEF Lapse, graph, file, thread, requests,
       history, Approvals, RowCounts, ApprovalStartsOnce, Unused, NoGen, DataOK,
       RequestsOK, RowOK, Rows
<1>11. CASE Crash
    BY <1>1, <1>11 DEF Crash, FreeSlot, NoGen, NoReject, tables, graph,
       Approvals, RowCounts, ApprovalStartsOnce, Unused, DataOK, RequestsOK,
       RowOK, Rows
<1> QED
    BY <1>2, <1>3, <1>4, <1>5, <1>6, <1>7, <1>8, <1>9, <1>10, <1>11 DEF Next,
       Step, TurnStep

-----------------------------------------------------------------------------
(* Theorems *)

\* The invariant holds at first, and every step keeps it.
LEMMA InitHolds == Init => IInv
<1> SUFFICES ASSUME Init PROVE IInv
  OBVIOUS
<1>1. TypeOK
  BY ChatAssumption
     DEF Init, TypeOK, Rows, Statuses, NoRow, NoReject, NoGen, Places, Ended, Turns
<1>2. \A t \in Turns : Admitted(t) /\ EffectAgrees(t) /\ AskedOnce(t) /\ Answered(t)
  BY ChatAssumption
     DEF Init, Admitted, EffectAgrees, AskedOnce, Answered, NoRow, Turns
<1>3. TornKnown /\ RowCounts /\ Approvals /\ ApprovalStartsOnce
  BY DEF Init, TornKnown, RowCounts, Approvals, Unused, ApprovalStartsOnce,
     NoRow, NoReject, NoGen
<1> QED BY <1>1, <1>2, <1>3 DEF IInv

LEMMA StepHolds == IInv /\ [Next]_vars => IInv'
<1>1. ASSUME IInv, Next PROVE IInv'
  <2>1. TypeOK'
    BY <1>1, TypeParts, ThreadStep, FlagsStep, CountsStep, RequestsStep,
       DataStep, RowStep
  <2>2. \A t \in Turns : /\ Admitted(t)' /\ EffectAgrees(t)'
                         /\ AskedOnce(t)' /\ Answered(t)'
    BY <1>1, AdmittedStep, EffectStep, AskedStep, AnsweredStep
  <2>3. TornKnown' /\ RowCounts' /\ (~overlap => Approvals)' /\ ApprovalStartsOnce'
    BY <1>1, TornStep, RowStep, ApprovalStep
  <2> QED BY <2>1, <2>2, <2>3 DEF IInv, Turns
<1>2. ASSUME IInv, UNCHANGED vars PROVE IInv'
  <2>1. UNCHANGED <<env, exec, kind, row, effect, reply, answers, torn, slot, at,
                    recovering, stop, verdict, token, resume, reject, sent,
                    minted, starts, refused, revived, overlap, tore, crashes,
                    faults>>
    BY <1>2 DEF vars, tables, graph, file, thread, requests, history
  <2>2. TypeOK'
    BY <1>2, <2>1 DEF IInv, TypeOK
  <2>3. \A t \in Turns : /\ Admitted(t)' /\ EffectAgrees(t)'
                         /\ AskedOnce(t)' /\ Answered(t)'
    BY <1>2, <2>1 DEF IInv, Admitted, EffectAgrees, AskedOnce, Answered
  <2>4. TornKnown' /\ RowCounts' /\ (~overlap => Approvals)' /\ ApprovalStartsOnce'
    BY <1>2, <2>1 DEF IInv, TornKnown, RowCounts, Approvals, Unused,
       ApprovalStartsOnce
  <2> QED BY <2>2, <2>3, <2>4 DEF IInv, Turns
<1> QED BY <1>1, <1>2

\* The invariant is inductive: it holds in every reachable state.
THEOREM TurnsInductive == Spec => []IInv
  BY InitHolds, StepHolds, PTL DEF Spec

\* The variables of the chat service keep their types.
THEOREM TurnsTypeCorrect == Spec => []TypeOK
<1>1. IInv => TypeOK
  BY DEF IInv
<1> QED BY <1>1, TurnsInductive, PTL

\* However often send_message, resume_turn and crashes alternate, the transcript
\* holds at most one answer to a turn, and one when the turn was delivered.
THEOREM TurnsAnswered == Spec => []AnsweredOnce
<1>1. IInv => AnsweredOnce
  BY DEF IInv, Answered, AnsweredOnce
<1> QED BY <1>1, TurnsInductive, PTL

\* _register_pending_plan asks the user at most once for one turn.
THEOREM TurnsAsk == Spec => []AsksOnce
<1>1. IInv => AsksOnce
  BY DEF IInv, AskedOnce, AsksOnce
<1> QED BY <1>1, TurnsInductive, PTL

\* One approval starts one turn, and a refused plan starts none, unless a plan
\* was proposed while a reject was in flight.
THEOREM TurnsApprovals == Spec => []ApprovalStartsOnce
<1>1. IInv => ApprovalStartsOnce
  BY DEF IInv
<1> QED BY <1>1, TurnsInductive, PTL

-----------------------------------------------------------------------------
(* The graph of a turn implements EffectOnce *)

Known == [t \in Turns |-> kind[t] = "question" /\ effect[t] = "done"]

GuardedMove == Guarded!Next \/ UNCHANGED <<sent, Known>>

\* A step issues a request that was never issued, records an answer to one that
\* was, or shows neither.
LEMMA GuardedStep ==
    ASSUME IInv, Next
    PROVE  GuardedMove
<1>1. DataOK /\ ThreadOK /\ \A t \in Turns : Admitted(t) /\ EffectAgrees(t)
    BY TypeParts DEF IInv
<1>2. ASSUME NEW t \in Turns,
             \/ Ask(t) \/ AppendUser(t) \/ Admit(t)
             \/ \E gen \in 1 .. row.gen : Approve(t, gen)
             \/ ReadResumable(t) \/ ResumeTurn(t) \/ Begin(t)
             \/ ExecutionFails(t) \/ Checkpoint(t) \/ Settle(t)
             \/ RegisterPendingPlan(t) \/ WriteAnswer(t) \/ Deliver(t)
             \/ Abort(t)
      PROVE  UNCHANGED <<sent, kind, effect>>
    BY <1>2 DEF Ask, AppendUser, Admit, Approve, ReadResumable, ResumeTurn,
       Begin, ExecutionFails, Checkpoint, Settle, RegisterPendingPlan,
       WriteAnswer, Deliver, Abort, tables, graph, file, requests, history,
       thread
<1>3. ASSUME \/ CancelTurn
             \/ \E gen \in 1 .. row.gen : Reject(gen)
             \/ RejectCheck \/ RejectLine \/ Lapse \/ Crash
      PROVE  UNCHANGED <<sent, kind, effect>>
    BY <1>3 DEF CancelTurn, Reject, RejectCheck, RejectLine, Lapse, Crash,
       tables, graph, file, requests, history, thread
<1>4. CASE UNCHANGED <<sent, kind, effect>>
    BY <1>1, <1>4 DEF GuardedMove, Known
<1>5. ASSUME NEW t \in Turns, AdmitApproved(t)
      PROVE  GuardedMove
  <2>1. /\ UNCHANGED <<sent, effect>>
        /\ kind' \in {kind, [kind EXCEPT ![t] = "approved"]}
    BY <1>5 DEF AdmitApproved, graph, tables
  <2>2. effect[t] = "none"
    BY <1>1, <1>5 DEF AdmitApproved, Admitted, Entering
  <2>3. Known' = Known
    BY <1>1, <2>1, <2>2 DEF Known, DataOK
  <2> QED BY <2>1, <2>3 DEF GuardedMove
<1>6. ASSUME NEW t \in Turns, EnterEffect(t)
      PROVE  GuardedMove
  <2>1. UNCHANGED <<sent, kind>>
    BY <1>6 DEF EnterEffect, history
  <2>2. effect' = effect \/ (effect' = [effect EXCEPT ![t] = "pending"]
                             /\ effect[t] # "done")
    BY <1>1, <1>6 DEF EnterEffect, DataOK
  <2>3. Known' = Known
    BY <1>1, <2>1, <2>2 DEF Known, DataOK
  <2> QED BY <2>1, <2>3 DEF GuardedMove
<1>7. ASSUME NEW t \in Turns, CallEffect(t)
      PROVE  GuardedMove
  <2>1. UNCHANGED <<kind, effect>> /\ slot = t /\ at = "call"
    BY <1>7 DEF CallEffect, graph
  <2>2. Known' = Known
    BY <2>1 DEF Known
  <2>3. CASE kind[t] = "question"
    <3>1. sent[t] = 0 /\ sent' = [sent EXCEPT ![t] = @ + 1]
      BY <1>1, <1>7, <2>1, <2>3 DEF CallEffect, EffectAgrees
    <3>2. sent' = [sent EXCEPT ![t] = 1]
      BY <1>1, <3>1 DEF DataOK
    <3>3. Guarded!Send(t)
      BY <2>2, <3>1, <3>2 DEF Guarded!Send, Known
    <3> QED BY <3>3 DEF Guarded!Next, GuardedMove
  <2>4. CASE kind[t] # "question"
    BY <1>7, <2>2, <2>4 DEF CallEffect, GuardedMove
  <2> QED BY <2>3, <2>4
<1>8. ASSUME NEW t \in Turns, NEW result \in {"answer", "plan"},
             RecordEffect(t, result)
      PROVE  GuardedMove
  <2>1. UNCHANGED <<sent, kind>> /\ effect' = [effect EXCEPT ![t] = "done"]
        /\ slot = t /\ at = "record"
    BY <1>8 DEF RecordEffect, tables, history
  <2>2. CASE kind[t] = "question"
    <3>1. sent[t] = 1 /\ effect[t] = "pending"
      BY <1>1, <2>1, <2>2 DEF EffectAgrees
    <3>2. ~Known[t] /\ Known' = [Known EXCEPT ![t] = TRUE]
      BY <1>1, <2>1, <2>2, <3>1 DEF Known, DataOK
    <3>3. Guarded!Learn(t)
      BY <2>1, <3>1, <3>2 DEF Guarded!Learn, Known
    <3> QED BY <3>3 DEF Guarded!Next, GuardedMove
  <2>3. CASE kind[t] # "question"
    <3>1. Known' = Known
      BY <1>1, <2>1, <2>3 DEF Known, DataOK
    <3> QED BY <2>1, <3>1 DEF GuardedMove
  <2> QED BY <2>2, <2>3
<1> QED
    BY <1>2, <1>3, <1>4, <1>5, <1>6, <1>7, <1>8 DEF Next, Step, TurnStep

\* The requests of all turns, across every crash and resume, behave as EffectOnce
\* allows: none is issued twice and no recorded answer is lost.
THEOREM TurnsGuarded == Spec => GuardedEffects
<1>1. Init => Guarded!Init
  BY DEF Init, Guarded!Init
<1>2. IInv /\ [Next]_vars => [Guarded!Next]_<<sent, Known>>
  <2>1. ASSUME IInv, Next PROVE [Guarded!Next]_<<sent, Known>>
    BY <2>1, GuardedStep DEF GuardedMove
  <2>2. ASSUME UNCHANGED vars PROVE UNCHANGED <<sent, Known>>
    BY <2>2 DEF vars, tables, graph, history, Known
  <2> QED BY <2>1, <2>2
<1> QED BY <1>1, <1>2, TurnsInductive, PTL
        DEF Spec, GuardedEffects, Guarded!Spec, Known
=============================================================================
