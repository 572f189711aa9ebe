------------------------ MODULE JobLifecycleProofs ------------------------
(* Proofs about JobLifecycle, for every set of jobs and sessions and every  *)
(* value of the bounds.                                                     *)
EXTENDS JobLifecycle, TLAPS

USE DEF Terminal, Launched, Active, Statuses

(***************************************************************************)
(* The updates the transactions make to a row give a row.                   *)
(***************************************************************************)
LEMMA RowUpdates ==
    ASSUME NEW r \in Rows
    PROVE  /\ \A st \in Statuses :
                 /\ [r EXCEPT !.status = st] \in Rows
                 /\ [r EXCEPT !.status = st, !.version = @ + 1,
                              !.lease = TRUE] \in Rows
                 /\ [r EXCEPT !.status = st, !.version = @ + 1,
                              !.acked = FALSE, !.lease = TRUE] \in Rows
                 /\ [r EXCEPT !.status = st, !.version = @ + 1,
                              !.lease = FALSE, !.depth = 0] \in Rows
                 /\ \A d \in BOOLEAN :
                       [r EXCEPT !.status = st, !.version = @ + 1,
                                 !.cancel = TRUE, !.due = d] \in Rows
           /\ \A b \in BOOLEAN : [r EXCEPT !.lease = b] \in Rows
           /\ [r EXCEPT !.due = TRUE] \in Rows
           /\ [r EXCEPT !.fence = "committed"] \in Rows
           /\ [r EXCEPT !.acked = TRUE, !.version = @ + 1] \in Rows
           /\ [r EXCEPT !.depth = @ + 1, !.version = @ + 1] \in Rows
           /\ r.depth > 0 =>
                 [r EXCEPT !.depth = @ - 1, !.version = @ + 1] \in Rows
<1>1. /\ r.version + 1 \in Nat
      /\ r.depth + 1 \in Nat
      /\ r.depth > 0 => r.depth - 1 \in Nat
  BY DEF Rows
<1>2. ASSUME NEW st \in Statuses
      PROVE  /\ [r EXCEPT !.status = st] \in Rows
             /\ [r EXCEPT !.status = st, !.version = @ + 1,
                          !.lease = TRUE] \in Rows
             /\ [r EXCEPT !.status = st, !.version = @ + 1,
                          !.acked = FALSE, !.lease = TRUE] \in Rows
             /\ [r EXCEPT !.status = st, !.version = @ + 1,
                          !.lease = FALSE, !.depth = 0] \in Rows
  BY <1>1 DEF Rows
<1>3. ASSUME NEW st \in Statuses, NEW d \in BOOLEAN
      PROVE  [r EXCEPT !.status = st, !.version = @ + 1,
                       !.cancel = TRUE, !.due = d] \in Rows
  BY <1>1 DEF Rows
<1>4. /\ \A b \in BOOLEAN : [r EXCEPT !.lease = b] \in Rows
      /\ [r EXCEPT !.due = TRUE] \in Rows
      /\ [r EXCEPT !.fence = "committed"] \in Rows
  BY DEF Rows
<1>5. [r EXCEPT !.acked = TRUE, !.version = @ + 1] \in Rows
  BY <1>1 DEF Rows
<1>6. [r EXCEPT !.depth = @ + 1, !.version = @ + 1] \in Rows
  BY <1>1 DEF Rows
<1>7. r.depth > 0 => [r EXCEPT !.depth = @ - 1, !.version = @ + 1] \in Rows
  BY <1>1 DEF Rows
<1> QED
  BY <1>2, <1>3, <1>4, <1>5, <1>6, <1>7

LEMMA WriteType ==
    ASSUME row \in [Jobs -> Rows], NEW j \in Jobs, NEW r \in Rows, Write(j, r)
    PROVE  row' \in [Jobs -> Rows]
  BY DEF Write

(***************************************************************************)
(* Close, the transaction that ends a job, keeps the three tables typed.    *)
(***************************************************************************)
LEMMA CloseType ==
    ASSUME TypeOK, NEW j \in Jobs, NEW from, NEW wanted \in Terminal,
           Close(j, from, wanted)
    PROVE  /\ row' \in [Jobs -> Rows]
           /\ owner' \in [Sessions -> Jobs \cup {NoJob}]
           /\ sessionStatus' \in [Sessions -> SessionStatuses]
<1>0. row \in [Jobs -> Rows] /\ row[j] \in Rows
  BY DEF TypeOK
<1> DEFINE s == home[j].session
           effective == IF row[j].status = "cancelling" THEN "cancelled"
                                                        ELSE wanted
<1>1. effective \in Terminal
  OBVIOUS
<1>2. CASE row[j].status \in from /\ owner[s] = j
  <2>1. /\ Write(j, [row[j] EXCEPT !.status = effective,
                                   !.version = @ + 1,
                                   !.lease = FALSE, !.depth = 0])
        /\ owner' = [owner EXCEPT ![s] = NoJob]
        /\ sessionStatus' = [sessionStatus EXCEPT ![s] =
               IF effective = "completed" /\ @ = "limited"
               THEN "limited" ELSE effective]
    BY <1>2 DEF Close
  <2>2. row' \in [Jobs -> Rows]
    BY <1>0, <1>1, <2>1, RowUpdates, WriteType
  <2>3. sessionStatus' \in [Sessions -> SessionStatuses]
    BY <1>1, <2>1 DEF TypeOK, SessionStatuses
  <2> QED
    BY <2>1, <2>2, <2>3 DEF TypeOK
<1>3. CASE ~(row[j].status \in from /\ owner[s] = j)
  BY <1>3 DEF Close, TypeOK
<1> QED
  BY <1>2, <1>3

\* The initial state is well typed.
THEOREM TypeInit == Init => TypeOK
BY DEF Init, TypeOK, NewRow, Rows, SessionStatuses, ProcStates, Results

LEMMA TypeLaunch ==
    ASSUME TypeOK, NEW j \in Jobs,
           LaunchStep(j) \/ (\E p \in Placements : Create(j, p))
    PROVE  TypeOK'
<1>0. row \in [Jobs -> Rows] /\ row[j] \in Rows
  BY DEF TypeOK
<1>1. ASSUME NEW p \in Placements, Create(j, p) PROVE TypeOK'
  <2>0. Write(j, [row[j] EXCEPT !.status = "queued"])
    BY <1>1 DEF Create
  <2>1. row' \in [Jobs -> Rows]
    BY <1>0, <2>0, RowUpdates, WriteType
  <2>2. home' \in [Jobs -> [session : Sessions \cup {NoSession},
                           lane : Sessions \cup {NoSession}]]
    BY <1>1, ConstantsAssumption DEF TypeOK, Create
  <2> QED
    BY <1>1, <2>1, <2>2 DEF TypeOK, Create, SessionStatuses, worker
<1>2. CASE StartSession(j)
  BY <1>2 DEF TypeOK, StartSession, SessionStatuses, worker
<1>3. CASE ClaimLaunch(j)
  <2>1. row' \in [Jobs -> Rows]
    BY <1>0, <1>3, RowUpdates, WriteType DEF ClaimLaunch
  <2> QED
    BY <1>3, <2>1 DEF TypeOK, ClaimLaunch, worker
<1>4. CASE Spawn(j)
  BY <1>4 DEF TypeOK, Spawn, ProcStates, durable
<1>5. CASE AcknowledgeSpawn(j)
  <2>1. row' \in [Jobs -> Rows]
    BY <1>0, <1>5, RowUpdates, WriteType DEF AcknowledgeSpawn
  <2> QED
    BY <1>5, <2>1 DEF TypeOK, AcknowledgeSpawn, worker
<1>6. CASE Release(j)
  BY <1>6 DEF TypeOK, Release, ProcStates, durable
<1>7. CASE LaunchFails(j)
  BY <1>7 DEF TypeOK, LaunchFails, durable
<1>8. CASE Compensate(j)
  BY <1>8, CloseType DEF TypeOK, Compensate, worker
<1>9. CASE DropRelaunch(j)
  BY <1>9 DEF TypeOK, DropRelaunch, durable, worker
<1> QED
  BY <1>1, <1>2, <1>3, <1>4, <1>5, <1>6, <1>7, <1>8, <1>9 DEF LaunchStep

LEMMA TypeWorker ==
    ASSUME TypeOK, NEW j \in Jobs, WorkerStep(j)
    PROVE  TypeOK'
<1>0. row \in [Jobs -> Rows] /\ row[j] \in Rows
  BY DEF TypeOK
<1>1. CASE GateClosed(j)
  BY <1>1 DEF TypeOK, GateClosed, Exit, ProcStates, durable, server
<1>2. CASE ChildStart(j)
  <2>1. /\ row' \in [Jobs -> Rows]
        /\ owner' \in [Sessions -> Jobs \cup {NoJob}]
        /\ sessionStatus' \in [Sessions -> SessionStatuses]
    <3>1. CASE Write(j, [row[j] EXCEPT !.status = "running",
                                       !.version = @ + 1, !.lease = TRUE])
               /\ UNCHANGED <<owner, sessionStatus>>
      <4>1. row' \in [Jobs -> Rows]
        BY <1>0, <3>1, RowUpdates, WriteType
      <4> QED
        BY <3>1, <4>1 DEF TypeOK
    <3>2. CASE Close(j, Launched, "cancelled")
      BY <3>2, CloseType
    <3>3. CASE UNCHANGED <<row, owner, sessionStatus>>
      BY <3>3 DEF TypeOK
    <3> QED
      BY <1>2, <3>1, <3>2, <3>3 DEF ChildStart
  <2>2. proc' \in [Jobs -> ProcStates]
    <3>1. \/ proc' = [proc EXCEPT ![j] = "working"]
          \/ proc' = [proc EXCEPT ![j] = "closing"]
      BY <1>2 DEF ChildStart
    <3> QED
      BY <3>1 DEF TypeOK, ProcStates
  <2> QED
    BY <1>2, <2>1, <2>2 DEF TypeOK, ChildStart, server
<1>3. CASE Heartbeat(j)
  <2>1. row' \in [Jobs -> Rows]
    BY <1>0, <1>3, RowUpdates, WriteType DEF Heartbeat
  <2> QED
    BY <1>3, <2>1 DEF TypeOK, Heartbeat, worker, server
<1>4. CASE EnterShield(j)
  <2>1. row' \in [Jobs -> Rows]
    BY <1>0, <1>4, RowUpdates, WriteType DEF EnterShield
  <2> QED
    BY <1>4, <2>1 DEF TypeOK, EnterShield, ProcStates, Results, server
<1>5. CASE ExitShield(j)
  <2>1. row' \in [Jobs -> Rows]
    BY <1>0, <1>5, RowUpdates, WriteType DEF ExitShield
  <2>2. shields' \in [Jobs -> Nat]
    BY <1>5 DEF TypeOK, ExitShield
  <2>3. proc' \in [Jobs -> ProcStates]
    BY <1>5 DEF TypeOK, ExitShield, ProcStates, Results
  <2> QED
    BY <1>5, <2>1, <2>2, <2>3 DEF TypeOK, ExitShield, server
<1>6. CASE ObserveCancel(j)
  BY <1>6 DEF TypeOK, ObserveCancel, ProcStates, Results, durable, server
<1>7. CASE LoseOwnership(j)
  BY <1>7 DEF TypeOK, LoseOwnership, ProcStates, Results, durable, server
<1>8. CASE HandlerReturns(j)
  BY <1>8 DEF TypeOK, HandlerReturns, ProcStates, Results, durable, server
<1>9. CASE HandlerRaises(j)
  BY <1>9 DEF TypeOK, HandlerRaises, ProcStates, Results, durable, server
<1>10. CASE MarkLimited(j)
  BY <1>10 DEF TypeOK, MarkLimited, SessionStatuses, worker, server
<1>11. CASE WorkerFinish(j)
  BY <1>11, CloseType DEF TypeOK, WorkerFinish, Results, ProcStates, server
<1>12. CASE WorkerExit(j)
  BY <1>12 DEF TypeOK, WorkerExit, Exit, ProcStates, durable, server
<1>13. CASE WorkerCrash(j)
  BY <1>13 DEF TypeOK, WorkerCrash, Exit, ProcStates, durable, server
<1>14. CASE SignalDelivered(j)
  BY <1>14 DEF TypeOK, SignalDelivered, Exit, ProcStates, durable, server
<1> QED
  BY <1>1, <1>2, <1>3, <1>4, <1>5, <1>6, <1>7, <1>8, <1>9, <1>10,
     <1>11, <1>12, <1>13, <1>14
     DEF WorkerStep

LEMMA TypeCancel ==
    ASSUME TypeOK, NEW j \in Jobs,
           CancelQueued(j) \/ CancelLaunched(j) \/ TimeStep(j) \/ KillStep(j)
    PROVE  TypeOK'
<1>0. row \in [Jobs -> Rows] /\ row[j] \in Rows
  BY DEF TypeOK
<1>1. CASE CancelQueued(j)
  <2>1. row' \in [Jobs -> Rows]
    BY <1>0, <1>1, RowUpdates, WriteType DEF CancelQueued
  <2> QED
    BY <1>1, <2>1 DEF TypeOK, CancelQueued, SessionStatuses, worker, server
<1>2. CASE CancelLaunched(j)
  <2>1. row' \in [Jobs -> Rows]
    BY <1>0, <1>2, RowUpdates, WriteType DEF CancelLaunched
  <2> QED
    BY <1>2, <2>1 DEF TypeOK, CancelLaunched, worker
<1>3. CASE LeaseLapses(j)
  <2>1. row' \in [Jobs -> Rows]
    BY <1>0, <1>3, RowUpdates, WriteType DEF LeaseLapses
  <2> QED
    BY <1>3, <2>1 DEF TypeOK, LeaseLapses, worker, server
<1>4. CASE DeadlinePasses(j)
  <2>1. row' \in [Jobs -> Rows]
    BY <1>0, <1>4, RowUpdates, WriteType DEF DeadlinePasses
  <2> QED
    BY <1>4, <2>1 DEF TypeOK, DeadlinePasses, worker, server
<1>5. CASE EscalateCheck(j)
  BY <1>5 DEF TypeOK, EscalateCheck, ProcStates, durable
<1>6. CASE AuthorizeSignal(j)
  <2>1. row' \in [Jobs -> Rows]
    BY <1>0, <1>6, RowUpdates, WriteType DEF AuthorizeSignal
  <2> QED
    BY <1>6, <2>1 DEF TypeOK, AuthorizeSignal, worker
<1>7. CASE SendSignal(j)
  BY <1>7 DEF TypeOK, SendSignal, durable
<1>8. CASE AwaitExit(j)
  BY <1>8 DEF TypeOK, AwaitExit, durable, worker
<1>9. CASE KillFinish(j)
  BY <1>9, CloseType DEF TypeOK, KillFinish, worker
<1> QED
  BY <1>1, <1>2, <1>3, <1>4, <1>5, <1>6, <1>7, <1>8, <1>9
     DEF TimeStep, KillStep

LEMMA TypeReconcile ==
    ASSUME TypeOK, NEW j \in Jobs, ReconcileStep(j) \/ RecoverStep(j)
    PROVE  TypeOK'
<1>0. row \in [Jobs -> Rows] /\ row[j] \in Rows
  BY DEF TypeOK
<1>1. CASE Reap(j)
  BY <1>1 DEF TypeOK, Reap, ProcStates, durable, server
<1>2. CASE Scan(j)
  BY <1>2 DEF TypeOK, Scan, Snapshot, Snaps, Rows, durable, worker
<1>3. CASE ReconcileJob(j)
  BY <1>3, CloseType DEF TypeOK, ReconcileJob, worker
<1>4. CASE RecoverCancelling(j)
  BY <1>4 DEF TypeOK, RecoverCancelling, durable, worker
<1>5. CASE RecoverLaunched(j)
  <2>1. CASE Close(j, Active, "failed") /\ UNCHANGED <<kill, mode>>
    BY <1>5, <2>1, CloseType DEF TypeOK, RecoverLaunched, worker
  <2>2. CASE /\ Write(j, [row[j] EXCEPT !.fence = "committed"])
             /\ UNCHANGED <<owner, sessionStatus, kill, mode>>
    <3>1. row' \in [Jobs -> Rows]
      BY <1>0, <2>2, RowUpdates, WriteType
    <3> QED
      BY <1>5, <2>2, <3>1 DEF TypeOK, RecoverLaunched, worker
  <2>3. CASE UNCHANGED <<row, owner, sessionStatus>>
    BY <1>5, <2>3 DEF TypeOK, RecoverLaunched, worker
  <2> QED
    BY <1>5, <2>1, <2>2, <2>3 DEF RecoverLaunched
<1>6. CASE ResumeJob(j)
  BY <1>6 DEF TypeOK, ResumeJob, durable, worker
<1> QED
  BY <1>1, <1>2, <1>3, <1>4, <1>5, <1>6
     DEF ReconcileStep, RecoverStep

LEMMA TypeServer ==
    ASSUME TypeOK, Crash \/ Boot \/ BeginResume \/ Serve
    PROVE  TypeOK'
<1>1. CASE Crash
  BY <1>1 DEF TypeOK, Crash, ProcStates, durable
<1>2. CASE Boot
  BY <1>2 DEF TypeOK, Boot, Snapshot, Snaps, Rows, durable, worker
<1>3. CASE BeginResume
  BY <1>3 DEF TypeOK, BeginResume, durable, worker
<1>4. CASE Serve
  BY <1>4 DEF TypeOK, Serve, durable, worker
<1> QED
  BY <1>1, <1>2, <1>3, <1>4

(***************************************************************************)
(* Every step of the system keeps every variable in its type.              *)
(***************************************************************************)
LEMMA TypeNext == TypeOK /\ [Next]_vars => TypeOK'
<1> SUFFICES ASSUME TypeOK, [Next]_vars PROVE TypeOK'
  OBVIOUS
<1>1. CASE UNCHANGED vars
  BY <1>1 DEF TypeOK, vars, durable, worker, server
<1>2. CASE Next
  BY <1>2, TypeLaunch, TypeWorker, TypeCancel, TypeReconcile, TypeServer
     DEF Next
<1> QED
  BY <1>1, <1>2

\* Type correctness of the whole specification.
THEOREM TypeCorrect == Spec => []TypeOK
  BY TypeInit, TypeNext, PTL DEF Spec

(***************************************************************************)
(* What the transactions do to the row of their job, field by field.        *)
(***************************************************************************)

\* What a transaction leaves alone: every other row.
Frame(j) == \A k \in Jobs : k # j => row'[k] = row[k]

\* What Close does when it finds the job active and its session owned by it.
Closed(j) ==
    /\ row[j].status \in Active /\ owner[home[j].session] = j
    /\ owner' = [owner EXCEPT ![home[j].session] = NoJob]
    /\ Frame(j)
    /\ row'[j].status \in Terminal
    /\ row[j].status = "cancelling" => row'[j].status = "cancelled"
    /\ row'[j].version = row[j].version + 1
    /\ row'[j].acked = row[j].acked
    /\ row'[j].cancel = row[j].cancel
    /\ row'[j].fence = row[j].fence
    /\ row'[j].depth = 0

LEMMA CloseEffect ==
    ASSUME TypeOK, NEW j \in Jobs, NEW from \in SUBSET Active,
           NEW wanted \in Terminal, Close(j, from, wanted)
    PROVE  UNCHANGED <<row, owner, sessionStatus>> \/ Closed(j)
<1> DEFINE effective == IF row[j].status = "cancelling" THEN "cancelled"
                                                        ELSE wanted
           r == [row[j] EXCEPT !.status = effective, !.version = @ + 1,
                               !.lease = FALSE, !.depth = 0]
<1>0. row \in [Jobs -> Rows] /\ row[j] \in Rows
  BY DEF TypeOK
<1>1. CASE UNCHANGED <<row, owner, sessionStatus>>
  BY <1>1
<1>2. CASE ~UNCHANGED <<row, owner, sessionStatus>>
  <2>1. /\ Write(j, r)
        /\ owner' = [owner EXCEPT ![home[j].session] = NoJob]
        /\ row[j].status \in from /\ owner[home[j].session] = j
    BY <1>2 DEF Close
  <2>2. row'[j] = r /\ Frame(j)
    BY <1>0, <2>1 DEF Write, Frame
  <2>3. /\ effective \in Terminal
        /\ row[j].status = "cancelling" => effective = "cancelled"
    OBVIOUS
  <2>4. /\ row'[j].status = effective
        /\ row'[j].version = row[j].version + 1
        /\ row'[j].acked = row[j].acked
        /\ row'[j].cancel = row[j].cancel
        /\ row'[j].fence = row[j].fence
        /\ row'[j].depth = 0
    BY <1>0, <2>2 DEF Rows
  <2> QED
    BY <2>1, <2>2, <2>3, <2>4 DEF Closed
<1> QED
  BY <1>1, <1>2

LEMMA ChildStartEffect ==
    ASSUME TypeOK, NEW j \in Jobs, ChildStart(j)
    PROVE  /\ proc[j] = "released"
           /\ UNCHANGED <<home, shields, signalled, server>>
           /\ \/ /\ proc' = [proc EXCEPT ![j] = "working"]
                 /\ UNCHANGED owner
                 /\ row[j].status = "launching" /\ ~row[j].cancel
                 /\ Frame(j)
                 /\ row'[j].status = "running"
                 /\ row'[j].version = row[j].version + 1
                 /\ row'[j].acked = row[j].acked
                 /\ row'[j].cancel = row[j].cancel
                 /\ row'[j].fence = row[j].fence
                 /\ row'[j].depth = row[j].depth
              \/ /\ proc' = [proc EXCEPT ![j] = "closing"]
                 /\ Close(j, Launched, "cancelled")
              \/ /\ proc' = [proc EXCEPT ![j] = "closing"]
                 /\ UNCHANGED <<row, owner, sessionStatus>>
<1> DEFINE r == [row[j] EXCEPT !.status = "running", !.version = @ + 1,
                               !.lease = TRUE]
<1>0. row \in [Jobs -> Rows] /\ row[j] \in Rows
  BY DEF TypeOK
<1>1. CASE Write(j, r)
  <2>1. row'[j] = r /\ Frame(j)
    BY <1>0, <1>1 DEF Write, Frame
  <2>2. /\ row'[j].status = "running"
        /\ row'[j].version = row[j].version + 1
        /\ row'[j].acked = row[j].acked
        /\ row'[j].cancel = row[j].cancel
        /\ row'[j].fence = row[j].fence
        /\ row'[j].depth = row[j].depth
    BY <1>0, <2>1 DEF Rows
  <2> QED
    BY <2>1, <2>2 DEF ChildStart
<1>2. CASE ~Write(j, r)
  BY <1>2 DEF ChildStart
<1> QED
  BY <1>1, <1>2

LEMMA EnterShieldEffect ==
    ASSUME TypeOK, NEW j \in Jobs, EnterShield(j)
    PROVE  /\ proc[j] = "working"
           /\ UNCHANGED <<home, owner, sessionStatus, signalled, server>>
           /\ Frame(j)
           /\ row'[j].status = row[j].status
           /\ row'[j].acked = row[j].acked
           /\ row'[j].cancel = row[j].cancel
           /\ row'[j].fence = row[j].fence
           /\ \/ /\ row[j].fence = "open"
                 /\ row[j].depth > 0 \/ ~row[j].cancel
                 /\ row'[j].depth = row[j].depth + 1
                 /\ row'[j].version = row[j].version + 1
                 /\ shields' = [shields EXCEPT ![j] = @ + 1]
                 /\ UNCHANGED proc
              \/ /\ shields[j] = 0
                 /\ proc' = [proc EXCEPT ![j] = "cancelled"]
                 /\ UNCHANGED <<row, shields>>
<1> DEFINE r == [row[j] EXCEPT !.depth = @ + 1, !.version = @ + 1]
<1>0. row \in [Jobs -> Rows] /\ row[j] \in Rows
  BY DEF TypeOK
<1>1. CASE Write(j, r)
  <2>1. row'[j] = r /\ Frame(j)
    BY <1>0, <1>1 DEF Write, Frame
  <2>2. /\ row'[j].status = row[j].status
        /\ row'[j].acked = row[j].acked
        /\ row'[j].cancel = row[j].cancel
        /\ row'[j].fence = row[j].fence
        /\ row'[j].depth = row[j].depth + 1
        /\ row'[j].version = row[j].version + 1
    BY <1>0, <2>1 DEF Rows
  <2> QED
    BY <2>1, <2>2 DEF EnterShield
<1>2. CASE ~Write(j, r)
  BY <1>2 DEF EnterShield, Frame
<1> QED
  BY <1>1, <1>2

LEMMA ExitShieldEffect ==
    ASSUME TypeOK, NEW j \in Jobs, ExitShield(j)
    PROVE  /\ proc[j] = "working" /\ shields[j] > 0
           /\ shields' = [shields EXCEPT ![j] = @ - 1]
           /\ UNCHANGED <<home, owner, sessionStatus, signalled, server>>
           /\ Frame(j)
           /\ row'[j].status = row[j].status
           /\ row'[j].acked = row[j].acked
           /\ row'[j].cancel = row[j].cancel
           /\ row'[j].fence = row[j].fence
           /\ \/ /\ row[j].depth > 0
                 /\ row'[j].depth = row[j].depth - 1
                 /\ row'[j].version = row[j].version + 1
                 /\ UNCHANGED proc
              \/ /\ shields[j] = 1
                 /\ proc' = [proc EXCEPT ![j] = "cancelled"]
                 /\ UNCHANGED row
<1> DEFINE r == [row[j] EXCEPT !.depth = @ - 1, !.version = @ + 1]
<1>0. row \in [Jobs -> Rows] /\ row[j] \in Rows
  BY DEF TypeOK
<1>1. CASE Write(j, r)
  <2>1. row'[j] = r /\ Frame(j)
    BY <1>0, <1>1 DEF Write, Frame
  <2>2. /\ row'[j].status = row[j].status
        /\ row'[j].acked = row[j].acked
        /\ row'[j].cancel = row[j].cancel
        /\ row'[j].fence = row[j].fence
        /\ row'[j].depth = row[j].depth - 1
        /\ row'[j].version = row[j].version + 1
    BY <1>0, <2>1 DEF Rows
  <2> QED
    BY <2>1, <2>2 DEF ExitShield
<1>2. CASE ~Write(j, r)
  BY <1>2 DEF ExitShield, Frame
<1> QED
  BY <1>1, <1>2

LEMMA CancelLaunchedEffect ==
    ASSUME TypeOK, NEW j \in Jobs, CancelLaunched(j)
    PROVE  /\ api = "up"
           /\ kill' = [kill EXCEPT ![j] = IF @ = "idle" THEN "sleep" ELSE @]
           /\ UNCHANGED <<home, owner, sessionStatus, worker, launch, own,
                          mode, snap, api, todo, crashes>>
           /\ Frame(j)
           /\ row'[j].acked = row[j].acked
           /\ row'[j].fence = row[j].fence
           /\ row'[j].depth = row[j].depth
           /\ \/ /\ row[j].status \in {"launching", "running"}
                 /\ row'[j].status = "cancelling" /\ row'[j].cancel
                 /\ row'[j].version = row[j].version + 1
              \/ UNCHANGED row
<1> DEFINE r == [row[j] EXCEPT !.status = "cancelling", !.version = @ + 1,
                               !.cancel = TRUE, !.due = FALSE]
<1>0. row \in [Jobs -> Rows] /\ row[j] \in Rows
  BY DEF TypeOK
<1>1. CASE Write(j, r)
  <2>1. row'[j] = r /\ Frame(j)
    BY <1>0, <1>1 DEF Write, Frame
  <2>2. /\ row'[j].status = "cancelling" /\ row'[j].cancel
        /\ row'[j].acked = row[j].acked
        /\ row'[j].fence = row[j].fence
        /\ row'[j].depth = row[j].depth
        /\ row'[j].version = row[j].version + 1
    BY <1>0, <2>1 DEF Rows
  <2> QED
    BY <2>1, <2>2 DEF CancelLaunched
<1>2. CASE ~Write(j, r)
  BY <1>2 DEF CancelLaunched, Frame
<1> QED
  BY <1>1, <1>2

LEMMA FenceEffect ==
    ASSUME TypeOK, NEW j \in Jobs,
           Write(j, [row[j] EXCEPT !.fence = "committed"])
    PROVE  /\ Frame(j)
           /\ row'[j].status = row[j].status
           /\ row'[j].version = row[j].version
           /\ row'[j].acked = row[j].acked
           /\ row'[j].cancel = row[j].cancel
           /\ row'[j].depth = row[j].depth
           /\ row'[j].fence = "committed"
<1>0. row \in [Jobs -> Rows] /\ row[j] \in Rows
  BY DEF TypeOK
<1>1. row'[j] = [row[j] EXCEPT !.fence = "committed"] /\ Frame(j)
  BY <1>0 DEF Write, Frame
<1> QED
  BY <1>0, <1>1 DEF Rows


LEMMA ClaimLaunchEffect ==
    ASSUME TypeOK, NEW j \in Jobs, ClaimLaunch(j)
    PROVE  /\ launch[j] = "started"
           /\ row[j].status = "queued" /\ ~row[j].cancel
           /\ launch' = [launch EXCEPT ![j] = "claimed"]
           /\ UNCHANGED <<home, owner, sessionStatus, worker, own, kill, mode,
                          snap, api, todo, crashes>>
           /\ Frame(j)
           /\ row'[j].status = "launching"
           /\ row'[j].version = row[j].version + 1
           /\ ~row'[j].acked
           /\ row'[j].cancel = row[j].cancel
           /\ row'[j].fence = row[j].fence
           /\ row'[j].depth = row[j].depth
<1> DEFINE r == [row[j] EXCEPT !.status = "launching", !.version = @ + 1,
                               !.acked = FALSE, !.lease = TRUE]
<1>0. row \in [Jobs -> Rows] /\ row[j] \in Rows
  BY DEF TypeOK
<1>1. row'[j] = r /\ Frame(j)
  BY <1>0 DEF ClaimLaunch, Write, Frame
<1>2. /\ row'[j].status = "launching"
      /\ row'[j].version = row[j].version + 1
      /\ ~row'[j].acked
      /\ row'[j].cancel = row[j].cancel
      /\ row'[j].fence = row[j].fence
      /\ row'[j].depth = row[j].depth
  BY <1>0, <1>1 DEF Rows
<1> QED
  BY <1>1, <1>2 DEF ClaimLaunch

LEMMA AcknowledgeSpawnEffect ==
    ASSUME TypeOK, NEW j \in Jobs, AcknowledgeSpawn(j)
    PROVE  /\ launch[j] = "spawned" /\ row[j].status = "launching"
           /\ launch' = [launch EXCEPT ![j] = "acked"]
           /\ UNCHANGED <<home, owner, sessionStatus, worker, own, kill, mode,
                          snap, api, todo, crashes>>
           /\ Frame(j)
           /\ row'[j].status = row[j].status
           /\ row'[j].version = row[j].version + 1
           /\ row'[j].acked
           /\ row'[j].cancel = row[j].cancel
           /\ row'[j].fence = row[j].fence
           /\ row'[j].depth = row[j].depth
<1> DEFINE r == [row[j] EXCEPT !.acked = TRUE, !.version = @ + 1]
<1>0. row \in [Jobs -> Rows] /\ row[j] \in Rows
  BY DEF TypeOK
<1>1. row'[j] = r /\ Frame(j)
  BY <1>0 DEF AcknowledgeSpawn, Write, Frame
<1>2. /\ row'[j].status = row[j].status
      /\ row'[j].version = row[j].version + 1
      /\ row'[j].acked
      /\ row'[j].cancel = row[j].cancel
      /\ row'[j].fence = row[j].fence
      /\ row'[j].depth = row[j].depth
  BY <1>0, <1>1 DEF Rows
<1> QED
  BY <1>1, <1>2 DEF AcknowledgeSpawn

LEMMA CancelQueuedEffect ==
    ASSUME TypeOK, NEW j \in Jobs, CancelQueued(j)
    PROVE  /\ row[j].status = "queued" /\ owner[home[j].session] = j
           /\ owner' = [owner EXCEPT ![home[j].session] = NoJob]
           /\ UNCHANGED <<home, worker, server>>
           /\ Frame(j)
           /\ row'[j].status = "cancelled" /\ row'[j].cancel
           /\ row'[j].version = row[j].version + 1
           /\ row'[j].acked = row[j].acked
           /\ row'[j].fence = row[j].fence
           /\ row'[j].depth = row[j].depth
<1> DEFINE r == [row[j] EXCEPT !.status = "cancelled", !.version = @ + 1,
                               !.cancel = TRUE, !.due = TRUE]
<1>0. row \in [Jobs -> Rows] /\ row[j] \in Rows
  BY DEF TypeOK
<1>1. row'[j] = r /\ Frame(j)
  BY <1>0 DEF CancelQueued, Write, Frame
<1>2. /\ row'[j].status = "cancelled" /\ row'[j].cancel
      /\ row'[j].version = row[j].version + 1
      /\ row'[j].acked = row[j].acked
      /\ row'[j].fence = row[j].fence
      /\ row'[j].depth = row[j].depth
  BY <1>0, <1>1 DEF Rows
<1> QED
  BY <1>1, <1>2 DEF CancelQueued

HIDE DEF Statuses

(***************************************************************************)
(* The typing facts the proofs below use, for one job and its row.          *)
(***************************************************************************)
Typed(j) ==
    /\ TypeOK
    /\ proc \in [Jobs -> ProcStates]
    /\ shields \in [Jobs -> Nat]
    /\ signalled \in [Jobs -> BOOLEAN]
    /\ launch \in [Jobs -> {"idle", "created", "started", "claimed",
                            "spawned", "acked", "abort"}]
    /\ kill \in [Jobs -> {"idle", "sleep", "authorize", "signal", "wait",
                          "finish"}]
    /\ snap \in [Jobs -> Snaps \cup {NoSnap}]
    /\ row[j].version \in Nat /\ row[j].depth \in Nat
    /\ snap[j] # NoSnap => snap[j].version \in Nat

LEMMA TypedFacts == ASSUME IInv, NEW j \in Jobs PROVE Typed(j)
  BY DEF IInv, TypeOK, Typed, Rows, Snaps

(***************************************************************************)
(* Closing a job whose worker does not execute keeps the tables consistent. *)
(***************************************************************************)
LEMMA ClosedSafe ==
    ASSUME IInv, NEW j \in Jobs, Closed(j), UNCHANGED home,
           \A k \in Jobs : k # j => proc'[k] = proc[k],
           proc'[j] \notin {"working"} \cup Results
    PROVE  OwnerIffActive' /\ LaneInv' /\ CancelWins' /\ ExecutorOwnsSession'
<1>0. /\ owner \in [Sessions -> Jobs \cup {NoJob}]
      /\ home \in [Jobs -> [session : Sessions \cup {NoSession},
                            lane : Sessions \cup {NoSession}]]
      /\ NoJob \notin Jobs
  BY ConstantsAssumption DEF IInv, SafetyInv, TypeOK
<1>1. OwnerIffActive'
  <2> SUFFICES ASSUME NEW k \in Jobs, NEW s \in Sessions
               PROVE  owner'[s] = k <=>
                        row'[k].status \in Active /\ home'[k].session = s
    BY DEF OwnerIffActive
  <2>1. owner[s] = k <=> row[k].status \in Active /\ home[k].session = s
    BY DEF IInv, SafetyInv, OwnerIffActive
  <2>2. owner[s] = j <=> row[j].status \in Active /\ home[j].session = s
    BY DEF IInv, SafetyInv, OwnerIffActive
  <2>3. CASE k = j
    BY <1>0, <2>2, <2>3 DEF Closed
  <2>4. CASE k # j
    BY <1>0, <2>1, <2>2, <2>4 DEF Closed, Frame
  <2> QED
    BY <2>3, <2>4
<1>2. LaneInv'
  BY DEF IInv, SafetyInv, LaneInv, Closed, Frame
<1>3. CancelWins'
  BY DEF IInv, SafetyInv, CancelWins, Closed, Frame
<1>4. ExecutorOwnsSession'
  <2> SUFFICES ASSUME NEW k \in Jobs, k # j, Executing(k)
               PROVE  /\ row'[k].status \in {"running", "cancelling"}
                      /\ owner'[home'[k].session] = k
    BY DEF ExecutorOwnsSession, Executing
  <2>1. /\ row[k].status \in {"running", "cancelling"}
        /\ owner[home[k].session] = k
    BY DEF IInv, SafetyInv, ExecutorOwnsSession
  <2> QED
    BY <1>0, <2>1 DEF Closed, Frame
<1> QED
  BY <1>1, <1>2, <1>3, <1>4

(***************************************************************************)
(* The actions whose transactions need their effect spelt out: each keeps   *)
(* every part of the invariant.                                             *)
(***************************************************************************)
LEMMA ClaimLaunchSafe ==
    ASSUME IInv, NEW j \in Jobs, ClaimLaunch(j)
    PROVE  SafetyInv'
<1>0. Typed(j)
  BY TypedFacts
<1>1. OwnerIffActive'
  BY <1>0, ClaimLaunchEffect
     DEF IInv, SafetyInv, OwnerIffActive, Frame, worker, Typed
<1>2. LaneInv'
  BY <1>0, ClaimLaunchEffect
     DEF IInv, SafetyInv, LaneInv, Frame, worker, Typed
<1>3. LaunchInv'
  BY <1>0, ClaimLaunchEffect
     DEF IInv, SafetyInv, LaunchInv, ExecutorOwnsSession, Started, Executing,
         Results, Frame, worker, Typed
<1>4. ShieldInv'
  BY <1>0, ClaimLaunchEffect
     DEF IInv, SafetyInv, ShieldInv, LaunchInv, Started, Executing, Results,
         Frame, worker, Typed
<1>5. ServerInv'
  BY <1>0, ClaimLaunchEffect
     DEF IInv, SafetyInv, ServerInv, Frame, worker, Typed
<1>6. CancelWins'
  BY <1>0, ClaimLaunchEffect
     DEF IInv, SafetyInv, CancelWins, Frame, worker, Typed
<1>7. ExecutorOwnsSession'
  BY <1>0, ClaimLaunchEffect
     DEF IInv, SafetyInv, ExecutorOwnsSession, OwnerIffActive, LaneInv,
         LaunchInv, Started, Executing, Results, Frame, worker, Typed
<1> QED
  BY <1>1, <1>2, <1>3, <1>4, <1>5, <1>6, <1>7 DEF SafetyInv

LEMMA AcknowledgeSpawnSafe ==
    ASSUME IInv, NEW j \in Jobs, AcknowledgeSpawn(j)
    PROVE  SafetyInv'
<1>0. Typed(j)
  BY TypedFacts
<1>1. OwnerIffActive'
  BY <1>0, AcknowledgeSpawnEffect
     DEF IInv, SafetyInv, OwnerIffActive, Frame, worker, Typed
<1>2. LaneInv'
  BY <1>0, AcknowledgeSpawnEffect
     DEF IInv, SafetyInv, LaneInv, Frame, worker, Typed
<1>3. LaunchInv'
  BY <1>0, AcknowledgeSpawnEffect
     DEF IInv, SafetyInv, LaunchInv, ExecutorOwnsSession, Started, Executing,
         Results, Frame, worker, Typed
<1>4. ShieldInv'
  BY <1>0, AcknowledgeSpawnEffect
     DEF IInv, SafetyInv, ShieldInv, LaunchInv, Started, Executing, Results,
         Frame, worker, Typed
<1>5. ServerInv'
  BY <1>0, AcknowledgeSpawnEffect
     DEF IInv, SafetyInv, ServerInv, Frame, worker, Typed
<1>6. CancelWins'
  BY <1>0, AcknowledgeSpawnEffect
     DEF IInv, SafetyInv, CancelWins, Frame, worker, Typed
<1>7. ExecutorOwnsSession'
  BY <1>0, AcknowledgeSpawnEffect
     DEF IInv, SafetyInv, ExecutorOwnsSession, OwnerIffActive, LaneInv,
         LaunchInv, Started, Executing, Results, Frame, worker, Typed
<1> QED
  BY <1>1, <1>2, <1>3, <1>4, <1>5, <1>6, <1>7 DEF SafetyInv

LEMMA CompensateSafe ==
    ASSUME IInv, NEW j \in Jobs, Compensate(j)
    PROVE  SafetyInv'
<1>0. Typed(j)
  BY TypedFacts
<1>1. UNCHANGED <<row, owner, sessionStatus>> \/ Closed(j)
  BY <1>0, CloseEffect DEF Compensate, Typed
<1>2. CASE UNCHANGED <<row, owner, sessionStatus>>
  BY <1>0, <1>2
     DEF IInv, SafetyInv, OwnerIffActive, LaneInv, LaunchInv, ShieldInv,
         ServerInv, CancelWins, ExecutorOwnsSession, Started, Executing,
         Results, Compensate, worker, server, Typed
<1>3. CASE Closed(j)
  <2>1. OwnerIffActive' /\ LaneInv' /\ CancelWins' /\ ExecutorOwnsSession'
    BY <1>0, <1>3, ClosedSafe
       DEF IInv, SafetyInv, LaunchInv, Started, Executing, Results,
           Compensate, worker, Typed
  <2>2. LaunchInv'
    BY <1>0, <1>3
       DEF IInv, SafetyInv, LaunchInv, Closed, Frame, Started, Executing,
           Results, Compensate, server, worker, Typed
  <2>3. ShieldInv'
    BY <1>0, <1>3
       DEF IInv, SafetyInv, ShieldInv, LaunchInv, Started, Executing, Closed,
           Frame, Results, Compensate, server, worker, Typed
  <2>4. ServerInv'
    BY <1>0, <1>3
       DEF IInv, SafetyInv, ServerInv, Closed, Frame, Compensate, server,
           worker, Typed
  <2> QED
    BY <2>1, <2>2, <2>3, <2>4 DEF SafetyInv
<1> QED
  BY <1>1, <1>2, <1>3 DEF SafetyInv

LEMMA ChildStartSafe ==
    ASSUME IInv, NEW j \in Jobs, ChildStart(j)
    PROVE  SafetyInv'
<1>0. Typed(j)
  BY TypedFacts
<1>1. /\ proc[j] = "released"
      /\ UNCHANGED <<home, shields, signalled, launch, kill, snap, api>>
  BY <1>0, ChildStartEffect DEF server, Typed
<1>2. CASE /\ proc' = [proc EXCEPT ![j] = "working"]
           /\ UNCHANGED owner
           /\ row[j].status = "launching" /\ ~row[j].cancel
           /\ Frame(j)
           /\ row'[j].status = "running"
           /\ row'[j].version = row[j].version + 1
           /\ row'[j].acked = row[j].acked
           /\ row'[j].cancel = row[j].cancel
           /\ row'[j].fence = row[j].fence
           /\ row'[j].depth = row[j].depth
  <2>1. OwnerIffActive'
    BY <1>0, <1>1, <1>2 DEF IInv, SafetyInv, OwnerIffActive, Frame, Typed
  <2>2. LaneInv'
    BY <1>0, <1>1, <1>2 DEF IInv, SafetyInv, LaneInv, Frame, Typed
  <2>3. LaunchInv'
    BY <1>0, <1>1, <1>2
       DEF IInv, SafetyInv, LaunchInv, ExecutorOwnsSession, Started,
           Executing, Results, Frame, Typed
  <2>4. ShieldInv'
    BY <1>0, <1>1, <1>2
       DEF IInv, SafetyInv, ShieldInv, LaunchInv, Started, Executing, Results,
           Frame, Typed
  <2>5. ServerInv'
    BY <1>0, <1>1, <1>2 DEF IInv, SafetyInv, ServerInv, Frame, Typed
  <2>6. CancelWins'
    BY <1>0, <1>1, <1>2 DEF IInv, SafetyInv, CancelWins, Frame, Typed
  <2>7. ExecutorOwnsSession'
    BY <1>0, <1>1, <1>2
       DEF IInv, SafetyInv, ExecutorOwnsSession, OwnerIffActive, LaneInv,
           LaunchInv, Started, Executing, Results, Frame, Typed
  <2> QED
    BY <2>1, <2>2, <2>3, <2>4, <2>5, <2>6, <2>7 DEF SafetyInv
<1>3. CASE proc' = [proc EXCEPT ![j] = "closing"] /\ Closed(j)
  <2>1. OwnerIffActive' /\ LaneInv' /\ CancelWins' /\ ExecutorOwnsSession'
    BY <1>0, <1>1, <1>3, ClosedSafe DEF Results, Typed
  <2>2. LaunchInv'
    BY <1>0, <1>1, <1>3
       DEF IInv, SafetyInv, LaunchInv, Closed, Frame, Started, Executing,
           Results, Typed
  <2>3. ShieldInv'
    BY <1>0, <1>1, <1>3 DEF IInv, SafetyInv, ShieldInv, Closed, Frame, Typed
  <2>4. ServerInv'
    BY <1>0, <1>1, <1>3 DEF IInv, SafetyInv, ServerInv, Closed, Frame, Typed
  <2> QED
    BY <2>1, <2>2, <2>3, <2>4 DEF SafetyInv
<1>4. CASE /\ proc' = [proc EXCEPT ![j] = "closing"]
           /\ UNCHANGED <<row, owner, sessionStatus>>
  BY <1>0, <1>1, <1>4
     DEF IInv, SafetyInv, OwnerIffActive, LaneInv, LaunchInv, ShieldInv,
         ServerInv, CancelWins, ExecutorOwnsSession, Started, Executing,
         Results, Typed
<1>5. Close(j, Launched, "cancelled") =>
         UNCHANGED <<row, owner, sessionStatus>> \/ Closed(j)
  BY <1>0, CloseEffect DEF Typed
<1> QED
  BY <1>0, <1>2, <1>3, <1>4, <1>5, ChildStartEffect DEF SafetyInv, Typed

LEMMA EnterShieldSafe ==
    ASSUME IInv, NEW j \in Jobs, EnterShield(j)
    PROVE  SafetyInv'
<1>0. Typed(j)
  BY TypedFacts
<1>1. OwnerIffActive'
  BY <1>0, EnterShieldEffect
     DEF IInv, SafetyInv, OwnerIffActive, Frame, server, Typed
<1>2. LaneInv'
  BY <1>0, EnterShieldEffect
     DEF IInv, SafetyInv, LaneInv, Frame, server, Typed
<1>3. LaunchInv'
  BY <1>0, EnterShieldEffect
     DEF IInv, SafetyInv, LaunchInv, ExecutorOwnsSession, Started, Executing,
         Results, Frame, server, Typed
<1>4. ShieldInv'
  BY <1>0, EnterShieldEffect
     DEF IInv, SafetyInv, ShieldInv, LaunchInv, Started, Executing, Results,
         Frame, server, Typed
<1>5. ServerInv'
  BY <1>0, EnterShieldEffect
     DEF IInv, SafetyInv, ServerInv, Frame, server, Typed
<1>6. CancelWins'
  BY <1>0, EnterShieldEffect
     DEF IInv, SafetyInv, CancelWins, Frame, server, Typed
<1>7. ExecutorOwnsSession'
  BY <1>0, EnterShieldEffect
     DEF IInv, SafetyInv, ExecutorOwnsSession, OwnerIffActive, LaneInv,
         LaunchInv, Started, Executing, Results, Frame, server, Typed
<1> QED
  BY <1>1, <1>2, <1>3, <1>4, <1>5, <1>6, <1>7 DEF SafetyInv

LEMMA ExitShieldSafe ==
    ASSUME IInv, NEW j \in Jobs, ExitShield(j)
    PROVE  SafetyInv'
<1>0. Typed(j)
  BY TypedFacts
<1>1. OwnerIffActive'
  BY <1>0, ExitShieldEffect
     DEF IInv, SafetyInv, OwnerIffActive, Frame, server, Typed
<1>2. LaneInv'
  BY <1>0, ExitShieldEffect DEF IInv, SafetyInv, LaneInv, Frame, server, Typed
<1>3. LaunchInv'
  BY <1>0, ExitShieldEffect
     DEF IInv, SafetyInv, LaunchInv, ExecutorOwnsSession, Started, Executing,
         Results, Frame, server, Typed
<1>4. ShieldInv'
  BY <1>0, ExitShieldEffect
     DEF IInv, SafetyInv, ShieldInv, LaunchInv, Started, Executing, Results,
         Frame, server, Typed
<1>5. ServerInv'
  BY <1>0, ExitShieldEffect
     DEF IInv, SafetyInv, ServerInv, Frame, server, Typed
<1>6. CancelWins'
  BY <1>0, ExitShieldEffect
     DEF IInv, SafetyInv, CancelWins, Frame, server, Typed
<1>7. ExecutorOwnsSession'
  BY <1>0, ExitShieldEffect
     DEF IInv, SafetyInv, ExecutorOwnsSession, OwnerIffActive, LaneInv,
         LaunchInv, Started, Executing, Results, Frame, server, Typed
<1> QED
  BY <1>1, <1>2, <1>3, <1>4, <1>5, <1>6, <1>7 DEF SafetyInv

LEMMA WorkerFinishSafe ==
    ASSUME IInv, NEW j \in Jobs, WorkerFinish(j)
    PROVE  SafetyInv'
<1>0. Typed(j)
  BY TypedFacts
<1>1. UNCHANGED <<row, owner, sessionStatus>> \/ Closed(j)
  BY <1>0, CloseEffect DEF WorkerFinish, Results, Typed
<1>2. CASE UNCHANGED <<row, owner, sessionStatus>>
  BY <1>0, <1>2
     DEF IInv, SafetyInv, OwnerIffActive, LaneInv, LaunchInv, ShieldInv,
         ServerInv, CancelWins, ExecutorOwnsSession, Started, Executing,
         Results, WorkerFinish, worker, server, Typed
<1>3. CASE Closed(j)
  <2>1. OwnerIffActive' /\ LaneInv' /\ CancelWins' /\ ExecutorOwnsSession'
    BY <1>0, <1>3, ClosedSafe DEF WorkerFinish, Results, server, Typed
  <2>2. LaunchInv'
    BY <1>0, <1>3
       DEF IInv, SafetyInv, LaunchInv, Closed, Frame, Started, Executing,
           Results, WorkerFinish, server, worker, Typed
  <2>3. ShieldInv'
    BY <1>0, <1>3
       DEF IInv, SafetyInv, ShieldInv, LaunchInv, Started, Executing, Closed,
           Frame, Results, WorkerFinish, server, worker, Typed
  <2>4. ServerInv'
    BY <1>0, <1>3
       DEF IInv, SafetyInv, ServerInv, Closed, Frame, Results, WorkerFinish,
           server, worker, Typed
  <2> QED
    BY <2>1, <2>2, <2>3, <2>4 DEF SafetyInv
<1> QED
  BY <1>1, <1>2, <1>3 DEF SafetyInv

LEMMA CancelQueuedSafe ==
    ASSUME IInv, NEW j \in Jobs, CancelQueued(j)
    PROVE  SafetyInv'
<1>0. Typed(j)
  BY TypedFacts
<1>1. /\ row[j].status = "queued" /\ owner[home[j].session] = j
      /\ owner' = [owner EXCEPT ![home[j].session] = NoJob]
      /\ UNCHANGED <<home, proc, shields, signalled, launch, kill, snap, api>>
      /\ Frame(j)
      /\ row'[j].status = "cancelled" /\ row'[j].cancel
      /\ row'[j].version = row[j].version + 1
      /\ row'[j].acked = row[j].acked
      /\ row'[j].fence = row[j].fence
      /\ row'[j].depth = row[j].depth
  BY <1>0, CancelQueuedEffect DEF worker, server, Typed
<1>2. OwnerIffActive'
  <2> SUFFICES ASSUME NEW k \in Jobs, NEW s \in Sessions
               PROVE  owner'[s] = k <=>
                        row'[k].status \in Active /\ home'[k].session = s
    BY DEF OwnerIffActive
  <2>1. /\ owner \in [Sessions -> Jobs \cup {NoJob}]
        /\ NoJob \notin Jobs
    BY ConstantsAssumption DEF IInv, TypeOK
  <2>2. /\ owner[s] = k <=> row[k].status \in Active /\ home[k].session = s
        /\ owner[s] = j <=> row[j].status \in Active /\ home[j].session = s
    BY DEF IInv, SafetyInv, OwnerIffActive
  <2>3. CASE k = j
    BY <1>1, <2>1, <2>2, <2>3
  <2>4. CASE k # j
    BY <1>1, <2>1, <2>2, <2>4 DEF Frame
  <2> QED
    BY <2>3, <2>4
<1>3. LaneInv' /\ CancelWins'
  BY <1>1 DEF IInv, SafetyInv, LaneInv, CancelWins, Frame
<1>4. LaunchInv' /\ ShieldInv'
  BY <1>0, <1>1
     DEF IInv, SafetyInv, LaunchInv, ShieldInv, Frame, Started, Executing,
         Results, Typed
<1>5. ServerInv'
  BY <1>0, <1>1 DEF IInv, SafetyInv, ServerInv, Frame, Typed
<1>6. ExecutorOwnsSession'
  <2> SUFFICES ASSUME NEW k \in Jobs, Executing(k)
               PROVE  /\ row'[k].status \in {"running", "cancelling"}
                      /\ owner'[home'[k].session] = k
    BY <1>1 DEF ExecutorOwnsSession, Executing
  <2>1. /\ owner \in [Sessions -> Jobs \cup {NoJob}]
        /\ row[k].status \in {"running", "cancelling"}
        /\ owner[home[k].session] = k
    BY DEF IInv, SafetyInv, TypeOK, ExecutorOwnsSession
  <2> QED
    BY <1>1, <2>1 DEF Frame
<1> QED
  BY <1>2, <1>3, <1>4, <1>5, <1>6 DEF SafetyInv

LEMMA CancelLaunchedSafe ==
    ASSUME IInv, NEW j \in Jobs, CancelLaunched(j)
    PROVE  SafetyInv'
<1>0. Typed(j)
  BY TypedFacts
<1>1. OwnerIffActive'
  BY <1>0, CancelLaunchedEffect
     DEF IInv, SafetyInv, OwnerIffActive, Frame, worker, Typed
<1>2. LaneInv'
  BY <1>0, CancelLaunchedEffect
     DEF IInv, SafetyInv, LaneInv, Frame, worker, Typed
<1>3. LaunchInv'
  BY <1>0, CancelLaunchedEffect
     DEF IInv, SafetyInv, LaunchInv, ExecutorOwnsSession, Started, Executing,
         Results, Frame, worker, Typed
<1>4. ShieldInv'
  BY <1>0, CancelLaunchedEffect
     DEF IInv, SafetyInv, ShieldInv, LaunchInv, Started, Executing, Results,
         Frame, worker, Typed
<1>5. ServerInv'
  BY <1>0, CancelLaunchedEffect
     DEF IInv, SafetyInv, ServerInv, Frame, worker, Typed
<1>6. CancelWins'
  BY <1>0, CancelLaunchedEffect
     DEF IInv, SafetyInv, CancelWins, Frame, worker, Typed
<1>7. ExecutorOwnsSession'
  BY <1>0, CancelLaunchedEffect
     DEF IInv, SafetyInv, ExecutorOwnsSession, OwnerIffActive, LaneInv,
         LaunchInv, Started, Executing, Results, Frame, worker, Typed
<1> QED
  BY <1>1, <1>2, <1>3, <1>4, <1>5, <1>6, <1>7 DEF SafetyInv

LEMMA EscalateCheckSafe ==
    ASSUME IInv, NEW j \in Jobs, EscalateCheck(j)
    PROVE  SafetyInv'
<1>0. Typed(j)
  BY TypedFacts
<1>1. UNCHANGED <<row, home, owner, shields, signalled, launch, snap, api>>
  BY DEF EscalateCheck, durable
<1>2. CASE /\ \/ kill' = [kill EXCEPT ![j] = "idle"]
              \/ kill' = [kill EXCEPT ![j] = "authorize"]
           /\ UNCHANGED proc
  BY <1>0, <1>1, <1>2
     DEF IInv, SafetyInv, OwnerIffActive, LaneInv, LaunchInv, ShieldInv,
         ServerInv, CancelWins, ExecutorOwnsSession, Started, Executing,
         Results, Typed
<1>3. CASE /\ proc[j] \in {"zombie", "gone"}
           /\ kill' = [kill EXCEPT ![j] = "finish"]
           /\ proc' = [proc EXCEPT ![j] = "gone"]
  BY <1>0, <1>1, <1>3
     DEF IInv, SafetyInv, OwnerIffActive, LaneInv, LaunchInv, ShieldInv,
         ServerInv, CancelWins, ExecutorOwnsSession, Started, Executing,
         Results, Typed
<1> QED
  BY <1>2, <1>3 DEF EscalateCheck, SafetyInv

LEMMA AuthorizeSignalSafe ==
    ASSUME IInv, NEW j \in Jobs, AuthorizeSignal(j)
    PROVE  SafetyInv'
<1>0. Typed(j)
  BY TypedFacts
<1>1. UNCHANGED <<home, owner, proc, shields, signalled, launch, snap, api>>
  BY DEF AuthorizeSignal, worker
<1>2. CASE /\ Write(j, [row[j] EXCEPT !.fence = "committed"])
           /\ MayCommit(j)
           /\ kill' = [kill EXCEPT ![j] = "signal"]
  <2>0. /\ Frame(j)
        /\ row'[j].status = row[j].status
        /\ row'[j].version = row[j].version
        /\ row'[j].acked = row[j].acked
        /\ row'[j].cancel = row[j].cancel
        /\ row'[j].depth = row[j].depth
        /\ row'[j].fence = "committed"
        /\ row[j].depth = 0
    BY <1>0, <1>2, FenceEffect DEF MayCommit, Typed
  <2>1. OwnerIffActive'
    BY <1>0, <1>1, <1>2, <2>0
       DEF IInv, SafetyInv, OwnerIffActive, Frame, Typed
  <2>2. LaneInv'
    BY <1>0, <1>1, <1>2, <2>0 DEF IInv, SafetyInv, LaneInv, Frame, Typed
  <2>3. LaunchInv'
    BY <1>0, <1>1, <1>2, <2>0
       DEF IInv, SafetyInv, LaunchInv, ExecutorOwnsSession, Started,
           Executing, Results, Frame, Typed
  <2>4. ShieldInv'
    BY <1>0, <1>1, <1>2, <2>0
       DEF IInv, SafetyInv, ShieldInv, LaunchInv, Started, Executing, Results,
           Frame, Typed
  <2>5. ServerInv'
    BY <1>0, <1>1, <1>2, <2>0 DEF IInv, SafetyInv, ServerInv, Frame, Typed
  <2>6. CancelWins'
    BY <1>0, <1>1, <1>2, <2>0 DEF IInv, SafetyInv, CancelWins, Frame, Typed
  <2>7. ExecutorOwnsSession'
    BY <1>0, <1>1, <1>2, <2>0
       DEF IInv, SafetyInv, ExecutorOwnsSession, OwnerIffActive, LaneInv,
           LaunchInv, Started, Executing, Results, Frame, Typed
  <2> QED
    BY <2>1, <2>2, <2>3, <2>4, <2>5, <2>6, <2>7 DEF SafetyInv
<1>3. CASE /\ \/ kill' = [kill EXCEPT ![j] = "idle"]
              \/ kill' = [kill EXCEPT ![j] = "finish"] /\ proc[j] = "gone"
           /\ UNCHANGED row
  BY <1>0, <1>1, <1>3
     DEF IInv, SafetyInv, OwnerIffActive, LaneInv, LaunchInv, ShieldInv,
         ServerInv, CancelWins, ExecutorOwnsSession, Started, Executing,
         Results, Typed
<1> QED
  BY <1>0, <1>2, <1>3 DEF AuthorizeSignal, Identity, Typed

LEMMA SendSignalSafe ==
    ASSUME IInv, NEW j \in Jobs, SendSignal(j)
    PROVE  SafetyInv'
<1>0. Typed(j)
  BY TypedFacts
<1>1. /\ UNCHANGED <<row, home, owner, proc, shields, launch, snap, api>>
      /\ kill[j] = "signal"
  BY DEF SendSignal, durable
<1>2. \/ /\ kill' = [kill EXCEPT ![j] = "wait"]
         /\ signalled' = [signalled EXCEPT ![j] = @ \/ Alive(j)]
      \/ /\ kill' = [kill EXCEPT ![j] = "idle"]
         /\ UNCHANGED signalled
  BY DEF SendSignal
<1>3. OwnerIffActive' /\ LaneInv' /\ CancelWins' /\ ExecutorOwnsSession'
  BY <1>1
     DEF IInv, SafetyInv, OwnerIffActive, LaneInv, CancelWins,
         ExecutorOwnsSession, Executing
<1>4. LaunchInv'
  BY <1>1 DEF IInv, SafetyInv, LaunchInv, Started, Executing
<1>5. ShieldInv'
  BY <1>0, <1>1, <1>2 DEF IInv, SafetyInv, ShieldInv, Typed
<1>6. ServerInv'
  BY <1>0, <1>1, <1>2 DEF IInv, SafetyInv, ServerInv, Typed
<1> QED
  BY <1>3, <1>4, <1>5, <1>6 DEF SafetyInv

LEMMA KillFinishSafe ==
    ASSUME IInv, NEW j \in Jobs, KillFinish(j)
    PROVE  SafetyInv'
<1>0. Typed(j)
  BY TypedFacts
<1>1. UNCHANGED <<row, owner, sessionStatus>> \/ Closed(j)
  BY <1>0, CloseEffect DEF KillFinish, Typed
<1>2. CASE UNCHANGED <<row, owner, sessionStatus>>
  BY <1>0, <1>2
     DEF IInv, SafetyInv, OwnerIffActive, LaneInv, LaunchInv, ShieldInv,
         ServerInv, CancelWins, ExecutorOwnsSession, Started, Executing,
         Results, KillFinish, worker, server, Typed
<1>3. CASE Closed(j)
  <2>1. OwnerIffActive' /\ LaneInv' /\ CancelWins' /\ ExecutorOwnsSession'
    BY <1>0, <1>3, ClosedSafe
       DEF IInv, SafetyInv, ServerInv, Results, KillFinish, worker, Typed
  <2>2. LaunchInv'
    BY <1>0, <1>3
       DEF IInv, SafetyInv, LaunchInv, Closed, Frame, Started, Executing,
           Results, KillFinish, server, worker, Typed
  <2>3. ShieldInv'
    BY <1>0, <1>3
       DEF IInv, SafetyInv, ShieldInv, ServerInv, LaunchInv, Started,
           Executing, Closed, Frame, Results, KillFinish, server, worker,
           Typed
  <2>4. ServerInv'
    BY <1>0, <1>3
       DEF IInv, SafetyInv, ServerInv, Closed, Frame, KillFinish, server,
           worker, Typed
  <2> QED
    BY <2>1, <2>2, <2>3, <2>4 DEF SafetyInv
<1> QED
  BY <1>1, <1>2, <1>3 DEF SafetyInv

LEMMA ReconcileJobSafe ==
    ASSUME IInv, NEW j \in Jobs, ReconcileJob(j)
    PROVE  SafetyInv'
<1>0. Typed(j)
  BY TypedFacts
<1>1. UNCHANGED <<row, owner, sessionStatus>> \/ Closed(j)
  BY <1>0, CloseEffect DEF ReconcileJob, Typed
<1>2. CASE UNCHANGED <<row, owner, sessionStatus>>
  BY <1>0, <1>2, ConstantsAssumption
     DEF IInv, SafetyInv, OwnerIffActive, LaneInv, LaunchInv, ShieldInv,
         ServerInv, CancelWins, ExecutorOwnsSession, Started, Executing,
         Results, ReconcileJob, worker, server, Typed
<1>3. CASE Closed(j)
  <2>0. ~Started(j)
    <3>1. row'[j] # row[j]
      BY <1>0, <1>3 DEF Closed, Typed
    <3>2. PICK seen \in Identity(j) :
             /\ IF snap[j].acked THEN seen = "gone" ELSE ~snap[j].lease
             /\ row[j].version = snap[j].version
      BY <3>1 DEF ReconcileJob
    <3>3. snap[j].acked = row[j].acked
      BY <3>2 DEF IInv, SafetyInv, ServerInv, ReconcileJob
    <3>4. CASE row[j].acked
      BY <3>2, <3>3, <3>4 DEF Identity, Started, Executing, Results
    <3>5. CASE ~row[j].acked
      BY <3>5 DEF IInv, SafetyInv, LaunchInv
    <3> QED
      BY <3>4, <3>5
  <2>1. OwnerIffActive' /\ LaneInv' /\ CancelWins' /\ ExecutorOwnsSession'
    BY <1>3, <2>0, ClosedSafe
       DEF ReconcileJob, Started, Executing, Results, worker
  <2>2. LaunchInv'
    BY <1>0, <1>3
       DEF IInv, SafetyInv, LaunchInv, Closed, Frame, Started, Executing,
           Results, ReconcileJob, server, worker, Typed
  <2>3. ShieldInv'
    BY <1>0, <1>3, <2>0
       DEF IInv, SafetyInv, ShieldInv, LaunchInv, Started, Executing, Closed,
           Frame, Results, ReconcileJob, server, worker, Typed
  <2>4. ServerInv'
    BY <1>0, <1>3
       DEF IInv, SafetyInv, ServerInv, Closed, Frame, ReconcileJob, server,
           worker, Typed
  <2> QED
    BY <2>1, <2>2, <2>3, <2>4 DEF SafetyInv
<1> QED
  BY <1>1, <1>2, <1>3 DEF SafetyInv

LEMMA RecoverLaunchedSafe ==
    ASSUME IInv, NEW j \in Jobs, RecoverLaunched(j)
    PROVE  SafetyInv'
<1>0. Typed(j)
  BY TypedFacts
<1>1. /\ UNCHANGED <<home, proc, shields, signalled, launch, api>>
      /\ snap' = [snap EXCEPT ![j] = NoSnap]
      /\ api = "recovering"
      /\ snap[j] # NoSnap
  BY DEF RecoverLaunched, worker
<1>2. CASE /\ UNCHANGED <<row, owner>>
           /\ UNCHANGED kill \/ kill' = [kill EXCEPT ![j] = "authorize"]
  BY <1>0, <1>1, <1>2
     DEF IInv, SafetyInv, OwnerIffActive, LaneInv, LaunchInv, ShieldInv,
         ServerInv, CancelWins, ExecutorOwnsSession, Started, Executing,
         Results, Typed
<1>3. CASE /\ Write(j, [row[j] EXCEPT !.fence = "committed"])
           /\ row[j].depth = 0
           /\ UNCHANGED <<owner, kill>>
  <2>0. /\ Frame(j)
        /\ row'[j].status = row[j].status
        /\ row'[j].version = row[j].version
        /\ row'[j].acked = row[j].acked
        /\ row'[j].cancel = row[j].cancel
        /\ row'[j].depth = row[j].depth
        /\ row'[j].fence = "committed"
    BY <1>0, <1>3, FenceEffect DEF Typed
  <2>1. OwnerIffActive'
    BY <1>0, <1>1, <1>3, <2>0
       DEF IInv, SafetyInv, OwnerIffActive, Frame, Typed
  <2>2. LaneInv'
    BY <1>0, <1>1, <1>3, <2>0 DEF IInv, SafetyInv, LaneInv, Frame, Typed
  <2>3. LaunchInv'
    BY <1>0, <1>1, <1>3, <2>0
       DEF IInv, SafetyInv, LaunchInv, ExecutorOwnsSession, Started,
           Executing, Results, Frame, Typed
  <2>4. ShieldInv'
    BY <1>0, <1>1, <1>3, <2>0
       DEF IInv, SafetyInv, ShieldInv, LaunchInv, Started, Executing, Results,
           Frame, Typed
  <2>5. ServerInv'
    BY <1>0, <1>1, <1>3, <2>0 DEF IInv, SafetyInv, ServerInv, Frame, Typed
  <2>6. CancelWins'
    BY <1>0, <1>1, <1>3, <2>0 DEF IInv, SafetyInv, CancelWins, Frame, Typed
  <2>7. ExecutorOwnsSession'
    BY <1>0, <1>1, <1>3, <2>0
       DEF IInv, SafetyInv, ExecutorOwnsSession, OwnerIffActive, LaneInv,
           LaunchInv, Started, Executing, Results, Frame, Typed
  <2> QED
    BY <2>1, <2>2, <2>3, <2>4, <2>5, <2>6, <2>7 DEF SafetyInv
<1>4. CASE Closed(j) /\ UNCHANGED kill /\ ~Started(j)
  <2>1. OwnerIffActive' /\ LaneInv' /\ CancelWins' /\ ExecutorOwnsSession'
    BY <1>0, <1>1, <1>4, ClosedSafe DEF Results, Started, Executing, Typed
  <2>2. LaunchInv'
    BY <1>0, <1>1, <1>4
       DEF IInv, SafetyInv, LaunchInv, Closed, Frame, Started, Executing,
           Results, Typed
  <2>3. ShieldInv'
    BY <1>0, <1>1, <1>4
       DEF IInv, SafetyInv, ShieldInv, Closed, Frame, Started, Executing,
           Typed
  <2>4. ServerInv'
    BY <1>0, <1>1, <1>4 DEF IInv, SafetyInv, ServerInv, Closed, Frame, Typed
  <2> QED
    BY <2>1, <2>2, <2>3, <2>4 DEF SafetyInv
<1>5. \/ /\ UNCHANGED <<row, owner>>
         /\ UNCHANGED kill \/ kill' = [kill EXCEPT ![j] = "authorize"]
      \/ /\ Write(j, [row[j] EXCEPT !.fence = "committed"])
         /\ row[j].depth = 0
         /\ UNCHANGED <<owner, kill>>
      \/ /\ Close(j, Active, "failed") /\ UNCHANGED kill
         /\ ~snap[j].acked \/ proc[j] = "gone"
  BY <1>0 DEF RecoverLaunched, Identity, Typed
<1>6. ~snap[j].acked \/ proc[j] = "gone" => ~Started(j)
  BY <1>0, <1>1
     DEF IInv, SafetyInv, ServerInv, LaunchInv, Started, Executing, Results,
         Typed
<1>7. Close(j, Active, "failed") =>
         UNCHANGED <<row, owner, sessionStatus>> \/ Closed(j)
  BY <1>0, CloseEffect DEF Typed
<1> QED
  BY <1>2, <1>3, <1>4, <1>5, <1>6, <1>7 DEF SafetyInv

(***************************************************************************)
(* One step per action of each group.                                       *)
(***************************************************************************)
LEMMA SafetyLaunch ==
    ASSUME IInv, NEW j \in Jobs,
           LaunchStep(j)
    PROVE  SafetyInv'
<1>0. /\ row \in [Jobs -> Rows]
      /\ owner \in [Sessions -> Jobs \cup {NoJob}]
      /\ home \in [Jobs -> [session : Sessions \cup {NoSession},
                            lane : Sessions \cup {NoSession}]]
      /\ proc \in [Jobs -> ProcStates]
      /\ shields \in [Jobs -> Nat]
      /\ signalled \in [Jobs -> BOOLEAN]
      /\ launch \in [Jobs -> {"idle", "created", "started", "claimed",
                              "spawned", "acked", "abort"}]
      /\ kill \in [Jobs -> {"idle", "sleep", "authorize", "signal", "wait",
                            "finish"}]
      /\ snap \in [Jobs -> Snaps \cup {NoSnap}]
  BY DEF IInv, TypeOK
<1> USE DEF IInv, SafetyInv, OwnerIffActive, LaneInv, LaunchInv, ShieldInv,
            ServerInv, CancelWins, ExecutorOwnsSession, Started,
            Executing, Results
<1>1. CASE StartSession(j)
  BY <1>0, <1>1 DEF StartSession, worker
<1>2. CASE ClaimLaunch(j)
  BY <1>2, ClaimLaunchSafe
<1>3. CASE Spawn(j)
  BY <1>0, <1>3 DEF Spawn, durable
<1>4. CASE AcknowledgeSpawn(j)
  BY <1>4, AcknowledgeSpawnSafe
<1>5. CASE Release(j)
  BY <1>0, <1>5 DEF Release, durable
<1>6. CASE LaunchFails(j)
  BY <1>0, <1>6 DEF LaunchFails, Alive, durable
<1>7. CASE Compensate(j)
  BY <1>7, CompensateSafe
<1>8. CASE DropRelaunch(j)
  BY <1>0, <1>8 DEF DropRelaunch, durable, worker
<1> QED
  BY <1>1, <1>2, <1>3, <1>4, <1>5, <1>6, <1>7, <1>8 DEF LaunchStep

LEMMA SafetyWorker ==
    ASSUME IInv, NEW j \in Jobs,
           WorkerStep(j)
    PROVE  SafetyInv'
<1>0. /\ row \in [Jobs -> Rows]
      /\ owner \in [Sessions -> Jobs \cup {NoJob}]
      /\ home \in [Jobs -> [session : Sessions \cup {NoSession},
                            lane : Sessions \cup {NoSession}]]
      /\ proc \in [Jobs -> ProcStates]
      /\ shields \in [Jobs -> Nat]
      /\ signalled \in [Jobs -> BOOLEAN]
      /\ launch \in [Jobs -> {"idle", "created", "started", "claimed",
                              "spawned", "acked", "abort"}]
      /\ kill \in [Jobs -> {"idle", "sleep", "authorize", "signal", "wait",
                            "finish"}]
      /\ snap \in [Jobs -> Snaps \cup {NoSnap}]
  BY DEF IInv, TypeOK
<1> USE DEF IInv, SafetyInv, OwnerIffActive, LaneInv, LaunchInv, ShieldInv,
            ServerInv, CancelWins, ExecutorOwnsSession, Started,
            Executing, Results
<1>1. CASE GateClosed(j)
  BY <1>0, <1>1 DEF GateClosed, Exit, durable, server
<1>2. CASE ChildStart(j)
  BY <1>2, ChildStartSafe
<1>3. CASE Heartbeat(j)
  BY <1>0, <1>3 DEF Heartbeat, Write, Rows, worker, server
<1>4. CASE EnterShield(j)
  BY <1>4, EnterShieldSafe
<1>5. CASE ExitShield(j)
  BY <1>5, ExitShieldSafe
<1>6. CASE ObserveCancel(j)
  BY <1>0, <1>6 DEF ObserveCancel, durable, server
<1>7. CASE LoseOwnership(j)
  BY <1>0, <1>7 DEF LoseOwnership, durable, server
<1>8. CASE HandlerReturns(j)
  BY <1>0, <1>8 DEF HandlerReturns, durable, server
<1>9. CASE HandlerRaises(j)
  BY <1>0, <1>9 DEF HandlerRaises, durable, server
<1>10. CASE MarkLimited(j)
  BY <1>0, <1>10 DEF MarkLimited, worker, server
<1>11. CASE WorkerFinish(j)
  BY <1>11, WorkerFinishSafe
<1>12. CASE WorkerExit(j)
  BY <1>0, <1>12 DEF WorkerExit, Exit, durable, server
<1>13. CASE WorkerCrash(j)
  BY <1>0, <1>13 DEF WorkerCrash, Exit, Alive, durable, server
<1>14. CASE SignalDelivered(j)
  BY <1>0, <1>14 DEF SignalDelivered, Exit, Alive, durable, server
<1> QED
  BY <1>1, <1>2, <1>3, <1>4, <1>5, <1>6, <1>7, <1>8, <1>9, <1>10, <1>11,
     <1>12, <1>13, <1>14 DEF WorkerStep

LEMMA SafetyCancel ==
    ASSUME IInv, NEW j \in Jobs,
           CancelQueued(j) \/ CancelLaunched(j) \/ TimeStep(j) \/ KillStep(j)
    PROVE  SafetyInv'
<1>0. /\ row \in [Jobs -> Rows]
      /\ owner \in [Sessions -> Jobs \cup {NoJob}]
      /\ home \in [Jobs -> [session : Sessions \cup {NoSession},
                            lane : Sessions \cup {NoSession}]]
      /\ proc \in [Jobs -> ProcStates]
      /\ shields \in [Jobs -> Nat]
      /\ signalled \in [Jobs -> BOOLEAN]
      /\ launch \in [Jobs -> {"idle", "created", "started", "claimed",
                              "spawned", "acked", "abort"}]
      /\ kill \in [Jobs -> {"idle", "sleep", "authorize", "signal", "wait",
                            "finish"}]
      /\ snap \in [Jobs -> Snaps \cup {NoSnap}]
  BY DEF IInv, TypeOK
<1> USE DEF IInv, SafetyInv, OwnerIffActive, LaneInv, LaunchInv, ShieldInv,
            ServerInv, CancelWins, ExecutorOwnsSession, Started,
            Executing, Results
<1>1. CASE CancelQueued(j)
  BY <1>1, CancelQueuedSafe
<1>2. CASE CancelLaunched(j)
  BY <1>2, CancelLaunchedSafe
<1>3. CASE LeaseLapses(j)
  BY <1>0, <1>3 DEF LeaseLapses, Write, Rows, worker, server
<1>4. CASE DeadlinePasses(j)
  BY <1>0, <1>4 DEF DeadlinePasses, Write, Rows, worker, server
<1>5. CASE EscalateCheck(j)
  BY <1>5, EscalateCheckSafe
<1>6. CASE AuthorizeSignal(j)
  BY <1>6, AuthorizeSignalSafe
<1>7. CASE SendSignal(j)
  BY <1>7, SendSignalSafe
<1>8. CASE AwaitExit(j)
  BY <1>0, <1>8 DEF AwaitExit, durable, worker
<1>9. CASE KillFinish(j)
  BY <1>9, KillFinishSafe
<1> QED
  BY <1>1, <1>2, <1>3, <1>4, <1>5, <1>6, <1>7, <1>8, <1>9
     DEF TimeStep, KillStep

LEMMA SafetyReconcile ==
    ASSUME IInv, NEW j \in Jobs,
           ReconcileStep(j) \/ RecoverStep(j)
    PROVE  SafetyInv'
<1>0. /\ row \in [Jobs -> Rows]
      /\ owner \in [Sessions -> Jobs \cup {NoJob}]
      /\ home \in [Jobs -> [session : Sessions \cup {NoSession},
                            lane : Sessions \cup {NoSession}]]
      /\ proc \in [Jobs -> ProcStates]
      /\ shields \in [Jobs -> Nat]
      /\ signalled \in [Jobs -> BOOLEAN]
      /\ launch \in [Jobs -> {"idle", "created", "started", "claimed",
                              "spawned", "acked", "abort"}]
      /\ kill \in [Jobs -> {"idle", "sleep", "authorize", "signal", "wait",
                            "finish"}]
      /\ snap \in [Jobs -> Snaps \cup {NoSnap}]
  BY DEF IInv, TypeOK
<1> USE DEF IInv, SafetyInv, OwnerIffActive, LaneInv, LaunchInv, ShieldInv,
            ServerInv, CancelWins, ExecutorOwnsSession, Started,
            Executing, Results
<1>1. CASE Reap(j)
  BY <1>0, <1>1 DEF Reap, durable, server
<1>2. CASE Scan(j)
  BY <1>0, <1>2, ConstantsAssumption
     DEF Scan, Snapshot, Snaps, Rows, durable, worker
<1>3. CASE ReconcileJob(j)
  BY <1>3, ReconcileJobSafe
<1>4. CASE RecoverCancelling(j)
  BY <1>0, <1>4, ConstantsAssumption DEF RecoverCancelling, durable, worker
<1>5. CASE RecoverLaunched(j)
  BY <1>5, RecoverLaunchedSafe
<1>6. CASE ResumeJob(j)
  BY <1>0, <1>6 DEF ResumeJob, durable, worker
<1> QED
  BY <1>1, <1>2, <1>3, <1>4, <1>5, <1>6 DEF ReconcileStep, RecoverStep

LEMMA SafetyServer ==
    ASSUME IInv, Crash \/ Boot \/ BeginResume \/ Serve
    PROVE  SafetyInv'
<1>0. /\ row \in [Jobs -> Rows]
      /\ owner \in [Sessions -> Jobs \cup {NoJob}]
      /\ home \in [Jobs -> [session : Sessions \cup {NoSession},
                            lane : Sessions \cup {NoSession}]]
      /\ proc \in [Jobs -> ProcStates]
      /\ shields \in [Jobs -> Nat]
      /\ signalled \in [Jobs -> BOOLEAN]
      /\ launch \in [Jobs -> {"idle", "created", "started", "claimed",
                              "spawned", "acked", "abort"}]
      /\ kill \in [Jobs -> {"idle", "sleep", "authorize", "signal", "wait",
                            "finish"}]
      /\ snap \in [Jobs -> Snaps \cup {NoSnap}]
  BY DEF IInv, TypeOK
<1> USE DEF IInv, SafetyInv, OwnerIffActive, LaneInv, LaunchInv, ShieldInv,
            ServerInv, CancelWins, ExecutorOwnsSession, Started,
            Executing, Results
<1>1. CASE Crash
  BY <1>0, <1>1, ConstantsAssumption DEF Crash, durable
<1>2. CASE Boot
  BY <1>0, <1>2, ConstantsAssumption
     DEF Boot, Snapshot, Snaps, Rows, durable, worker
<1>3. CASE BeginResume
  BY <1>0, <1>3 DEF BeginResume, durable, worker
<1>4. CASE Serve
  BY <1>0, <1>4 DEF Serve, durable, worker
<1> QED
  BY <1>1, <1>2, <1>3, <1>4

LEMMA SafetyCreate ==
    ASSUME IInv, NEW j \in Jobs, NEW p \in Placements, Create(j, p)
    PROVE  SafetyInv'
<1>0. /\ row \in [Jobs -> Rows]
      /\ owner \in [Sessions -> Jobs \cup {NoJob}]
      /\ home \in [Jobs -> [session : Sessions \cup {NoSession},
                            lane : Sessions \cup {NoSession}]]
      /\ proc \in [Jobs -> ProcStates]
      /\ shields \in [Jobs -> Nat]
      /\ signalled \in [Jobs -> BOOLEAN]
      /\ launch \in [Jobs -> {"idle", "created", "started", "claimed",
                              "spawned", "acked", "abort"}]
      /\ kill \in [Jobs -> {"idle", "sleep", "authorize", "signal", "wait",
                            "finish"}]
      /\ snap \in [Jobs -> Snaps \cup {NoSnap}]
  BY DEF IInv, TypeOK
<1>1. p.session \in Sessions /\ NoJob \notin Jobs
  BY ConstantsAssumption
<1> QED
  BY <1>0, <1>1
     DEF IInv, SafetyInv, OwnerIffActive, LaneInv, LaunchInv, ShieldInv,
         ServerInv, CancelWins, ExecutorOwnsSession, Started, Executing,
         Results, Create, Write, Rows, worker

(***************************************************************************)
(* The invariant holds initially and every step preserves it.               *)
(***************************************************************************)
LEMMA SafetyInit == Init => SafetyInv
  BY ConstantsAssumption
     DEF Init, NewRow, SafetyInv, OwnerIffActive, LaneInv, LaunchInv, ShieldInv,
         ServerInv, CancelWins, ExecutorOwnsSession, Started, Executing, Results

LEMMA IInvNext == IInv /\ [Next]_vars => IInv'
<1> SUFFICES ASSUME IInv, [Next]_vars PROVE IInv'
  OBVIOUS
<1>1. TypeOK'
  BY TypeNext DEF IInv
<1>2. CASE UNCHANGED vars
  BY <1>1, <1>2
     DEF IInv, SafetyInv, OwnerIffActive, LaneInv, LaunchInv, ShieldInv,
         ServerInv, CancelWins, ExecutorOwnsSession, Started, Executing,
         vars, durable, worker, server
<1>3. CASE Next
  <2>1. SafetyInv'
    BY <1>3, SafetyCreate, SafetyLaunch, SafetyWorker, SafetyCancel,
       SafetyReconcile, SafetyServer
       DEF Next
  <2> QED
    BY <1>1, <2>1 DEF IInv
<1> QED
  BY <1>2, <1>3

\* The inductive invariant holds in every reachable state.
THEOREM Inductive == Spec => []IInv
<1>1. Init => IInv
  BY TypeInit, SafetyInit DEF IInv
<1> QED
  BY <1>1, IInvNext, PTL DEF Spec

(***************************************************************************)
(* The safety properties.                                                   *)
(***************************************************************************)

\* No reconciler, escalation, failed launch or restart ever closes a job
\* under a worker that executes it.
THEOREM ExecutorOwns == Spec => []ExecutorOwnsSession
<1>1. IInv => ExecutorOwnsSession
  BY DEF IInv, SafetyInv
<1> QED
  BY <1>1, Inductive, PTL

\* sessions.active_job_id and the jobs table agree in every reachable state.
THEOREM OwnerAgrees == Spec => []OwnerIffActive
<1>1. IInv => OwnerIffActive
  BY DEF IInv, SafetyInv
<1> QED
  BY <1>1, Inductive, PTL

\* An accepted cancellation is never overwritten by another outcome.
THEOREM CancelAlwaysWins == Spec => []CancelWins
<1>1. IInv => CancelWins
  BY DEF IInv, SafetyInv
<1> QED
  BY <1>1, Inductive, PTL

\* Two workers never execute in the same session or in the same lane.
THEOREM MutualExclusion == Spec => []LaneExclusive
<1>1. ASSUME IInv PROVE LaneExclusive
  <2> SUFFICES ASSUME NEW j \in Jobs, NEW k \in Jobs, j # k,
                      Executing(j), Executing(k)
               PROVE  /\ home[j].session # home[k].session
                      /\ home[j].lane # home[k].lane
    BY DEF LaneExclusive
  <2>1. /\ row[j].status \in Active /\ owner[home[j].session] = j
        /\ row[k].status \in Active /\ owner[home[k].session] = k
    BY <1>1 DEF IInv, SafetyInv, ExecutorOwnsSession
  <2> QED
    BY <1>1, <2>1 DEF IInv, SafetyInv, LaneInv
<1> QED
  BY <1>1, Inductive, PTL

\* No signal reaches a worker inside a durable shield.
THEOREM ShieldsRespected == Spec => []ShieldedNeverSignalled
<1>1. ASSUME IInv PROVE ShieldedNeverSignalled
  <2> SUFFICES ASSUME NEW j \in Jobs, signalled[j] PROVE shields[j] = 0
    BY DEF ShieldedNeverSignalled
  <2>1. shields[j] \in Nat
    BY <1>1 DEF IInv, TypeOK
  <2> QED
    BY <1>1, <2>1 DEF IInv, SafetyInv, ShieldInv
<1> QED
  BY <1>1, Inductive, PTL

(***************************************************************************)
(* How a step may end a row, or touch one that has ended.  A terminal row    *)
(* has no open shield, which TerminalIsFinal needs and IInv does not say.    *)
(***************************************************************************)
EndsWell(j) ==
    /\ row[j].status \in Terminal =>
          row'[j].status = row[j].status /\ row'[j].depth = row[j].depth
    /\ row[j].status \notin Terminal /\ row'[j].status \in Terminal =>
          row'[j].depth = 0

NoShieldAtEnd == \A j \in Jobs : row[j].status \in Terminal => row[j].depth = 0

\* Closing ends a row well: it finds the row active and clears its depth.
LEMMA CloseEnds ==
    ASSUME IInv, NEW j \in Jobs, NEW from \in SUBSET Active,
           NEW wanted \in Terminal, Close(j, from, wanted)
    PROVE  Frame(j) /\ EndsWell(j)
<1>1. UNCHANGED <<row, owner, sessionStatus>> \/ Closed(j)
  BY CloseEffect DEF IInv
<1> QED
  BY <1>1 DEF Closed, Frame, EndsWell

LEMMA WorkerEnds ==
    ASSUME IInv, NEW j \in Jobs, WorkerStep(j)
    PROVE  Frame(j) /\ EndsWell(j)
<1>0. Typed(j) /\ row \in [Jobs -> Rows]
  BY TypedFacts DEF IInv, TypeOK
<1>1. proc[j] = "working" => row[j].status \in Active
  BY DEF IInv, SafetyInv, ExecutorOwnsSession, Executing
<1>2. CASE ChildStart(j)
  <2>1. \/ /\ Frame(j) /\ row[j].status = "launching"
           /\ row'[j].status = "running"
        \/ Close(j, Launched, "cancelled")
        \/ UNCHANGED row
    BY <1>0, <1>2, ChildStartEffect DEF Typed
  <2>2. Close(j, Launched, "cancelled") => Frame(j) /\ EndsWell(j)
    BY CloseEnds
  <2> QED
    BY <2>1, <2>2 DEF Frame, EndsWell
<1>3. CASE EnterShield(j)
  BY <1>0, <1>1, <1>3, EnterShieldEffect DEF EndsWell, Typed
<1>4. CASE ExitShield(j)
  BY <1>0, <1>1, <1>4, ExitShieldEffect DEF EndsWell, Typed
<1>5. CASE WorkerFinish(j)
  BY <1>5, CloseEnds DEF WorkerFinish, Results
<1>6. CASE Heartbeat(j)
  BY <1>0, <1>6 DEF Heartbeat, Write, Rows, Frame, EndsWell
<1>7. CASE UNCHANGED row
  BY <1>7 DEF Frame, EndsWell
<1> QED
  BY <1>2, <1>3, <1>4, <1>5, <1>6, <1>7
     DEF WorkerStep, GateClosed, ObserveCancel, LoseOwnership, HandlerReturns,
         HandlerRaises, MarkLimited, WorkerExit, WorkerCrash, SignalDelivered,
         Exit, durable

LEMMA LaunchEnds ==
    ASSUME IInv, NEW j \in Jobs, LaunchStep(j)
    PROVE  Frame(j) /\ EndsWell(j)
<1>0. Typed(j)
  BY TypedFacts
<1>1. CASE ClaimLaunch(j)
  BY <1>0, <1>1, ClaimLaunchEffect DEF EndsWell, Typed
<1>2. CASE AcknowledgeSpawn(j)
  BY <1>0, <1>2, AcknowledgeSpawnEffect DEF EndsWell, Typed
<1>3. CASE Compensate(j)
  BY <1>3, CloseEnds DEF Compensate
<1>4. CASE UNCHANGED row
  BY <1>4 DEF Frame, EndsWell
<1> QED
  BY <1>1, <1>2, <1>3, <1>4
     DEF LaunchStep, StartSession, Spawn, Release, LaunchFails, DropRelaunch,
         durable

\* A queued job that is cancelled was never acknowledged, so it has no shield.
LEMMA CancelEnds ==
    ASSUME IInv, NEW j \in Jobs,
           CancelQueued(j) \/ CancelLaunched(j) \/ TimeStep(j) \/ KillStep(j)
    PROVE  Frame(j) /\ EndsWell(j)
<1>0. Typed(j) /\ row \in [Jobs -> Rows]
  BY TypedFacts DEF IInv, TypeOK
<1>1. CASE CancelQueued(j)
  <2>1. row[j].status = "queued" => row[j].depth = 0
    BY DEF IInv, SafetyInv, LaunchInv, ShieldInv
  <2> QED
    BY <1>0, <1>1, <2>1, CancelQueuedEffect DEF EndsWell, Typed
<1>2. CASE CancelLaunched(j)
  BY <1>0, <1>2, CancelLaunchedEffect DEF EndsWell, Typed
<1>3. CASE TimeStep(j)
  BY <1>0, <1>3
     DEF TimeStep, LeaseLapses, DeadlinePasses, Write, Rows, Frame, EndsWell
<1>4. CASE AuthorizeSignal(j)
  <2>1. CASE Write(j, [row[j] EXCEPT !.fence = "committed"])
    BY <1>0, <2>1, FenceEffect DEF EndsWell, Typed
  <2>2. CASE UNCHANGED row
    BY <2>2 DEF Frame, EndsWell
  <2> QED
    BY <1>4, <2>1, <2>2 DEF AuthorizeSignal
<1>5. CASE KillFinish(j)
  BY <1>5, CloseEnds DEF KillFinish
<1>6. CASE UNCHANGED row
  BY <1>6 DEF Frame, EndsWell
<1> QED
  BY <1>1, <1>2, <1>3, <1>4, <1>5, <1>6
     DEF KillStep, EscalateCheck, SendSignal, AwaitExit, durable

LEMMA ReconcileEnds ==
    ASSUME IInv, NEW j \in Jobs, ReconcileStep(j) \/ RecoverStep(j)
    PROVE  Frame(j) /\ EndsWell(j)
<1>0. Typed(j)
  BY TypedFacts
<1>1. CASE ReconcileJob(j)
  <2>1. UNCHANGED row \/ Close(j, Launched, "failed")
    BY <1>1 DEF ReconcileJob
  <2> QED
    BY <2>1, CloseEnds DEF Frame, EndsWell
<1>2. CASE RecoverLaunched(j)
  <2>1. \/ UNCHANGED row
        \/ Write(j, [row[j] EXCEPT !.fence = "committed"])
        \/ Close(j, Active, "failed")
    BY <1>2 DEF RecoverLaunched
  <2>2. CASE Write(j, [row[j] EXCEPT !.fence = "committed"])
    BY <1>0, <2>2, FenceEffect DEF EndsWell, Typed
  <2>3. CASE Close(j, Active, "failed")
    BY <2>3, CloseEnds
  <2> QED
    BY <2>1, <2>2, <2>3 DEF Frame, EndsWell
<1>3. CASE UNCHANGED row
  BY <1>3 DEF Frame, EndsWell
<1> QED
  BY <1>1, <1>2, <1>3
     DEF ReconcileStep, RecoverStep, Reap, Scan, RecoverCancelling, ResumeJob,
         durable

\* Every row, at every step.
LEMMA StepEnds ==
    ASSUME IInv, [Next]_vars, NEW k \in Jobs
    PROVE  EndsWell(k)
<1>1. CASE UNCHANGED row
  BY <1>1 DEF EndsWell
<1>2. ASSUME NEW j \in Jobs, Frame(j), EndsWell(j) PROVE EndsWell(k)
  BY <1>2 DEF Frame, EndsWell
<1>3. ASSUME NEW j \in Jobs, NEW p \in Placements, Create(j, p)
      PROVE  Frame(j) /\ EndsWell(j)
  BY <1>3 DEF Create, Write, Rows, Frame, EndsWell, IInv, TypeOK
<1>4. CASE Crash \/ Boot \/ BeginResume \/ Serve
  BY <1>1, <1>4 DEF Crash, Boot, BeginResume, Serve, durable
<1>5. CASE UNCHANGED vars
  BY <1>1, <1>5 DEF vars, durable
<1> QED
  BY <1>2, <1>3, <1>4, <1>5, WorkerEnds, LaunchEnds, CancelEnds, ReconcileEnds
     DEF Next

\* A finished job keeps its status and has no open shield, whichever of the
\* worker, the canceller, the escalation thread and the reconciler is late.
THEOREM FinishedStays == Spec => TerminalIsFinal
<1>1. Init => NoShieldAtEnd
  BY DEF Init, NewRow, NoShieldAtEnd
<1>2. ASSUME IInv, NoShieldAtEnd, [Next]_vars PROVE NoShieldAtEnd'
  <2>1. \A j \in Jobs : EndsWell(j)
    BY <1>2, StepEnds
  <2> QED
    BY <1>2, <2>1 DEF NoShieldAtEnd, EndsWell
<1>3. ASSUME IInv, NoShieldAtEnd, [Next]_vars
      PROVE  [\A j \in Jobs : row[j].status \in Terminal =>
                 row'[j].status = row[j].status /\ row'[j].depth = 0]_vars
  <2>1. \A j \in Jobs : EndsWell(j)
    BY <1>3, StepEnds
  <2> QED
    BY <1>3, <2>1 DEF NoShieldAtEnd, EndsWell
<1> QED
  BY <1>1, <1>2, <1>3, Inductive, PTL DEF Spec, TerminalIsFinal
=============================================================================
