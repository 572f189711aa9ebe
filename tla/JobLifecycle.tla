--------------------------- MODULE JobLifecycle ---------------------------
(***************************************************************************)
(* The durable job lifecycle of the analysis workbench: one API process    *)
(* launches detached worker processes, one per job, through a start gate;  *)
(* API and workers coordinate only through the rows of SQLite.  The API    *)
(* may crash and restart while its workers keep running; a worker may die, *)
(* hang, or be killed after a cancellation whose grace period has passed.  *)
(*                                                                         *)
(* Durable state (survives an API crash): row, home, owner, sessionStatus. *)
(* Operating system: proc, signalled.  Worker memory: shields.             *)
(* API memory (lost in a crash): launch, own, kill, mode, snap, api, todo. *)
(*                                                                         *)
(* A transaction of job_lifecycle.py is one action.  What the code does    *)
(* between two transactions (a process is spawned, its identity is read,   *)
(* a signal is sent, a thread sleeps) is a step of its own, so every other *)
(* actor may run in between.  Clocks are two flags of the row: a lease     *)
(* may lapse, a cancellation deadline may pass, at any time.               *)
(***************************************************************************)
EXTENDS Naturals, FiniteSets

CONSTANTS
    Jobs,           \* job ids
    Sessions,       \* session ids, also used as lane keys
    Placements,     \* the session and lane a job may be created with
    NoJob,          \* active_job_id is null
    NoSession,      \* the session of a job not yet created
    NoSnap,         \* the API holds no scanned copy of the row
    MaxCrashes,     \* bound: API crashes
    MaxVersion,     \* bound: no shield is entered at or above this version
    MaxShields,     \* bound: durable shield entries outstanding at once
    UnclearReads,   \* TRUE: a process identity read may be inconclusive
    LeasesLapse,    \* TRUE: a lease may run out (a host may be suspended)
    StartupFaults,  \* TRUE: a startup relaunch may fail outside its guard
    HandlerLimits   \* TRUE: a handler may mark its session limited

VARIABLES
    row,            \* the jobs table
    home,           \* session_id and lane_key of each job
    owner,          \* sessions.active_job_id
    sessionStatus,  \* sessions.status
    proc,           \* where the worker process of each job is
    shields,        \* durable shield entries the worker still has to exit
    signalled,      \* a TERM/KILL was sent to the worker
    launch,         \* where the request thread that launches the job is
    own,            \* whether the process is a child of the running API
    kill,           \* where the thread that terminates the worker is
    mode,           \* why it terminates it: a due cancel, or an orphan
    snap,           \* the copy of the row scanned by reconciler or startup
    api,            \* up, down, or in one of the two startup phases
    todo,           \* startup: active jobs not yet resumed
    crashes         \* bound: crashes so far

durable  == <<row, home, owner, sessionStatus>>
worker   == <<proc, shields, signalled>>
server   == <<launch, own, kill, mode, snap, api, todo, crashes>>
vars     == <<durable, worker, server>>

-----------------------------------------------------------------------------
(* Job statuses and rows *)

Terminal == {"completed", "failed", "cancelled"}
Launched == {"launching", "running", "cancelling"}
Active   == {"queued"} \cup Launched
Statuses == {"none"} \cup Active \cup Terminal

Rows == [status : Statuses, version : Nat, acked : BOOLEAN, lease : BOOLEAN,
         cancel : BOOLEAN, due : BOOLEAN, fence : {"open", "committed"},
         depth : Nat]

Snaps == [status : Statuses, version : Nat, acked : BOOLEAN, lease : BOOLEAN]

ASSUME ConstantsAssumption ==
    /\ NoJob \notin Jobs
    /\ NoSession \notin Sessions
    /\ NoSnap \notin Snaps
    /\ Placements \subseteq [session : Sessions, lane : Sessions]
    /\ MaxCrashes \in Nat /\ MaxVersion \in Nat /\ MaxShields \in Nat
    /\ UnclearReads \in BOOLEAN /\ LeasesLapse \in BOOLEAN
    /\ StartupFaults \in BOOLEAN /\ HandlerLimits \in BOOLEAN

NewRow == [status |-> "none", version |-> 0, acked |-> FALSE,
           lease |-> FALSE, cancel |-> FALSE, due |-> FALSE,
           fence |-> "open", depth |-> 0]

SessionStatuses ==
    {"none", "running", "completed", "failed", "cancelled", "limited"}

Snapshot(j) == [status |-> row[j].status, version |-> row[j].version,
                acked |-> row[j].acked, lease |-> row[j].lease]

-----------------------------------------------------------------------------
(* Worker processes *)

Results == {"completed", "failed", "cancelled"}

\* The worker runs the job: from a successful child_start to its own finish.
Executing(j) == proc[j] \in {"working"} \cup Results

Alive(j) == Executing(j) \/ proc[j] \in {"gated", "released", "closing"}

ProcStates == {"none", "gated", "released", "working", "closing",
               "zombie", "gone"} \cup Results

\* An exited child of the running API stays a zombie until the API reaps
\* it; any other process is reaped by init at once.
Exit(j) ==
    /\ proc' = [proc EXCEPT ![j] = IF own[j] = "none" THEN "gone"
                                                      ELSE "zombie"]
    /\ shields' = [shields EXCEPT ![j] = 0]
    /\ signalled' = [signalled EXCEPT ![j] = FALSE]

\* check_process_identity, together with pid_is_alive for an inconclusive
\* read.  A zombie still has its birth identity.
Identity(j) ==
    (IF proc[j] = "gone" THEN {"gone"} ELSE {"match"})
        \cup (IF UnclearReads THEN {"unclear"} ELSE {})

-----------------------------------------------------------------------------
(* Transactions shared by several actions *)

\* An UPDATE of one row of the jobs table.
Write(j, r) == row' = [row EXCEPT ![j] = r]

\* Mutant of Close: the requested outcome replaces an accepted cancellation.
CloseForgetsCancel(j, from, wanted) ==
    IF row[j].status \in from /\ owner[home[j].session] = j
    THEN /\ Write(j, [row[j] EXCEPT !.status = wanted, !.version = @ + 1,
                                    !.lease = FALSE, !.depth = 0])
         /\ owner' = [owner EXCEPT ![home[j].session] = NoJob]
         /\ sessionStatus' = [sessionStatus EXCEPT ![home[j].session] = wanted]
    ELSE UNCHANGED <<row, owner, sessionStatus>>

\* _terminal_in_transaction / fail_active with _update_run_terminal: close
\* an active row, release its session, keep a deliberate "limited".
Close(j, from, wanted) ==
    LET s == home[j].session
        effective == IF row[j].status = "cancelling" THEN "cancelled"
                                                     ELSE wanted
    IN  IF row[j].status \in from /\ owner[s] = j
        THEN /\ Write(j, [row[j] EXCEPT !.status = effective,
                                        !.version = @ + 1, !.lease = FALSE,
                                        !.depth = 0])
             /\ owner' = [owner EXCEPT ![s] = NoJob]
             /\ sessionStatus' = [sessionStatus EXCEPT ![s] =
                    IF effective = "completed" /\ @ = "limited"
                    THEN "limited" ELSE effective]
        ELSE UNCHANGED <<row, owner, sessionStatus>>

\* The session's publish fence: its active job has a committed kill fence.
Fenced(s) == owner[s] \in Jobs /\ row[owner[s]].fence = "committed"

-----------------------------------------------------------------------------
Init ==
    /\ row = [j \in Jobs |-> NewRow]
    /\ home = [j \in Jobs |-> [session |-> NoSession, lane |-> NoSession]]
    /\ owner = [s \in Sessions |-> NoJob]
    /\ sessionStatus = [s \in Sessions |-> "none"]
    /\ proc = [j \in Jobs |-> "none"]
    /\ shields = [j \in Jobs |-> 0]
    /\ signalled = [j \in Jobs |-> FALSE]
    /\ launch = [j \in Jobs |-> "idle"]
    /\ own = [j \in Jobs |-> "none"]
    /\ kill = [j \in Jobs |-> "idle"]
    /\ mode = [j \in Jobs |-> "cancel"]
    /\ snap = [j \in Jobs |-> NoSnap]
    /\ api = "up"
    /\ todo = {}
    /\ crashes = 0

-----------------------------------------------------------------------------
(* The request thread: create, start the session, launch *)

\* Mutant of Create: no unique index on the lane.
CreateIgnoresLane(j, p) ==
    /\ api = "up"
    /\ row[j].status = "none"
    /\ owner[p.session] \in Jobs => row[owner[p.session]].status \in Terminal
    /\ Write(j, [row[j] EXCEPT !.status = "queued"])
    /\ home' = [home EXCEPT ![j] = p]
    /\ owner' = [owner EXCEPT ![p.session] = j]
    /\ sessionStatus' = [sessionStatus EXCEPT ![p.session] =
                            IF @ = "none" THEN "running" ELSE @]
    /\ launch' = [launch EXCEPT ![j] = "created"]
    /\ UNCHANGED <<worker, own, kill, mode, snap, api, todo, crashes>>

\* create_queued_job: the lane's unique index and the session's free owner
\* slot (a terminal owner is replaced) decide; one transaction.
Create(j, p) ==
    /\ api = "up"
    /\ row[j].status = "none"
    /\ \A k \in Jobs : row[k].status \in Active => home[k].lane # p.lane
    /\ owner[p.session] \in Jobs => row[owner[p.session]].status \in Terminal
    /\ Write(j, [row[j] EXCEPT !.status = "queued"])
    /\ home' = [home EXCEPT ![j] = p]
    /\ owner' = [owner EXCEPT ![p.session] = j]
    /\ sessionStatus' = [sessionStatus EXCEPT ![p.session] =
                            IF @ = "none" THEN "running" ELSE @]
    /\ launch' = [launch EXCEPT ![j] = "created"]
    /\ UNCHANGED <<worker, own, kill, mode, snap, api, todo, crashes>>

\* start_session: the session is upserted as running, whoever owns it.
StartSession(j) ==
    /\ launch[j] = "created"
    /\ ~Fenced(home[j].session)
    /\ sessionStatus' = [sessionStatus EXCEPT ![home[j].session] = "running"]
    /\ launch' = [launch EXCEPT ![j] = "started"]
    /\ UNCHANGED <<row, home, owner, worker, own, kill, mode, snap, api,
                   todo, crashes>>

\* claim_launch: a CAS from queued.  No status returns to queued, so a job
\* is launched at most once and its token and attempt need no variable.
ClaimLaunch(j) ==
    /\ launch[j] = "started"
    /\ row[j].status = "queued" /\ ~row[j].cancel
    /\ Write(j, [row[j] EXCEPT !.status = "launching", !.version = @ + 1,
                               !.acked = FALSE, !.lease = TRUE])
    /\ launch' = [launch EXCEPT ![j] = "claimed"]
    /\ UNCHANGED <<home, owner, sessionStatus, worker, own, kill, mode, snap,
                   api, todo, crashes>>

\* Popen: the child acknowledges the gate and waits for its release.
Spawn(j) ==
    /\ launch[j] = "claimed"
    /\ proc' = [proc EXCEPT ![j] = "gated"]
    /\ own' = [own EXCEPT ![j] = "child"]
    /\ launch' = [launch EXCEPT ![j] = "spawned"]
    /\ UNCHANGED <<durable, shields, signalled, kill, mode, snap, api, todo,
                   crashes>>

\* acknowledge_spawn: record pid and birth identity, a CAS from launching.
AcknowledgeSpawn(j) ==
    /\ launch[j] = "spawned"
    /\ row[j].status = "launching"
    /\ Write(j, [row[j] EXCEPT !.acked = TRUE, !.version = @ + 1])
    /\ launch' = [launch EXCEPT ![j] = "acked"]
    /\ UNCHANGED <<home, owner, sessionStatus, worker, own, kill, mode, snap,
                   api, todo, crashes>>

\* Mutant of Release: the gate is opened before the identity is recorded.
ReleaseBeforeAck(j) ==
    /\ launch[j] \in {"spawned", "acked"}
    /\ proc[j] = "gated"
    /\ proc' = [proc EXCEPT ![j] = "released"]
    /\ own' = [own EXCEPT ![j] = "registered"]
    /\ launch' = [launch EXCEPT ![j] = "idle"]
    /\ UNCHANGED <<durable, shields, signalled, kill, mode, snap, api, todo,
                   crashes>>

\* gate.release and registration in _processes.
Release(j) ==
    /\ launch[j] = "acked"
    /\ proc[j] = "gated"
    /\ proc' = [proc EXCEPT ![j] = "released"]
    /\ own' = [own EXCEPT ![j] = "registered"]
    /\ launch' = [launch EXCEPT ![j] = "idle"]
    /\ UNCHANGED <<durable, shields, signalled, kill, mode, snap, api, todo,
                   crashes>>

\* Any exception before the release: a lost CAS, a failed spawn, a gate
\* timeout, a broken pipe.  The spawned process is told to stop.  A request
\* compensates all of them, a startup relaunch those after the claim.
LaunchFails(j) ==
    /\ launch[j] \in {"created", "started", "claimed", "spawned", "acked"}
    /\ api = "resuming" => launch[j] # "started"
    /\ launch' = [launch EXCEPT ![j] = "abort"]
    /\ signalled' = [signalled EXCEPT ![j] = @ \/ Alive(j)]
    /\ UNCHANGED <<durable, proc, shields, own, kill, mode, snap, api, todo,
                   crashes>>

\* fail_active, as the compensation of a failed launch.
Compensate(j) ==
    /\ launch[j] = "abort"
    /\ Close(j, Active, "failed")
    /\ launch' = [launch EXCEPT ![j] = "idle"]
    /\ UNCHANGED <<home, worker, own, kill, mode, snap, api, todo, crashes>>

\* A startup relaunch whose claim_launch or open_parent_gate raises (a locked
\* database, no descriptors) is dropped: enqueue's compensation starts later
\* and recover_job_lifecycle swallows the exception.
DropRelaunch(j) ==
    /\ StartupFaults
    /\ api = "resuming"
    /\ launch[j] \in {"started", "claimed"}
    /\ launch' = [launch EXCEPT ![j] = "idle"]
    /\ UNCHANGED <<durable, worker, own, kill, mode, snap, api, todo, crashes>>

-----------------------------------------------------------------------------
(* The worker process *)

\* The gate closes unreleased (the launch failed or the API died).
GateClosed(j) ==
    /\ proc[j] = "gated"
    /\ launch[j] \in {"idle", "abort"}
    /\ Exit(j)
    /\ UNCHANGED <<durable, server>>

\* child_start: run, or close a job cancelled during its launch, or leave.
\* Under a committed fence the job.started event aborts the transaction.
ChildStart(j) ==
    /\ proc[j] = "released"
    /\ LET claimed == row[j].status \in {"launching", "cancelling"}
                          /\ row[j].acked
           starts == /\ claimed /\ ~row[j].cancel
                     /\ row[j].status = "launching"
                     /\ ~Fenced(home[j].session)
       IN  \/ /\ starts
              /\ Write(j, [row[j] EXCEPT !.status = "running",
                                         !.version = @ + 1, !.lease = TRUE])
              /\ proc' = [proc EXCEPT ![j] = "working"]
              /\ UNCHANGED <<owner, sessionStatus>>
           \/ /\ claimed /\ row[j].cancel
              /\ Close(j, Launched, "cancelled")
              /\ proc' = [proc EXCEPT ![j] = "closing"]
           \/ /\ ~starts /\ ~(claimed /\ row[j].cancel)
              /\ proc' = [proc EXCEPT ![j] = "closing"]
              /\ UNCHANGED <<row, owner, sessionStatus>>
    /\ UNCHANGED <<home, shields, signalled, server>>

\* Heartbeat thread: renew the lease; the version does not move.
Heartbeat(j) ==
    /\ Executing(j)
    /\ row[j].status \in {"running", "cancelling"}
    /\ ~row[j].lease
    /\ Write(j, [row[j] EXCEPT !.lease = TRUE])
    /\ UNCHANGED <<home, owner, sessionStatus, worker, server>>

\* enter_critical: nest in a held shield, or open one while nothing has
\* been cancelled.  A rejected entry unwinds the handler as cancelled.
EnterShield(j) ==
    /\ proc[j] = "working"
    /\ shields[j] < MaxShields /\ row[j].version < MaxVersion
    /\ LET nested == /\ row[j].status \in {"running", "cancelling"}
                     /\ row[j].depth > 0 /\ row[j].fence = "open"
           outer  == /\ row[j].status = "running" /\ ~row[j].cancel
                     /\ row[j].depth = 0 /\ row[j].fence = "open"
       IN  \/ /\ nested \/ outer
              /\ Write(j, [row[j] EXCEPT !.depth = @ + 1, !.version = @ + 1])
              /\ shields' = [shields EXCEPT ![j] = @ + 1]
              /\ UNCHANGED proc
           \/ /\ ~nested /\ ~outer
              /\ shields[j] = 0
              /\ proc' = [proc EXCEPT ![j] = "cancelled"]
              /\ UNCHANGED <<row, shields>>
    /\ UNCHANGED <<home, owner, sessionStatus, signalled, server>>

\* exit_critical: an exit that finds no shield of its own fails closed.
ExitShield(j) ==
    /\ proc[j] = "working"
    /\ shields[j] > 0
    /\ shields' = [shields EXCEPT ![j] = @ - 1]
    /\ \/ /\ row[j].depth > 0 /\ row[j].fence = "open"
          /\ Write(j, [row[j] EXCEPT !.depth = @ - 1, !.version = @ + 1])
          /\ UNCHANGED proc
       \/ /\ row[j].depth = 0 \/ row[j].fence = "committed"
          /\ shields[j] = 1
          /\ proc' = [proc EXCEPT ![j] = "cancelled"]
          /\ UNCHANGED row
    /\ UNCHANGED <<home, owner, sessionStatus, signalled, server>>

\* A checkpoint outside every shield sees the durable cancel flag.
ObserveCancel(j) ==
    /\ proc[j] = "working" /\ shields[j] = 0
    /\ row[j].cancel
    /\ proc' = [proc EXCEPT ![j] = "cancelled"]
    /\ UNCHANGED <<durable, shields, signalled, server>>

\* A checkpoint whose read of the row fails counts as ownership lost.
LoseOwnership(j) ==
    /\ proc[j] = "working" /\ shields[j] = 0
    /\ proc' = [proc EXCEPT ![j] = "cancelled"]
    /\ UNCHANGED <<durable, shields, signalled, server>>

\* The handler returns and the last checkpoint passes.
HandlerReturns(j) ==
    /\ proc[j] = "working" /\ shields[j] = 0
    /\ ~row[j].cancel
    /\ proc' = [proc EXCEPT ![j] = "completed"]
    /\ UNCHANGED <<durable, shields, signalled, server>>

\* The handler raises; a write rejected by the publish fence is one cause.
HandlerRaises(j) ==
    /\ proc[j] = "working" /\ shields[j] = 0
    /\ proc' = [proc EXCEPT ![j] = "failed"]
    /\ UNCHANGED <<durable, shields, signalled, server>>

\* mark_session_status(LIMITED) from inside the handler.
MarkLimited(j) ==
    /\ HandlerLimits /\ proc[j] = "working"
    /\ ~Fenced(home[j].session)
    /\ sessionStatus' = [sessionStatus EXCEPT ![home[j].session] = "limited"]
    /\ UNCHANGED <<row, home, owner, worker, server>>

\* finish, by the worker itself.
WorkerFinish(j) ==
    /\ proc[j] \in Results
    /\ Close(j, Launched, proc[j])
    /\ proc' = [proc EXCEPT ![j] = "closing"]
    /\ UNCHANGED <<home, shields, signalled, server>>

WorkerExit(j) ==
    /\ proc[j] = "closing"
    /\ Exit(j)
    /\ UNCHANGED <<durable, server>>

\* The process dies on its own, anywhere.
WorkerCrash(j) ==
    /\ Alive(j)
    /\ Exit(j)
    /\ UNCHANGED <<durable, server>>

\* TERM (no handler is installed) or KILL takes effect.
SignalDelivered(j) ==
    /\ signalled[j] /\ Alive(j)
    /\ Exit(j)
    /\ UNCHANGED <<durable, server>>

-----------------------------------------------------------------------------
(* Time *)

LeaseLapses(j) ==
    /\ LeasesLapse
    /\ row[j].status \in Launched /\ row[j].lease
    /\ Write(j, [row[j] EXCEPT !.lease = FALSE])
    /\ UNCHANGED <<home, owner, sessionStatus, worker, server>>

DeadlinePasses(j) ==
    /\ row[j].status = "cancelling" /\ ~row[j].due
    /\ Write(j, [row[j] EXCEPT !.due = TRUE])
    /\ UNCHANGED <<home, owner, sessionStatus, worker, server>>

-----------------------------------------------------------------------------
(* Cancellation *)

\* request_cancel on a queued job closes it at once.
CancelQueued(j) ==
    /\ api = "up"
    /\ row[j].status = "queued"
    /\ owner[home[j].session] = j
    /\ Write(j, [row[j] EXCEPT !.status = "cancelled", !.version = @ + 1,
                               !.cancel = TRUE, !.due = TRUE])
    /\ owner' = [owner EXCEPT ![home[j].session] = NoJob]
    /\ sessionStatus' = [sessionStatus EXCEPT ![home[j].session] =
                            "cancelled"]
    /\ UNCHANGED <<home, worker, server>>

\* Mutant of CancelLaunched: a finished job can be cancelled too.
CancelFinished(j) ==
    /\ api = "up"
    /\ row[j].status \in {"launching", "running"} \cup Terminal
    /\ ~Fenced(home[j].session)
    /\ Write(j, [row[j] EXCEPT !.status = "cancelling", !.version = @ + 1,
                               !.cancel = TRUE, !.due = FALSE])
    /\ kill' = [kill EXCEPT ![j] = IF @ = "idle" THEN "sleep" ELSE @]
    /\ UNCHANGED <<home, owner, sessionStatus, worker, launch, own, mode,
                   snap, api, todo, crashes>>

\* request_cancel on a launched job, then backend.cancel and resume_cancel:
\* at most one escalation thread per job.  Under a committed fence the
\* job.cancel_requested event aborts the transaction.
CancelLaunched(j) ==
    /\ api = "up"
    /\ \/ /\ row[j].status \in {"launching", "running"}
          /\ ~Fenced(home[j].session)
          /\ Write(j, [row[j] EXCEPT !.status = "cancelling",
                                     !.version = @ + 1, !.cancel = TRUE,
                                     !.due = FALSE])
       \/ /\ row[j].status = "cancelling" /\ kill[j] = "idle"
          /\ UNCHANGED row
    /\ kill' = [kill EXCEPT ![j] = IF @ = "idle" THEN "sleep" ELSE @]
    /\ UNCHANGED <<home, owner, sessionStatus, worker, launch, own, mode,
                   snap, api, todo, crashes>>

\* Mutant of EscalateCheck: the thread ends when it finds a shield.
EscalateOnce(j) ==
    /\ kill[j] = "sleep"
    /\ row[j].status = "cancelling" => row[j].due
    /\ LET isDue == row[j].status = "cancelling" /\ row[j].cancel
           polled == own[j] = "registered" /\ proc[j] \in {"zombie", "gone"}
       IN  \/ /\ ~isDue \/ (row[j].depth > 0 /\ row[j].fence = "open")
              /\ kill' = [kill EXCEPT ![j] = "idle"]
              /\ UNCHANGED proc
           \/ /\ isDue /\ polled
              /\ kill' = [kill EXCEPT ![j] = "finish"]
              /\ proc' = [proc EXCEPT ![j] = "gone"]
           \/ /\ isDue /\ ~(own[j] = "registered" /\ proc[j] = "zombie")
              /\ row[j].depth = 0 \/ row[j].fence = "committed"
              /\ kill' = [kill EXCEPT ![j] = "authorize"]
              /\ UNCHANGED proc
    /\ UNCHANGED <<durable, shields, signalled, launch, own, mode, snap, api,
                   todo, crashes>>

\* The escalation thread sleeps to the deadline, then looks at the row: a
\* shield makes it poll again, an exited child is closed without a signal.
\* (When the job is closed already the thread only ends; its deadline is
\* then not tracked any more.)
EscalateCheck(j) ==
    /\ kill[j] = "sleep"
    /\ row[j].status = "cancelling" => row[j].due
    /\ LET isDue == row[j].status = "cancelling" /\ row[j].cancel
           polled == own[j] = "registered" /\ proc[j] \in {"zombie", "gone"}
       IN  \/ /\ ~isDue
              /\ kill' = [kill EXCEPT ![j] = "idle"]
              /\ UNCHANGED proc
           \/ /\ isDue /\ polled
              /\ kill' = [kill EXCEPT ![j] = "finish"]
              /\ proc' = [proc EXCEPT ![j] = "gone"]
           \/ /\ isDue /\ ~(own[j] = "registered" /\ proc[j] = "zombie")
              /\ row[j].depth = 0 \/ row[j].fence = "committed"
              /\ kill' = [kill EXCEPT ![j] = "authorize"]
              /\ UNCHANGED proc
    /\ UNCHANGED <<durable, shields, signalled, launch, own, mode, snap, api,
                   todo, crashes>>

\* Mutant of MayCommit: shields are not looked at.
MayCommitInShield(j) ==
    /\ row[j].acked /\ row[j].fence = "open"
    /\ mode[j] = "cancel" =>
          row[j].status = "cancelling" /\ row[j].cancel /\ row[j].due

\* The row may be fenced for a kill: no shield, and for a cancellation the
\* deadline has passed.
MayCommit(j) ==
    /\ row[j].acked /\ row[j].fence = "open" /\ row[j].depth = 0
    /\ mode[j] = "cancel" =>
          row[j].status = "cancelling" /\ row[j].cancel /\ row[j].due

\* authorize_signal, and what terminate_identity_safe makes of a refusal:
\* go on only if the process is gone.
AuthorizeSignal(j) ==
    /\ kill[j] = "authorize"
    /\ \/ /\ MayCommit(j) /\ "match" \in Identity(j)
          /\ Write(j, [row[j] EXCEPT !.fence = "committed"])
          /\ kill' = [kill EXCEPT ![j] = "signal"]
       \/ /\ ~MayCommit(j) \/ Identity(j) # {"match"}
          /\ \E seen \in Identity(j) :
                kill' = [kill EXCEPT ![j] =
                    IF row[j].acked /\ seen = "gone" THEN "finish"
                                                     ELSE "idle"]
          /\ UNCHANGED row
    /\ UNCHANGED <<home, owner, sessionStatus, worker, launch, own, mode,
                   snap, api, todo, crashes>>

\* The identity is read again just before the signal.
SendSignal(j) ==
    /\ kill[j] = "signal"
    /\ \E seen \in Identity(j) :
          IF seen = "match"
          THEN /\ signalled' = [signalled EXCEPT ![j] = @ \/ Alive(j)]
               /\ kill' = [kill EXCEPT ![j] = "wait"]
          ELSE /\ kill' = [kill EXCEPT ![j] = "idle"]
               /\ UNCHANGED signalled
    /\ UNCHANGED <<durable, proc, shields, launch, own, mode, snap, api,
                   todo, crashes>>

\* _wait_identity_exit: the process is gone, or the grace periods of TERM
\* and KILL run out and the terminator gives up.
AwaitExit(j) ==
    /\ kill[j] = "wait"
    /\ kill' = [kill EXCEPT ![j] = IF proc[j] = "gone" THEN "finish"
                                                       ELSE "idle"]
    /\ UNCHANGED <<durable, worker, launch, own, mode, snap, api, todo,
                   crashes>>

\* The terminator closes the job: finish as cancelled, or fail_active.
KillFinish(j) ==
    /\ kill[j] = "finish"
    /\ IF mode[j] = "cancel" THEN Close(j, Launched, "cancelled")
                             ELSE Close(j, Active, "failed")
    /\ kill' = [kill EXCEPT ![j] = "idle"]
    /\ UNCHANGED <<home, worker, launch, own, mode, snap, api, todo, crashes>>

-----------------------------------------------------------------------------
(* The periodic reconciler *)

\* Mutant of Reap: exited workers are only collected after a failed launch.
ReapAbortedOnly(j) ==
    /\ proc[j] = "zombie"
    /\ launch[j] = "abort"
    /\ proc' = [proc EXCEPT ![j] = "gone"]
    /\ UNCHANGED <<durable, shields, signalled, server>>

\* _prune_processes, the reaper thread, or the wait for an aborted launch.
Reap(j) ==
    /\ proc[j] = "zombie"
    /\ own[j] = "registered" \/ launch[j] = "abort"
    /\ proc' = [proc EXCEPT ![j] = "gone"]
    /\ UNCHANGED <<durable, shields, signalled, server>>

\* list_active_jobs: copy the row; it may be stale when it is acted on.
Scan(j) ==
    /\ api = "up"
    /\ snap[j] = NoSnap
    /\ row[j].status \in Launched
    /\ snap' = [snap EXCEPT ![j] = Snapshot(j)]
    /\ UNCHANGED <<durable, worker, launch, own, kill, mode, api, todo,
                   crashes>>

\* Mutant of ReconcileJob: the row is closed whatever its version.
ReconcileStale(j) ==
    /\ api = "up"
    /\ snap[j] # NoSnap
    /\ \E seen \in Identity(j) :
          IF IF snap[j].acked THEN seen = "gone" ELSE ~snap[j].lease
          THEN Close(j, Launched, "failed")
          ELSE UNCHANGED <<row, owner, sessionStatus>>
    /\ snap' = [snap EXCEPT ![j] = NoSnap]
    /\ UNCHANGED <<home, worker, launch, own, kill, mode, api, todo, crashes>>

\* reconcile_dead_workers: only a process that is gone, or a launch that
\* outlived its lease without recording one, is closed, and only if the
\* row is still at the scanned version.
ReconcileJob(j) ==
    /\ api = "up"
    /\ snap[j] # NoSnap
    /\ \E seen \in Identity(j) :
          LET dead == IF snap[j].acked THEN seen = "gone" ELSE ~snap[j].lease
          IN  IF dead /\ row[j].version = snap[j].version
              THEN Close(j, Launched, "failed")
              ELSE UNCHANGED <<row, owner, sessionStatus>>
    /\ snap' = [snap EXCEPT ![j] = NoSnap]
    /\ UNCHANGED <<home, worker, launch, own, kill, mode, api, todo, crashes>>

-----------------------------------------------------------------------------
(* API crash and restart *)

Crash ==
    /\ api # "down" /\ crashes < MaxCrashes
    /\ api' = "down"
    /\ crashes' = crashes + 1
    /\ launch' = [j \in Jobs |-> "idle"]
    /\ own' = [j \in Jobs |-> "none"]
    /\ kill' = [j \in Jobs |-> "idle"]
    /\ mode' = [j \in Jobs |-> "cancel"]
    /\ snap' = [j \in Jobs |-> NoSnap]
    /\ todo' = {}
    /\ proc' = [j \in Jobs |-> IF proc[j] = "zombie" THEN "gone" ELSE proc[j]]
    /\ UNCHANGED <<durable, shields, signalled>>

\* recover_startup begins: one scan of all active rows.  Queued rows need
\* nothing here.
Boot ==
    /\ api = "down"
    /\ api' = "recovering"
    /\ snap' = [j \in Jobs |-> IF row[j].status \in Launched
                               THEN Snapshot(j) ELSE NoSnap]
    /\ UNCHANGED <<durable, worker, launch, own, kill, mode, todo, crashes>>

\* A scanned cancelling row: wait for a future deadline, else terminate.
RecoverCancelling(j) ==
    /\ api = "recovering"
    /\ snap[j] # NoSnap /\ snap[j].status = "cancelling"
    /\ snap' = [snap EXCEPT ![j] = NoSnap]
    /\ kill' = [kill EXCEPT ![j] =
                   IF row[j].due /\ row[j].status = "cancelling"
                   THEN "authorize" ELSE "idle"]
    /\ UNCHANGED <<durable, worker, launch, own, mode, api, todo, crashes>>

\* A scanned launching or running row.  An inconclusive identity leads to
\* authorize_signal, which reads it again and may commit the fence.
RecoverLaunched(j) ==
    /\ api = "recovering"
    /\ snap[j] # NoSnap /\ snap[j].status \in {"launching", "running"}
    /\ snap' = [snap EXCEPT ![j] = NoSnap]
    /\ \/ /\ snap[j].acked
          /\ "match" \in Identity(j)
          /\ kill' = [kill EXCEPT ![j] = IF snap[j].lease THEN @
                                                          ELSE "authorize"]
          /\ mode' = [mode EXCEPT ![j] = IF snap[j].lease THEN @
                                                          ELSE "orphan"]
          /\ UNCHANGED <<row, owner, sessionStatus>>
       \/ /\ snap[j].acked
          /\ "unclear" \in Identity(j)
          /\ \/ UNCHANGED row
             \/ /\ "match" \in Identity(j)
                /\ row[j].acked /\ row[j].fence = "open" /\ row[j].depth = 0
                /\ Write(j, [row[j] EXCEPT !.fence = "committed"])
          /\ UNCHANGED <<owner, sessionStatus, kill, mode>>
       \/ /\ ~snap[j].acked \/ "gone" \in Identity(j)
          /\ Close(j, Active, "failed")
          /\ UNCHANGED <<kill, mode>>
    /\ UNCHANGED <<home, worker, launch, own, api, todo, crashes>>

\* recover_job_lifecycle, second pass: a new scan of all active rows.
BeginResume ==
    /\ api = "recovering"
    /\ \A j \in Jobs : snap[j] = NoSnap /\ kill[j] = "idle"
    /\ api' = "resuming"
    /\ todo' = {j \in Jobs : row[j].status \in Active}
    /\ mode' = [j \in Jobs |-> "cancel"]
    /\ UNCHANGED <<durable, worker, launch, own, kill, snap, crashes>>

\* Mutant of ResumeJob: queued jobs are left queued.
ResumeCancelsOnly(j) ==
    /\ api = "resuming"
    /\ j \in todo
    /\ todo' = todo \ {j}
    /\ kill' = [kill EXCEPT ![j] = IF row[j].status = "cancelling"
                                   THEN "sleep" ELSE @]
    /\ UNCHANGED <<durable, worker, launch, own, mode, snap, api, crashes>>

\* Cancelling jobs get their timer back, queued jobs are launched.
ResumeJob(j) ==
    /\ api = "resuming"
    /\ j \in todo
    /\ todo' = todo \ {j}
    /\ kill' = [kill EXCEPT ![j] = IF row[j].status = "cancelling"
                                   THEN "sleep" ELSE @]
    /\ launch' = [launch EXCEPT ![j] = IF row[j].status = "queued"
                                       THEN "started" ELSE @]
    /\ UNCHANGED <<durable, worker, own, mode, snap, api, crashes>>

Serve ==
    /\ api = "resuming"
    /\ todo = {}
    /\ \A j \in Jobs : launch[j] = "idle"
    /\ api' = "up"
    /\ UNCHANGED <<durable, worker, launch, own, kill, mode, snap, todo,
                   crashes>>

-----------------------------------------------------------------------------
(* The specification *)

LaunchStep(j) ==
    \/ StartSession(j) \/ ClaimLaunch(j) \/ Spawn(j) \/ AcknowledgeSpawn(j)
    \/ Release(j) \/ LaunchFails(j) \/ Compensate(j) \/ DropRelaunch(j)

WorkerStep(j) ==
    \/ GateClosed(j) \/ ChildStart(j) \/ Heartbeat(j) \/ EnterShield(j)
    \/ ExitShield(j) \/ ObserveCancel(j) \/ LoseOwnership(j)
    \/ HandlerReturns(j) \/ HandlerRaises(j) \/ MarkLimited(j)
    \/ WorkerFinish(j) \/ WorkerExit(j) \/ WorkerCrash(j)
    \/ SignalDelivered(j)

TimeStep(j) == LeaseLapses(j) \/ DeadlinePasses(j)

KillStep(j) ==
    \/ EscalateCheck(j) \/ AuthorizeSignal(j) \/ SendSignal(j)
    \/ AwaitExit(j) \/ KillFinish(j)

ReconcileStep(j) == Reap(j) \/ Scan(j) \/ ReconcileJob(j)

RecoverStep(j) == RecoverCancelling(j) \/ RecoverLaunched(j) \/ ResumeJob(j)

Next ==
    \/ \E j \in Jobs :
          \/ \E p \in Placements : Create(j, p)
          \/ CancelQueued(j) \/ CancelLaunched(j)
          \/ LaunchStep(j) \/ WorkerStep(j) \/ TimeStep(j) \/ KillStep(j)
          \/ ReconcileStep(j) \/ RecoverStep(j)
    \/ Crash \/ Boot \/ BeginResume \/ Serve

Spec == Init /\ [][Next]_vars

(* Fairness.  API threads run, an operator restarts a crashed API, clocks   *)
(* advance, the kernel delivers signals and closes pipes, and a worker      *)
(* leaves a critical section it entered.  Nothing else is asked of workers. *)

ServerFairness ==
    /\ WF_vars(Boot) /\ WF_vars(BeginResume) /\ WF_vars(Serve)
    /\ \A j \in Jobs :
          /\ WF_vars(LaunchStep(j)) /\ WF_vars(KillStep(j))
          /\ WF_vars(Reap(j)) /\ WF_vars(Scan(j)) /\ WF_vars(ReconcileJob(j))
          /\ WF_vars(RecoverStep(j))

SystemFairness ==
    \A j \in Jobs :
        /\ WF_vars(LeaseLapses(j)) /\ WF_vars(DeadlinePasses(j))
        /\ WF_vars(GateClosed(j)) /\ WF_vars(WorkerExit(j))
        /\ WF_vars(SignalDelivered(j)) /\ WF_vars(ExitShield(j))

StubbornSpec == Spec /\ ServerFairness /\ SystemFairness

\* Workers that also reach their checkpoints and report their results.
Cooperation ==
    \A j \in Jobs : /\ WF_vars(ChildStart(j)) /\ WF_vars(ObserveCancel(j))
                    /\ WF_vars(WorkerFinish(j))

-----------------------------------------------------------------------------
(* Properties *)

\* Every variable has its type: the one type invariant of the module.
TypeOK ==
    /\ row \in [Jobs -> Rows]
    /\ home \in [Jobs -> [session : Sessions \cup {NoSession},
                          lane : Sessions \cup {NoSession}]]
    /\ owner \in [Sessions -> Jobs \cup {NoJob}]
    /\ sessionStatus \in [Sessions -> SessionStatuses]
    /\ proc \in [Jobs -> ProcStates]
    /\ shields \in [Jobs -> Nat]
    /\ signalled \in [Jobs -> BOOLEAN]
    /\ launch \in [Jobs -> {"idle", "created", "started", "claimed",
                            "spawned", "acked", "abort"}]
    /\ own \in [Jobs -> {"none", "child", "registered"}]
    /\ kill \in [Jobs -> {"idle", "sleep", "authorize", "signal", "wait",
                          "finish"}]
    /\ mode \in [Jobs -> {"cancel", "orphan"}]
    /\ snap \in [Jobs -> Snaps \cup {NoSnap}]
    /\ api \in {"up", "down", "recovering", "resuming"}
    /\ todo \in SUBSET Jobs
    /\ crashes \in Nat

\* While a worker executes its job, the row is running or cancelling and the
\* job is the active owner of its session: no reconciler, escalation thread,
\* failed launch or restarted API closes a job under a worker that runs.
ExecutorOwnsSession ==
    \A j \in Jobs : Executing(j) =>
        /\ row[j].status \in {"running", "cancelling"}
        /\ owner[home[j].session] = j

\* At most one worker executes in a session, and at most one in a lane.
LaneExclusive ==
    \A j, k \in Jobs : j # k /\ Executing(j) /\ Executing(k) =>
        home[j].session # home[k].session /\ home[j].lane # home[k].lane

\* A session's active_job_id and the jobs table agree: exactly the active
\* jobs own their sessions, so no session is held by a finished job and no
\* unfinished job has lost its session.
OwnerIffActive ==
    \A j \in Jobs, s \in Sessions :
        owner[s] = j <=> row[j].status \in Active /\ home[j].session = s

\* An accepted cancellation wins over whatever result the worker, the
\* reconciler or a failed launch reports later.
CancelWins ==
    \A j \in Jobs : row[j].cancel => row[j].status \in {"cancelling",
                                                       "cancelled"}

\* No worker is signalled while it is inside a durable shield.
ShieldedNeverSignalled ==
    \A j \in Jobs : signalled[j] => shields[j] = 0

\* A finished job stays as it is: no late writer revives or relabels it.
TerminalIsFinal ==
    [][\A j \in Jobs : row[j].status \in Terminal =>
          row'[j].status = row[j].status /\ row'[j].depth = 0]_vars

\* An accepted cancellation ends: the escalation thread, the reconciler and
\* the worker between them bring the row to a terminal status.
CancelTerminates ==
    \A j \in Jobs : row[j].cancel ~> row[j].status \in Terminal

\* As long as the API does not crash, cancellation ends even if the worker
\* never looks at its cancel flag: escalation alone is enough.  Across API
\* crashes it ends if workers reach their checkpoints.
CancelledJobEnds == [](crashes = 0) \/ Cooperation => CancelTerminates

\* A launched job without a live process is closed and its session released
\* (by the reconciler, the launch compensation or the next startup).
DeadWorkerReleased ==
    Cooperation =>
        \A j \in Jobs : row[j].status \in Launched /\ ~Alive(j)
                            ~> row[j].status \in Terminal \/ Alive(j)

\* A queued job does not stay queued: it is launched, failed or cancelled,
\* if need be by the next startup.
QueuedLeaves ==
    Cooperation =>
        \A j \in Jobs : row[j].status = "queued" ~> row[j].status # "queued"

\* Stated in CHANGELOG.md:210: a cancelled run is named as such.  A job that
\* ended cancelled, alone in its session and with its request thread done,
\* leaves the session cancelled.
CancelledRunIsNamed ==
    \A j \in Jobs :
        /\ row[j].status = "cancelled" /\ launch[j] = "idle"
        /\ \A k \in Jobs \ {j} : home[k].session # home[j].session
        => sessionStatus[home[j].session] = "cancelled"

-----------------------------------------------------------------------------
(* The inductive invariant behind the safety properties *)

\* The worker was released: it may read, or has read, its claim.
Started(j) == Executing(j) \/ proc[j] \in {"released", "closing"}

\* Rows and processes move together through the launch protocol: nothing is
\* released before its identity is recorded and its launcher is done.
LaunchInv ==
    \A j \in Jobs :
        /\ row[j].status \in {"none", "queued"} =>
              /\ proc[j] = "none" /\ ~row[j].acked
              /\ launch[j] \notin {"claimed", "spawned", "acked"}
        /\ launch[j] \in {"created", "started", "claimed"} =>
              proc[j] = "none" /\ ~row[j].acked
        /\ launch[j] = "spawned" =>
              proc[j] \in {"gated", "zombie", "gone"} /\ ~row[j].acked
        /\ launch[j] = "acked" =>
              proc[j] \in {"gated", "zombie", "gone"} /\ row[j].acked
        /\ launch[j] = "abort" => ~Started(j)
        /\ Started(j) => launch[j] = "idle" /\ row[j].acked

\* Only a worker that executes holds shields, the row counts them, and a
\* committed fence excludes them; a signal follows a committed fence or a
\* launch that will not be released.
ShieldInv ==
    \A j \in Jobs :
        /\ shields[j] > 0 => proc[j] = "working"
        /\ proc[j] = "working" => row[j].depth = shields[j]
        /\ row[j].fence = "committed" => row[j].depth = 0
        /\ ~row[j].acked => row[j].depth = 0
        /\ proc[j] \in {"gated", "released"} => row[j].depth = 0
        /\ kill[j] \in {"signal", "wait"} => row[j].fence = "committed"
        /\ signalled[j] => \/ row[j].fence = "committed"
                          \/ /\ proc[j] = "gated"
                             /\ launch[j] \notin {"spawned", "acked"}

\* What the API believes of a worker: a terminator about to close the job
\* saw the process gone; a scanned copy at the row's version is current;
\* a restarting API has no launcher.
ServerInv ==
    /\ api \in {"down", "recovering"} => \A j \in Jobs : launch[j] = "idle"
    /\ \A j \in Jobs :
          /\ kill[j] = "finish" => proc[j] = "gone"
          /\ snap[j] # NoSnap =>
                /\ snap[j].version <= row[j].version
                /\ snap[j].version = row[j].version =>
                      snap[j].acked = row[j].acked
                /\ api = "recovering" => snap[j].acked = row[j].acked

\* A job that was created has a session; a lane has at most one active job.
LaneInv ==
    /\ \A j \in Jobs : row[j].status # "none" => home[j].session \in Sessions
    /\ \A j, k \in Jobs :
          /\ j # k
          /\ row[j].status \in Active /\ row[k].status \in Active
          => home[j].lane # home[k].lane

SafetyInv ==
    /\ OwnerIffActive /\ LaneInv /\ LaunchInv /\ ShieldInv /\ ServerInv
    /\ CancelWins /\ ExecutorOwnsSession

IInv == TypeOK /\ SafetyInv
=============================================================================
