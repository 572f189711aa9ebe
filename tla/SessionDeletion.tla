-------------------------- MODULE SessionDeletion --------------------------
(***************************************************************************)
(* The recoverable deletion of sessions (runs).  A session's row and its   *)
(* files live in different media, so a deletion is an operation with       *)
(* durable states:                                                         *)
(*                                                                         *)
(*    prepared -> fs_applied -> db_committed -> done,     or blocked       *)
(*                                                                         *)
(* The files are first moved into a quarantine, then the rows are deleted  *)
(* and an audit event is inserted in one transaction, then the event is    *)
(* mirrored into a JSONL trace shared by all deletions of the project, and *)
(* only then is the quarantine purged.  The coordinator may fail or crash  *)
(* between any two steps; a later request or the next startup resumes it.  *)
(*                                                                         *)
(* The coordinator holds the session's key lock while it runs (pc is not   *)
(* idle).  Writers of the store and of the job table take the same lock; a *)
(* chat turn that was admitted earlier, and a worker that writes a job     *)
(* result, do not.                                                         *)
(***************************************************************************)
EXTENDS Naturals

CONSTANTS
    Sessions,    \* session ids
    Last,        \* items are numbered 0 .. Last; item 0 is the directory
    Targets,     \* the session, lane and request scope of the jobs
    ChatTurns,   \* TRUE: chat turns are admitted
    MaxFaults    \* bound: I/O errors and crashes

Items == 0 .. Last

ASSUME ConstantsAssumption ==
    /\ Last \in Nat
    /\ Targets \subseteq [session : Sessions, lane : Sessions,
                          scope : Sessions]
    /\ ChatTurns \in BOOLEAN
    /\ MaxFaults \in Nat

VARIABLES
    session,  \* sessions.storage_state, "none" without a row
    op,       \* the state of the session's delete operation
    audit,    \* sessions whose deletion has its audit event in SQLite
    src,      \* what is at the source path of each item
    work,     \* what is at its quarantine path
    trace,    \* the number of lines of each deletion in the audit trace
    jobs,     \* how far the job of each target is
    turn,     \* a chat turn of the session runs in the API process
    pc,       \* where the coordinator of the session is
    at,       \* its next item
    read,     \* the audit trace it has read
    held,     \* history: the items there were when deletion was reserved
    faults    \* bound: faults so far

tables == <<session, op, audit>>
files  == <<src, work, trace>>
others == <<jobs, turn>>
memory == <<pc, at, read>>
vars   == <<tables, files, others, memory, held, faults>>

Contents  == {"none", "old", "late"}
OpStates  == {"none", "prepared", "fs_applied", "db_committed", "blocked",
              "done"}
Undecided == {"prepared", "fs_applied", "blocked"}
Committed == {"db_committed", "done"}

\* An audit trace without lines.
NoLines == [s \in Sessions |-> 0]

Init ==
    /\ session = [s \in Sessions |-> "none"]
    /\ op = [s \in Sessions |-> "none"]
    /\ audit = {}
    /\ src = [s \in Sessions |-> [i \in Items |-> "none"]]
    /\ work = [s \in Sessions |-> [i \in Items |-> "none"]]
    /\ trace = NoLines
    /\ jobs = [t \in Targets |-> "none"]
    /\ turn = [s \in Sessions |-> FALSE]
    /\ pc = [s \in Sessions |-> "idle"]
    /\ at = [s \in Sessions |-> 0]
    /\ read = [s \in Sessions |-> NoLines]
    /\ held = [s \in Sessions |-> {}]
    /\ faults = 0

-----------------------------------------------------------------------------
(* Helpers *)

\* The session key lock is free.
Unlocked(s) == pc[s] = "idle"

\* An item of a session appears at its source path; one that is there stays.
Produce(s, i) ==
    src' = [src EXCEPT ![s][i] = IF @ # "none" THEN @
                                 ELSE IF op[s] = "none" THEN "old" ELSE "late"]

\* Mutant of Goto: the loop over the items goes on where the last one ended.
GotoKeepsCursor(s, label) ==
    /\ pc' = [pc EXCEPT ![s] = label]
    /\ UNCHANGED at

\* The coordinator's next step, at the first item; idle releases the lock.
Goto(s, label) ==
    /\ pc' = [pc EXCEPT ![s] = label]
    /\ at' = [at EXCEPT ![s] = 0]

\* A job occupies a session until it is terminal, from its creation on.
JobActive(t) == jobs[t] \in {"active", "loaded"}

\* No active job names the session in any of the three columns.
Quiet(s) ==
    \A t \in Targets : JobActive(t) => s \notin {t.session, t.lane, t.scope}

SourcesAbsent(s) == \A i \in Items : src[s][i] = "none"

\* _block: an operation that is committed keeps its state.
Block(s) ==
    /\ op' = [op EXCEPT ![s] = IF @ = "db_committed" THEN @ ELSE "blocked"]
    /\ Goto(s, "idle")

-----------------------------------------------------------------------------
(* The writers around a deletion *)

\* start_session: create the row and the directory, unless a deletion was
\* ever begun for the id.
StartSession(s) ==
    /\ Unlocked(s)
    /\ op[s] = "none"
    /\ session' = [session EXCEPT ![s] = "live"]
    /\ Produce(s, 0)
    /\ UNCHANGED <<op, audit, work, trace, others, memory, held, faults>>

\* Mutant of FencedWrite: the row is not looked at under the lock.
WriteWithoutFence(s, i) ==
    /\ Unlocked(s)
    /\ Produce(s, i)
    /\ UNCHANGED <<tables, work, trace, others, memory, held, faults>>

\* A write through _session_write_transaction: artifact, trace, chat line.
FencedWrite(s, i) ==
    /\ Unlocked(s)
    /\ session[s] = "live" /\ op[s] = "none"
    /\ Produce(s, i)
    /\ UNCHANGED <<tables, work, trace, others, memory, held, faults>>

\* The service looks up the source run of a derived job before creating it.
RequestJob(t) ==
    /\ jobs[t] = "none"
    /\ t.scope # t.session => session[t.scope] = "live"
    /\ jobs' = [jobs EXCEPT ![t] = "requested"]
    /\ UNCHANGED <<tables, files, turn, memory, held, faults>>

\* create_queued_job: session and lane must not be, or have been, deleted;
\* the request scope is not looked at.
CreateJob(t) ==
    /\ jobs[t] = "requested"
    /\ \A x \in {t.session, t.lane} : Unlocked(x) /\ op[x] = "none"
    /\ \A u \in Targets : JobActive(u) =>
          u.session # t.session /\ u.lane # t.lane
    /\ session' = [session EXCEPT ![t.session] = "live"]
    /\ jobs' = [jobs EXCEPT ![t] = "active"]
    /\ UNCHANGED <<op, audit, files, turn, memory, held, faults>>

\* The worker loads its source run: only a live row is found.
LoadSource(t) ==
    /\ jobs[t] = "active"
    /\ session[t.scope] = "live"
    /\ jobs' = [jobs EXCEPT ![t] = "loaded"]
    /\ UNCHANGED <<tables, files, turn, memory, held, faults>>

\* write_job_result: under the source run's results path, without its lock.
WriteResult(t) ==
    /\ jobs[t] = "loaded"
    /\ Produce(t.scope, Last)
    /\ UNCHANGED <<tables, work, trace, others, memory, held, faults>>

\* The request is rejected, or the job becomes terminal.
EndJob(t) ==
    /\ jobs[t] # "none"
    /\ JobActive(t) =>
          \A x \in {t.session, t.lane} :
              Unlocked(x) /\ op[x] \notin Undecided \cup {"db_committed"}
    /\ jobs' = [jobs EXCEPT ![t] = "none"]
    /\ UNCHANGED <<tables, files, turn, memory, held, faults>>

\* A chat turn is admitted in a live session; deletion does not look for it.
BeginTurn(s) ==
    /\ ChatTurns
    /\ ~turn[s]
    /\ Unlocked(s)
    /\ session[s] = "live" /\ op[s] = "none"
    /\ turn' = [turn EXCEPT ![s] = TRUE]
    /\ UNCHANGED <<tables, files, jobs, memory, held, faults>>

\* It opens a graph checkpoint: mkdir of the session directory, unlocked.
OpenGraph(s) ==
    /\ turn[s]
    /\ Produce(s, 0)
    /\ UNCHANGED <<tables, work, trace, others, memory, held, faults>>

EndTurn(s) ==
    /\ turn[s]
    /\ turn' = [turn EXCEPT ![s] = FALSE]
    /\ UNCHANGED <<tables, files, jobs, memory, held, faults>>

-----------------------------------------------------------------------------
(* The coordinator *)

\* Mutant of Reserve: jobs that only name the session as their scope pass.
ReserveIgnoresScope(s) ==
    /\ Unlocked(s)
    /\ session[s] = "live" /\ op[s] = "none"
    /\ \A t \in Targets : JobActive(t) => s \notin {t.session, t.lane}
    /\ op' = [op EXCEPT ![s] = "prepared"]
    /\ session' = [session EXCEPT ![s] = "deleting"]
    /\ held' = [held EXCEPT ![s] = {i \in Items : src[s][i] # "none"}]
    /\ Goto(s, "quarantine")
    /\ UNCHANGED <<audit, files, others, read, faults>>

\* _reserve: a live session without an active job.
Reserve(s) ==
    /\ Unlocked(s)
    /\ session[s] = "live" /\ op[s] = "none"
    /\ Quiet(s)
    /\ op' = [op EXCEPT ![s] = "prepared"]
    /\ session' = [session EXCEPT ![s] = "deleting"]
    /\ held' = [held EXCEPT ![s] = {i \in Items : src[s][i] # "none"}]
    /\ Goto(s, "quarantine")
    /\ UNCHANGED <<audit, files, others, read, faults>>

\* Mutant of Resume: an operation whose files are moved is not taken up.
ResumeFromStart(s) ==
    /\ Unlocked(s)
    /\ op[s] = "prepared"
    /\ Goto(s, "quarantine")
    /\ UNCHANGED <<tables, files, others, read, held, faults>>

\* delete or recover of an operation that exists: go on where it stands.  A
\* blocked one raises.
Resume(s) ==
    /\ Unlocked(s)
    /\ \/ op[s] = "prepared" /\ Goto(s, "quarantine")
       \/ op[s] = "fs_applied" /\ Goto(s, "commit")
       \/ op[s] = "db_committed" /\ Goto(s, "mirror")
    /\ UNCHANGED <<tables, files, others, read, held, faults>>

\* Mutant of QuarantineItem: a source replaces what is in the quarantine.
QuarantineOverwrites(s) ==
    LET i == at[s] IN
    /\ pc[s] = "quarantine" /\ i \in Items
    /\ IF src[s][i] = "none" /\ work[s][i] = "none" /\ i = 0
       THEN Block(s) /\ UNCHANGED <<src, work>>
       ELSE /\ IF src[s][i] # "none"
               THEN /\ work' = [work EXCEPT ![s][i] = src[s][i]]
                    /\ src' = [src EXCEPT ![s][i] = "none"]
               ELSE UNCHANGED <<src, work>>
            /\ at' = [at EXCEPT ![s] = i + 1]
            /\ UNCHANGED <<op, pc>>
    /\ UNCHANGED <<session, audit, trace, others, read, held, faults>>

\* One item of _apply_quarantine.
QuarantineItem(s) ==
    LET i == at[s]
        missing == src[s][i] = "none" /\ work[s][i] = "none"
        both == src[s][i] # "none" /\ work[s][i] # "none"
    IN
    /\ pc[s] = "quarantine" /\ i \in Items
    /\ IF both \/ (missing /\ i = 0)
       THEN Block(s) /\ UNCHANGED <<src, work>>
       ELSE /\ IF src[s][i] # "none"
               THEN /\ work' = [work EXCEPT ![s][i] = src[s][i]]
                    /\ src' = [src EXCEPT ![s][i] = "none"]
               ELSE UNCHANGED <<src, work>>
            /\ at' = [at EXCEPT ![s] = i + 1]
            /\ UNCHANGED <<op, pc>>
    /\ UNCHANGED <<session, audit, trace, others, read, held, faults>>

\* All items are moved: prepared -> fs_applied.
FilesApplied(s) ==
    /\ pc[s] = "quarantine" /\ at[s] \notin Items
    /\ op' = [op EXCEPT ![s] = "fs_applied"]
    /\ Goto(s, "commit")
    /\ UNCHANGED <<session, audit, files, others, read, held, faults>>

\* _commit_database_deletion: a source that reappeared blocks, an active job
\* ends the attempt, else the rows go and the audit event comes at once.
\* The sources are asserted before and inside the transaction; a write after
\* an assertion is the same as one after this step.
CommitDeletion(s) ==
    /\ pc[s] = "commit"
    /\ \/ /\ ~SourcesAbsent(s)
          /\ Block(s)
          /\ UNCHANGED <<session, audit>>
       \/ /\ SourcesAbsent(s)
          /\ ~Quiet(s)
          /\ Goto(s, "idle")
          /\ UNCHANGED tables
       \/ /\ SourcesAbsent(s)
          /\ Quiet(s)
          /\ op' = [op EXCEPT ![s] = "db_committed"]
          /\ session' = [session EXCEPT ![s] = "none"]
          /\ audit' = audit \cup {s}
          /\ Goto(s, "mirror")
    /\ UNCHANGED <<files, others, read, held, faults>>

\* Mutant of MirrorRead: the audit trace is not locked.
MirrorReadUnlocked(s) ==
    /\ pc[s] = "mirror" /\ s \in audit
    /\ Goto(s, IF trace[s] = 0 THEN "replace" ELSE "purge")
    /\ read' = [read EXCEPT ![s] = trace]
    /\ UNCHANGED <<tables, files, others, held, faults>>

\* _mirror_audit: under the audit lock of the project read the trace and
\* look for the line; without an event in SQLite or with two lines, block.
MirrorRead(s) ==
    /\ pc[s] = "mirror"
    /\ \A r \in Sessions : pc[r] # "replace"
    /\ IF s \notin audit \/ trace[s] > 1
       THEN Block(s) /\ UNCHANGED read
       ELSE /\ Goto(s, IF trace[s] = 0 THEN "replace" ELSE "purge")
            /\ read' = [read EXCEPT ![s] = trace]
            /\ UNCHANGED op
    /\ UNCHANGED <<session, audit, files, others, held, faults>>

\* ... and replace it by a copy with one more line.
MirrorReplace(s) ==
    /\ pc[s] = "replace"
    /\ trace' = [read[s] EXCEPT ![s] = @ + 1]
    /\ Goto(s, "purge")
    /\ read' = [read EXCEPT ![s] = NoLines]
    /\ UNCHANGED <<tables, src, work, others, held, faults>>

\* One item of _purge_quarantine.
PurgeItem(s) ==
    /\ pc[s] = "purge" /\ at[s] \in Items
    /\ work' = [work EXCEPT ![s][at[s]] = "none"]
    /\ at' = [at EXCEPT ![s] = @ + 1]
    /\ UNCHANGED <<tables, src, trace, others, pc, read, held, faults>>

\* _mark_done: db_committed -> done, unless a source reappeared.
MarkDone(s) ==
    /\ pc[s] = "purge" /\ at[s] \notin Items
    /\ \/ ~SourcesAbsent(s) /\ Block(s)
       \/ /\ SourcesAbsent(s)
          /\ op' = [op EXCEPT ![s] = "done"]
          /\ Goto(s, "idle")
    /\ UNCHANGED <<session, audit, files, others, read, held, faults>>

\* An OSError ends the attempt; the operation can be retried.
IOFails(s) ==
    /\ ~Unlocked(s) /\ faults < MaxFaults
    /\ Goto(s, "idle")
    /\ read' = [read EXCEPT ![s] = NoLines]
    /\ faults' = faults + 1
    /\ UNCHANGED <<tables, files, others, held>>

\* The API process dies; the locks go with it, detached workers stay.
Crash ==
    /\ faults < MaxFaults
    /\ pc' = [s \in Sessions |-> "idle"]
    /\ at' = [s \in Sessions |-> 0]
    /\ read' = [s \in Sessions |-> NoLines]
    /\ turn' = [s \in Sessions |-> FALSE]
    /\ jobs' = [t \in Targets |-> IF jobs[t] = "requested" THEN "none"
                                                           ELSE jobs[t]]
    /\ faults' = faults + 1
    /\ UNCHANGED <<tables, files, held>>

-----------------------------------------------------------------------------
(* The specification *)

CoordinatorStep(s) ==
    \/ QuarantineItem(s) \/ FilesApplied(s) \/ CommitDeletion(s)
    \/ MirrorRead(s) \/ MirrorReplace(s) \/ PurgeItem(s) \/ MarkDone(s)

SessionStep(s) ==
    \/ StartSession(s) \/ \E i \in Items : FencedWrite(s, i)
    \/ BeginTurn(s) \/ OpenGraph(s) \/ EndTurn(s)

JobStep(t) ==
    \/ RequestJob(t) \/ CreateJob(t) \/ LoadSource(t) \/ WriteResult(t)
    \/ EndJob(t)

Next ==
    \/ \E s \in Sessions : \/ Reserve(s) \/ Resume(s) \/ CoordinatorStep(s)
                           \/ SessionStep(s) \/ IOFails(s)
    \/ \E t \in Targets : JobStep(t)
    \/ Crash

Spec == Init /\ [][Next]_vars

\* A running coordinator proceeds, an interrupted operation is taken up
\* again by a request or a startup, and jobs end.
LiveSpec ==
    /\ Spec
    /\ \A s \in Sessions : WF_vars(CoordinatorStep(s)) /\ WF_vars(Resume(s))
    /\ \A t \in Targets : WF_vars(EndJob(t))

-----------------------------------------------------------------------------
(* Properties *)

\* Every variable has its type: the one type invariant of the module.
TypeOK ==
    /\ session \in [Sessions -> {"none", "live", "deleting"}]
    /\ op \in [Sessions -> OpStates]
    /\ audit \subseteq Sessions
    /\ src \in [Sessions -> [Items -> Contents]]
    /\ work \in [Sessions -> [Items -> Contents]]
    /\ trace \in [Sessions -> Nat]
    /\ jobs \in [Targets -> {"none", "requested", "active", "loaded"}]
    /\ turn \in [Sessions -> BOOLEAN]
    /\ pc \in [Sessions -> {"idle", "quarantine", "commit", "mirror",
                            "replace", "purge"}]
    /\ at \in [Sessions -> 0 .. Last + 1]
    /\ read \in [Sessions -> [Sessions -> Nat]]
    /\ held \in [Sessions -> SUBSET Items]
    /\ faults \in Nat

\* Until the rows are deleted no file of the session is lost: each item that
\* was there when the deletion was reserved is at its source or in the
\* quarantine, whatever failed, crashed, was retried or written late.
NothingLost ==
    \A s \in Sessions : op[s] \in Undecided =>
        \A i \in held[s] : "old" \in {src[s][i], work[s][i]}

\* A deletion that is done left nothing behind: no row, no quarantined file,
\* one audit event and exactly one line for it in the audit trace.
DoneIsComplete ==
    \A s \in Sessions : op[s] = "done" =>
        /\ session[s] = "none" /\ s \in audit /\ trace[s] = 1
        /\ \A i \in Items : work[s][i] = "none"

\* The audit trace has at most one line per deletion, and only for deletions
\* that are committed, however often their mirroring is retried.
MirroredOnce ==
    \A s \in Sessions : trace[s] <= 1 /\ (trace[s] = 1 => op[s] \in Committed)

\* A line of the audit trace is not lost to the deletion of another session
\* that replaces the same file.
AuditLineKept ==
    [][\A s \in Sessions : trace'[s] >= trace[s]]_vars

\* No active job runs in a session, or holds a lane, that is being deleted or
\* was deleted.
NoJobOnDeleted ==
    \A t \in Targets : JobActive(t) => op[t.session] = "none"
                                       /\ op[t.lane] = "none"

\* A run that a worker has loaded as its source stays live until the worker
\* is done with it, although the worker takes none of its locks.
LoadedSourceLive ==
    \A t \in Targets : jobs[t] = "loaded" => session[t.scope] = "live"

\* A job and a deletion that meet in a session, a lane or a source run exclude
\* each other, whichever commits first: create_queued_job refuses sessions and
\* lanes under deletion, _reserve refuses active jobs on all three.
JobsAvoidDeletion == NoJobOnDeleted /\ LoadedSourceLive

\* The id of a deleted session is never used again.
NoResurrection ==
    [][\A s \in Sessions : op[s] # "none" =>
          op'[s] # "none" /\ session'[s] # "live"]_vars

\* Stated by test_session_delete_recovery.py:382, that a late writer cannot
\* recreate the source: after the rows are deleted no file of the session
\* comes back.
SourcesStayGone ==
    \A s \in Sessions : op[s] \in Committed => SourcesAbsent(s)

NoTurns == \A s \in Sessions : ~turn[s]

\* That holds of every other writer: as long as no chat turn runs, no file of
\* a deleted session comes back.
SourcesStayGoneQuietly == []NoTurns => []SourcesStayGone

\* Without chat turns, a deletion of a session whose directory is there is
\* carried to its end, across faults and restarts.
DeletionFinishes ==
    []NoTurns => \A s \in Sessions : op[s] = "prepared" /\ src[s][0] # "none"
                                         ~> op[s] = "done"

-----------------------------------------------------------------------------
(* The inductive invariant behind the safety properties *)

\* The session row, the operation and the coordinator's step agree.
StateInv ==
    \A s \in Sessions :
        /\ op[s] = "none" => session[s] # "deleting"
        /\ op[s] \in Undecided => session[s] = "deleting"
        /\ op[s] \in Committed => session[s] = "none" /\ s \in audit
        /\ pc[s] = "quarantine" => op[s] = "prepared"
        /\ pc[s] = "commit" => op[s] = "fs_applied"
        /\ pc[s] \in {"mirror", "replace", "purge"} => op[s] = "db_committed"

\* Before a deletion is reserved a session has nothing late and nothing in
\* the quarantine.
FileInv ==
    \A s \in Sessions : op[s] = "none" =>
        \A i \in Items : src[s][i] # "late" /\ work[s][i] = "none"

\* An active job has a live session.
JobInv ==
    \A t \in Targets : JobActive(t) => session[t.session] = "live"

\* One coordinator at a time replaces the audit trace, with the copy it read;
\* one that purges has its line in the trace.
MirrorInv ==
    \A s \in Sessions :
        /\ pc[s] = "replace" => read[s] = trace /\ trace[s] = 0
        /\ \A r \in Sessions : pc[s] = "replace" /\ pc[r] = "replace" => r = s
        /\ pc[s] = "purge" =>
              /\ trace[s] = 1
              /\ \A i \in Items : i < at[s] => work[s][i] = "none"

SafetyInv ==
    /\ StateInv /\ FileInv /\ JobInv /\ MirrorInv
    /\ NothingLost /\ DoneIsComplete /\ MirroredOnce /\ NoJobOnDeleted
    /\ LoadedSourceLive

IInv == TypeOK /\ SafetyInv
=============================================================================
