----------------------- MODULE SessionDeletionProofs -----------------------
(* Proofs about SessionDeletion, for every set of sessions, jobs and items, *)
(* and every number of faults.                                              *)
EXTENDS SessionDeletion, TLAPS

USE DEF tables, files, others, memory, vars, Undecided, Committed

(***************************************************************************)
(* The session, lane and scope of a job are session ids.                    *)
(***************************************************************************)
LEMMA TargetTypes ==
    \A t \in Targets : {t.session, t.lane, t.scope} \subseteq Sessions
BY ConstantsAssumption

(***************************************************************************)
(* The cursor over the items stays in range and, past the last item, every  *)
(* item lies before it.                                                     *)
(***************************************************************************)
LEMMA ItemFacts ==
    /\ Last \in Nat /\ 0 \in Items /\ Items \subseteq Nat
    /\ \A i \in Items : i + 1 \in 0 .. Last + 1
    /\ \A i \in 0 .. Last + 1 : i \notin Items => \A k \in Items : k < i
BY ConstantsAssumption DEF Items

USE TargetTypes, ItemFacts

-----------------------------------------------------------------------------
(* The parts of the inductive invariant, and what each of them depends on *)

Parts ==
    /\ TypeOK /\ StateInv /\ FileInv /\ JobInv /\ MirrorInv
    /\ NothingLost /\ DoneIsComplete /\ MirroredOnce /\ NoJobOnDeleted
    /\ LoadedSourceLive

(***************************************************************************)
(* The inductive invariant is the conjunction of its parts.                 *)
(***************************************************************************)
LEMMA PartsHold == IInv => Parts
BY DEF IInv, SafetyInv, Parts

(***************************************************************************)
(* A step that leaves the variables of a part alone preserves the part.     *)
(***************************************************************************)
LEMMA Frames ==
    /\ StateInv /\ UNCHANGED <<session, op, audit, pc>> => StateInv'
    /\ FileInv /\ UNCHANGED <<op, src, work>> => FileInv'
    /\ JobInv /\ UNCHANGED <<session, jobs>> => JobInv'
    /\ MirrorInv /\ UNCHANGED <<pc, at, read, trace, work>> => MirrorInv'
    /\ NothingLost /\ UNCHANGED <<op, held, src, work>> => NothingLost'
    /\ DoneIsComplete /\ UNCHANGED <<op, session, audit, trace, work>>
          => DoneIsComplete'
    /\ MirroredOnce /\ UNCHANGED <<op, trace>> => MirroredOnce'
    /\ NoJobOnDeleted /\ UNCHANGED <<op, jobs>> => NoJobOnDeleted'
    /\ LoadedSourceLive /\ UNCHANGED <<session, jobs>> => LoadedSourceLive'
<1>1. StateInv /\ UNCHANGED <<session, op, audit, pc>> => StateInv'
  BY DEF StateInv
<1>2. FileInv /\ UNCHANGED <<op, src, work>> => FileInv'
  BY DEF FileInv
<1>3. JobInv /\ UNCHANGED <<session, jobs>> => JobInv'
  BY DEF JobInv, JobActive
<1>4. MirrorInv /\ UNCHANGED <<pc, at, read, trace, work>> => MirrorInv'
  <2> SUFFICES ASSUME MirrorInv, UNCHANGED <<pc, at, read, trace, work>>,
                      NEW s \in Sessions
               PROVE  /\ pc[s] = "replace" => read[s] = trace /\ trace[s] = 0
                      /\ \A r \in Sessions :
                            pc[s] = "replace" /\ pc[r] = "replace" => r = s
                      /\ pc[s] = "purge" =>
                            /\ trace[s] = 1
                            /\ \A i \in Items :
                                  i < at[s] => work[s][i] = "none"
    BY DEF MirrorInv
  <2> QED
    BY DEF MirrorInv
<1>5. NothingLost /\ UNCHANGED <<op, held, src, work>> => NothingLost'
  BY DEF NothingLost
<1>6. DoneIsComplete /\ UNCHANGED <<op, session, audit, trace, work>>
         => DoneIsComplete'
  BY DEF DoneIsComplete
<1>7. MirroredOnce /\ UNCHANGED <<op, trace>> => MirroredOnce'
  BY DEF MirroredOnce
<1>8. NoJobOnDeleted /\ UNCHANGED <<op, jobs>> => NoJobOnDeleted'
  BY DEF NoJobOnDeleted, JobActive
<1>9. LoadedSourceLive /\ UNCHANGED <<session, jobs>> => LoadedSourceLive'
  BY DEF LoadedSourceLive
<1> QED
  BY <1>1, <1>2, <1>3, <1>4, <1>5, <1>6, <1>7, <1>8, <1>9

-----------------------------------------------------------------------------
(***************************************************************************)
(* A session is started, or started again, only before any deletion of it.  *)
(***************************************************************************)
LEMMA StartSessionSafe ==
    ASSUME IInv, NEW s \in Sessions, StartSession(s)
    PROVE  IInv'
<1>1. Parts
  BY PartsHold
<1>2. TypeOK'
  BY <1>1 DEF Parts, TypeOK, StartSession, Produce, Unlocked, Contents
<1>3. StateInv'
  BY <1>1 DEF Parts, StateInv, TypeOK, StartSession, Produce, Unlocked
<1>4. FileInv'
  BY <1>1 DEF Parts, FileInv, StateInv, TypeOK, StartSession, Produce,
     Unlocked
<1>5. JobInv'
  BY <1>1 DEF Parts, JobInv, NoJobOnDeleted, StateInv, TypeOK, StartSession,
     Produce, Unlocked, JobActive
<1>6. NothingLost'
  BY <1>1 DEF Parts, NothingLost, FileInv, StateInv, TypeOK, StartSession,
     Produce, Unlocked
<1>7. DoneIsComplete'
  BY <1>1 DEF Parts, DoneIsComplete, MirrorInv, StateInv, TypeOK,
     StartSession, Produce, Unlocked
<1>8. LoadedSourceLive'
  BY <1>1 DEF Parts, LoadedSourceLive, StateInv, TypeOK, StartSession,
     Produce, Unlocked
<1>9. MirrorInv' /\ MirroredOnce' /\ NoJobOnDeleted'
  BY <1>1, Frames DEF Parts, StartSession
<1> QED
  BY <1>2, <1>3, <1>4, <1>5, <1>6, <1>7, <1>8, <1>9 DEF IInv, SafetyInv

(***************************************************************************)
(* A fenced write happens only before any deletion of the session.          *)
(***************************************************************************)
LEMMA FencedWriteSafe ==
    ASSUME IInv, NEW s \in Sessions, NEW i \in Items, FencedWrite(s, i)
    PROVE  IInv'
<1>1. Parts
  BY PartsHold
<1>2. TypeOK'
  BY <1>1 DEF Parts, TypeOK, FencedWrite, Produce, Contents
<1>3. FileInv'
  <2>1. op[s] = "none" /\ UNCHANGED <<op, work>>
    BY DEF FencedWrite
  <2>2. src' = [src EXCEPT ![s][i] = IF @ # "none" THEN @ ELSE "old"]
    BY <2>1 DEF FencedWrite, Produce
  <2> QED
    BY <1>1, <2>1, <2>2 DEF Parts, FileInv, TypeOK
<1>4. NothingLost'
  BY <1>1 DEF Parts, NothingLost, FileInv, StateInv, TypeOK, FencedWrite,
     Produce
<1>5. /\ StateInv' /\ JobInv' /\ MirrorInv' /\ DoneIsComplete'
      /\ MirroredOnce' /\ NoJobOnDeleted' /\ LoadedSourceLive'
  BY <1>1, Frames DEF Parts, FencedWrite
<1> QED
  BY <1>2, <1>3, <1>4, <1>5 DEF IInv, SafetyInv

(***************************************************************************)
(* A request that was only checked changes nothing durable.                 *)
(***************************************************************************)
LEMMA RequestJobSafe ==
    ASSUME IInv, NEW t \in Targets, RequestJob(t)
    PROVE  IInv'
<1>1. Parts
  BY PartsHold
<1>2. TypeOK'
  BY <1>1 DEF Parts, TypeOK, RequestJob
<1>3. JobInv'
  BY <1>1 DEF Parts, JobInv, NoJobOnDeleted, StateInv, TypeOK, RequestJob,
     JobActive
<1>4. NoJobOnDeleted'
  BY <1>1 DEF Parts, NoJobOnDeleted, StateInv, TypeOK, RequestJob, JobActive
<1>5. LoadedSourceLive'
  BY <1>1 DEF Parts, LoadedSourceLive, StateInv, TypeOK, RequestJob
<1>6. /\ StateInv' /\ FileInv' /\ MirrorInv' /\ NothingLost'
      /\ DoneIsComplete' /\ MirroredOnce'
  BY <1>1, Frames DEF Parts, RequestJob
<1> QED
  BY <1>2, <1>3, <1>4, <1>5, <1>6 DEF IInv, SafetyInv

(***************************************************************************)
(* A job is created in a session and a lane that were never deleted.        *)
(***************************************************************************)
LEMMA CreateJobSafe ==
    ASSUME IInv, NEW t \in Targets, CreateJob(t)
    PROVE  IInv'
<1>1. Parts
  BY PartsHold
<1>2. TypeOK'
  BY <1>1 DEF Parts, TypeOK, CreateJob
<1>3. StateInv'
  BY <1>1 DEF Parts, StateInv, TypeOK, CreateJob
<1>4. JobInv'
  BY <1>1 DEF Parts, JobInv, NoJobOnDeleted, StateInv, TypeOK, CreateJob,
     JobActive
<1>5. DoneIsComplete'
  BY <1>1 DEF Parts, DoneIsComplete, MirrorInv, StateInv, TypeOK, CreateJob
<1>6. NoJobOnDeleted'
  BY <1>1 DEF Parts, NoJobOnDeleted, StateInv, TypeOK, CreateJob, JobActive
<1>7. LoadedSourceLive'
  BY <1>1 DEF Parts, LoadedSourceLive, StateInv, TypeOK, CreateJob
<1>8. FileInv' /\ MirrorInv' /\ NothingLost' /\ MirroredOnce'
  BY <1>1, Frames DEF Parts, CreateJob
<1> QED
  BY <1>2, <1>3, <1>4, <1>5, <1>6, <1>7, <1>8 DEF IInv, SafetyInv

(***************************************************************************)
(* A worker finds only a live source run.                                   *)
(***************************************************************************)
LEMMA LoadSourceSafe ==
    ASSUME IInv, NEW t \in Targets, LoadSource(t)
    PROVE  IInv'
<1>1. Parts
  BY PartsHold
<1>2. TypeOK'
  BY <1>1 DEF Parts, TypeOK, LoadSource
<1>3. JobInv'
  BY <1>1 DEF Parts, JobInv, NoJobOnDeleted, StateInv, TypeOK, LoadSource,
     JobActive
<1>4. NoJobOnDeleted'
  BY <1>1 DEF Parts, NoJobOnDeleted, StateInv, TypeOK, LoadSource, JobActive
<1>5. LoadedSourceLive'
  BY <1>1 DEF Parts, LoadedSourceLive, StateInv, TypeOK, LoadSource
<1>6. /\ StateInv' /\ FileInv' /\ MirrorInv' /\ NothingLost'
      /\ DoneIsComplete' /\ MirroredOnce'
  BY <1>1, Frames DEF Parts, LoadSource
<1> QED
  BY <1>2, <1>3, <1>4, <1>5, <1>6 DEF IInv, SafetyInv

(***************************************************************************)
(* A result is written under a source run that is still live.               *)
(***************************************************************************)
LEMMA WriteResultSafe ==
    ASSUME IInv, NEW t \in Targets, WriteResult(t)
    PROVE  IInv'
<1>1. Parts
  BY PartsHold
<1>2. t.scope \in Sessions /\ Last \in Items
  BY DEF Items
<1>3. TypeOK'
  BY <1>1, <1>2 DEF Parts, TypeOK, WriteResult, Produce, Contents
<1>4. FileInv'
  BY <1>1 DEF Parts, FileInv, StateInv, TypeOK, WriteResult, Produce
<1>5. NothingLost'
  BY <1>1 DEF Parts, NothingLost, FileInv, StateInv, TypeOK, WriteResult,
     Produce
<1>6. /\ StateInv' /\ JobInv' /\ MirrorInv' /\ DoneIsComplete'
      /\ MirroredOnce' /\ NoJobOnDeleted' /\ LoadedSourceLive'
  BY <1>1, Frames DEF Parts, WriteResult
<1> QED
  BY <1>3, <1>4, <1>5, <1>6 DEF IInv, SafetyInv

(***************************************************************************)
(* A job that ends only releases its session and its lane.                  *)
(***************************************************************************)
LEMMA EndJobSafe ==
    ASSUME IInv, NEW t \in Targets, EndJob(t)
    PROVE  IInv'
<1>1. Parts
  BY PartsHold
<1>2. TypeOK'
  BY <1>1 DEF Parts, TypeOK, EndJob
<1>3. JobInv'
  BY <1>1 DEF Parts, JobInv, NoJobOnDeleted, StateInv, TypeOK, EndJob,
     JobActive
<1>4. NoJobOnDeleted'
  BY <1>1 DEF Parts, NoJobOnDeleted, StateInv, TypeOK, EndJob, JobActive
<1>5. LoadedSourceLive'
  BY <1>1 DEF Parts, LoadedSourceLive, StateInv, TypeOK, EndJob
<1>6. /\ StateInv' /\ FileInv' /\ MirrorInv' /\ NothingLost'
      /\ DoneIsComplete' /\ MirroredOnce'
  BY <1>1, Frames DEF Parts, EndJob
<1> QED
  BY <1>2, <1>3, <1>4, <1>5, <1>6 DEF IInv, SafetyInv

(***************************************************************************)
(* Admitting a chat turn changes no state of the deletion.                  *)
(***************************************************************************)
LEMMA BeginTurnSafe ==
    ASSUME IInv, NEW s \in Sessions, BeginTurn(s)
    PROVE  IInv'
<1>1. Parts
  BY PartsHold
<1>2. TypeOK'
  BY <1>1 DEF Parts, TypeOK, BeginTurn
<1>3. /\ StateInv' /\ FileInv' /\ JobInv' /\ MirrorInv'
      /\ NothingLost' /\ DoneIsComplete' /\ MirroredOnce'
      /\ NoJobOnDeleted' /\ LoadedSourceLive'
  BY <1>1, Frames DEF Parts, BeginTurn
<1> QED
  BY <1>2, <1>3 DEF IInv, SafetyInv

(***************************************************************************)
(* A late directory never replaces what is there.                           *)
(***************************************************************************)
LEMMA OpenGraphSafe ==
    ASSUME IInv, NEW s \in Sessions, OpenGraph(s)
    PROVE  IInv'
<1>1. Parts
  BY PartsHold
<1>2. TypeOK'
  BY <1>1 DEF Parts, TypeOK, OpenGraph, Produce, Contents
<1>3. FileInv'
  BY <1>1 DEF Parts, FileInv, StateInv, TypeOK, OpenGraph, Produce
<1>4. NothingLost'
  BY <1>1 DEF Parts, NothingLost, FileInv, StateInv, TypeOK, OpenGraph,
     Produce
<1>5. /\ StateInv' /\ JobInv' /\ MirrorInv' /\ DoneIsComplete'
      /\ MirroredOnce' /\ NoJobOnDeleted' /\ LoadedSourceLive'
  BY <1>1, Frames DEF Parts, OpenGraph
<1> QED
  BY <1>2, <1>3, <1>4, <1>5 DEF IInv, SafetyInv

(***************************************************************************)
(* Ending a chat turn changes no state of the deletion.                     *)
(***************************************************************************)
LEMMA EndTurnSafe ==
    ASSUME IInv, NEW s \in Sessions, EndTurn(s)
    PROVE  IInv'
<1>1. Parts
  BY PartsHold
<1>2. TypeOK'
  BY <1>1 DEF Parts, TypeOK, EndTurn
<1>3. /\ StateInv' /\ FileInv' /\ JobInv' /\ MirrorInv'
      /\ NothingLost' /\ DoneIsComplete' /\ MirroredOnce'
      /\ NoJobOnDeleted' /\ LoadedSourceLive'
  BY <1>1, Frames DEF Parts, EndTurn
<1> QED
  BY <1>2, <1>3 DEF IInv, SafetyInv

(***************************************************************************)
(* All items are moved: the operation may be committed.                     *)
(***************************************************************************)
LEMMA FilesAppliedSafe ==
    ASSUME IInv, NEW s \in Sessions, FilesApplied(s)
    PROVE  IInv'
<1>1. Parts
  BY PartsHold
<1>2. TypeOK'
  BY <1>1 DEF Parts, TypeOK, FilesApplied, Goto, OpStates
<1>3. StateInv'
  BY <1>1 DEF Parts, StateInv, TypeOK, FilesApplied, Goto
<1>4. FileInv'
  BY <1>1 DEF Parts, FileInv, StateInv, TypeOK, FilesApplied
<1>5. MirrorInv'
  BY <1>1 DEF Parts, MirrorInv, MirroredOnce, StateInv, TypeOK, FilesApplied,
     Goto
<1>6. NothingLost'
  BY <1>1 DEF Parts, NothingLost, FileInv, StateInv, TypeOK, FilesApplied
<1>7. DoneIsComplete'
  BY <1>1 DEF Parts, DoneIsComplete, MirrorInv, StateInv, TypeOK, FilesApplied
<1>8. MirroredOnce'
  BY <1>1 DEF Parts, MirroredOnce, MirrorInv, StateInv, TypeOK, FilesApplied
<1>9. NoJobOnDeleted'
  BY <1>1 DEF Parts, NoJobOnDeleted, StateInv, TypeOK, FilesApplied, JobActive
<1>10. JobInv' /\ LoadedSourceLive'
  BY <1>1, Frames DEF Parts, FilesApplied
<1> QED
  BY <1>2, <1>3, <1>4, <1>5, <1>6, <1>7, <1>8, <1>9, <1>10 DEF IInv, SafetyInv

(***************************************************************************)
(* The audit trace is replaced by the copy read, with one more line.        *)
(***************************************************************************)
LEMMA MirrorReplaceSafe ==
    ASSUME IInv, NEW s \in Sessions, MirrorReplace(s)
    PROVE  IInv'
<1>1. Parts
  BY PartsHold
<1>2. TypeOK'
  BY <1>1 DEF Parts, TypeOK, MirrorReplace, Goto, NoLines
<1>3. StateInv'
  BY <1>1 DEF Parts, StateInv, TypeOK, MirrorReplace, Goto
<1>4. MirrorInv'
  BY <1>1 DEF Parts, MirrorInv, MirroredOnce, StateInv, TypeOK, MirrorReplace,
     Goto, NoLines
<1>5. DoneIsComplete'
  BY <1>1 DEF Parts, DoneIsComplete, MirrorInv, StateInv, TypeOK,
     MirrorReplace
<1>6. MirroredOnce'
  BY <1>1 DEF Parts, MirroredOnce, MirrorInv, StateInv, TypeOK, MirrorReplace
<1>7. /\ FileInv' /\ JobInv' /\ NothingLost' /\ NoJobOnDeleted'
      /\ LoadedSourceLive'
  BY <1>1, Frames DEF Parts, MirrorReplace
<1> QED
  BY <1>2, <1>3, <1>4, <1>5, <1>6, <1>7 DEF IInv, SafetyInv

(***************************************************************************)
(* Quarantined files are removed only after the commit.                     *)
(***************************************************************************)
LEMMA PurgeItemSafe ==
    ASSUME IInv, NEW s \in Sessions, PurgeItem(s)
    PROVE  IInv'
<1>1. Parts
  BY PartsHold
<1>2. TypeOK'
  <2>1. at[s] \in Items /\ at[s] + 1 \in 0 .. Last + 1
    BY DEF PurgeItem
  <2>2. work' \in [Sessions -> [Items -> Contents]]
    BY <1>1, <2>1 DEF Parts, TypeOK, PurgeItem, Contents
  <2>3. at' \in [Sessions -> 0 .. Last + 1]
    BY <1>1, <2>1 DEF Parts, TypeOK, PurgeItem
  <2> QED
    BY <1>1, <2>2, <2>3 DEF Parts, TypeOK, PurgeItem
<1>3. FileInv'
  BY <1>1 DEF Parts, FileInv, StateInv, TypeOK, PurgeItem
<1>4. MirrorInv'
  BY <1>1 DEF Parts, MirrorInv, MirroredOnce, StateInv, TypeOK, PurgeItem
<1>5. NothingLost'
  BY <1>1 DEF Parts, NothingLost, FileInv, StateInv, TypeOK, PurgeItem
<1>6. DoneIsComplete'
  BY <1>1 DEF Parts, DoneIsComplete, MirrorInv, StateInv, TypeOK, PurgeItem
<1>7. /\ StateInv' /\ JobInv' /\ MirroredOnce' /\ NoJobOnDeleted'
      /\ LoadedSourceLive'
  BY <1>1, Frames DEF Parts, PurgeItem
<1> QED
  BY <1>2, <1>3, <1>4, <1>5, <1>6, <1>7 DEF IInv, SafetyInv

(***************************************************************************)
(* An I/O error ends the attempt where it is.                               *)
(***************************************************************************)
LEMMA IOFailsSafe ==
    ASSUME IInv, NEW s \in Sessions, IOFails(s)
    PROVE  IInv'
<1>1. Parts
  BY PartsHold
<1>2. TypeOK'
  BY <1>1 DEF Parts, TypeOK, IOFails, Goto, NoLines
<1>3. StateInv'
  BY <1>1 DEF Parts, StateInv, TypeOK, IOFails, Goto
<1>4. MirrorInv'
  BY <1>1 DEF Parts, MirrorInv, MirroredOnce, StateInv, TypeOK, IOFails, Goto,
     NoLines
<1>5. /\ FileInv' /\ JobInv' /\ NothingLost' /\ DoneIsComplete'
      /\ MirroredOnce' /\ NoJobOnDeleted' /\ LoadedSourceLive'
  BY <1>1, Frames DEF Parts, IOFails
<1> QED
  BY <1>2, <1>3, <1>4, <1>5 DEF IInv, SafetyInv

(***************************************************************************)
(* A crash forgets the coordinators, the turns and the unmade requests.     *)
(***************************************************************************)
LEMMA CrashSafe ==
    ASSUME IInv, Crash
    PROVE  IInv'
<1>1. Parts
  BY PartsHold
<1>2. TypeOK'
  BY <1>1 DEF Parts, TypeOK, Crash, NoLines
<1>3. StateInv'
  BY <1>1 DEF Parts, StateInv, TypeOK, Crash
<1>4. JobInv'
  BY <1>1 DEF Parts, JobInv, NoJobOnDeleted, StateInv, TypeOK, Crash,
     JobActive
<1>5. MirrorInv'
  BY <1>1 DEF Parts, MirrorInv, MirroredOnce, StateInv, TypeOK, Crash, NoLines
<1>6. NoJobOnDeleted'
  BY <1>1 DEF Parts, NoJobOnDeleted, StateInv, TypeOK, Crash, JobActive
<1>7. LoadedSourceLive'
  BY <1>1 DEF Parts, LoadedSourceLive, StateInv, TypeOK, Crash
<1>8. FileInv' /\ NothingLost' /\ DoneIsComplete' /\ MirroredOnce'
  BY <1>1, Frames DEF Parts, Crash
<1> QED
  BY <1>2, <1>3, <1>4, <1>5, <1>6, <1>7, <1>8 DEF IInv, SafetyInv

(***************************************************************************)
(* A reservation records the items that are there; none of them is late.    *)
(***************************************************************************)
LEMMA ReserveSafe ==
    ASSUME IInv, NEW s \in Sessions, Reserve(s)
    PROVE  IInv'
<1>1. Parts
  BY PartsHold
<1>2. /\ op[s] = "none" /\ session[s] = "live"
      /\ \A i \in Items : src[s][i] # "late"
  BY <1>1 DEF Parts, FileInv, Reserve
<1>3. TypeOK'
  BY <1>1 DEF Parts, TypeOK, Reserve, Goto, OpStates
<1>4. StateInv'
  BY <1>1, <1>2 DEF Parts, StateInv, TypeOK, Reserve, Goto, Unlocked
<1>5. FileInv' /\ DoneIsComplete' /\ MirroredOnce'
  BY <1>1, <1>2 DEF Parts, FileInv, DoneIsComplete, MirroredOnce, TypeOK,
     Reserve
<1>6. MirrorInv'
  BY <1>1 DEF Parts, MirrorInv, TypeOK, Reserve, Goto
<1>7. NothingLost'
  <2> SUFFICES ASSUME NEW r \in Sessions, op'[r] \in Undecided,
                      NEW i \in held'[r]
               PROVE  "old" \in {src'[r][i], work'[r][i]}
    BY DEF NothingLost
  <2>1. CASE r = s
    <3>1. i \in Items /\ src[s][i] # "none"
      BY <1>1, <2>1 DEF Parts, TypeOK, Reserve
    <3>2. src[s][i] = "old"
      BY <1>1, <1>2, <3>1 DEF Parts, TypeOK, Contents
    <3> QED
      BY <2>1, <3>2 DEF Reserve
  <2>2. CASE r # s
    <3>1. op'[r] = op[r] /\ held'[r] = held[r] /\ UNCHANGED <<src, work>>
      BY <1>1, <2>2 DEF Parts, TypeOK, Reserve
    <3> QED
      BY <1>1, <3>1 DEF Parts, NothingLost
  <2> QED
    BY <2>1, <2>2
<1>8. JobInv'
  BY <1>1 DEF Parts, JobInv, TypeOK, Reserve, Quiet, JobActive
<1>9. NoJobOnDeleted'
  BY <1>1 DEF Parts, NoJobOnDeleted, TypeOK, Reserve, Quiet, JobActive
<1>10. LoadedSourceLive'
  BY <1>1 DEF Parts, LoadedSourceLive, TypeOK, Reserve, Quiet, JobActive
<1> QED
  BY <1>3, <1>4, <1>5, <1>6, <1>7, <1>8, <1>9, <1>10 DEF IInv, SafetyInv

(***************************************************************************)
(* Resuming an operation starts at the step its state names.                *)
(***************************************************************************)
LEMMA ResumeSafe ==
    ASSUME IInv, NEW s \in Sessions, Resume(s)
    PROVE  IInv'
<1>1. Parts
  BY PartsHold
<1>2. PICK label \in {"quarantine", "commit", "mirror"} :
        /\ pc' = [pc EXCEPT ![s] = label] /\ at' = [at EXCEPT ![s] = 0]
        /\ label = "quarantine" => op[s] = "prepared"
        /\ label = "commit" => op[s] = "fs_applied"
        /\ label = "mirror" => op[s] = "db_committed"
  BY DEF Resume, Goto
<1>3. UNCHANGED <<tables, files, others, read, held, faults>>
  BY DEF Resume
<1>4. TypeOK'
  BY <1>1, <1>2, <1>3 DEF Parts, TypeOK
<1>5. StateInv'
  BY <1>1, <1>2, <1>3 DEF Parts, StateInv, TypeOK
<1>6. MirrorInv'
  BY <1>1, <1>2, <1>3 DEF Parts, MirrorInv, TypeOK
<1>7. /\ FileInv' /\ JobInv' /\ NothingLost' /\ DoneIsComplete'
      /\ MirroredOnce' /\ NoJobOnDeleted' /\ LoadedSourceLive'
  BY <1>1, <1>3, Frames DEF Parts
<1> QED
  BY <1>4, <1>5, <1>6, <1>7 DEF IInv, SafetyInv

(***************************************************************************)
(* Blocking an operation before its commit keeps files and rows.            *)
(***************************************************************************)
LEMMA BlockSafe ==
    ASSUME IInv, NEW s \in Sessions, op[s] \in {"prepared", "fs_applied"},
           Block(s), UNCHANGED <<session, audit, files, others, read, held>>,
           UNCHANGED faults
    PROVE  IInv'
<1>1. Parts
  BY PartsHold
<1>2. /\ op' = [op EXCEPT ![s] = "blocked"]
      /\ pc' = [pc EXCEPT ![s] = "idle"] /\ at' = [at EXCEPT ![s] = 0]
  BY <1>1 DEF Parts, TypeOK, Block, Goto
<1>3. TypeOK'
  BY <1>1, <1>2 DEF Parts, TypeOK, OpStates
<1>4. StateInv'
  BY <1>1, <1>2 DEF Parts, StateInv, TypeOK
<1>5. FileInv' /\ NothingLost'
  BY <1>1, <1>2 DEF Parts, FileInv, NothingLost, TypeOK
<1>6. MirrorInv'
  BY <1>1, <1>2 DEF Parts, MirrorInv, TypeOK
<1>7. DoneIsComplete' /\ MirroredOnce'
  BY <1>1, <1>2 DEF Parts, DoneIsComplete, MirroredOnce, TypeOK
<1>8. NoJobOnDeleted'
  BY <1>1, <1>2 DEF Parts, NoJobOnDeleted, TypeOK, JobActive
<1>9. JobInv' /\ LoadedSourceLive'
  BY <1>1, Frames DEF Parts
<1> QED
  BY <1>3, <1>4, <1>5, <1>6, <1>7, <1>8, <1>9 DEF IInv, SafetyInv

(***************************************************************************)
(* Moving an item into the quarantine keeps its content.                    *)
(***************************************************************************)
LEMMA MoveSafe ==
    ASSUME IInv, NEW s \in Sessions, NEW i \in Items, pc[s] = "quarantine",
           src[s][i] # "none", work[s][i] = "none", at[s] = i,
           work' = [work EXCEPT ![s][i] = src[s][i]],
           src' = [src EXCEPT ![s][i] = "none"],
           at' = [at EXCEPT ![s] = i + 1],
           UNCHANGED <<tables, trace, others, pc, read, held, faults>>
    PROVE  IInv'
<1>1. Parts
  BY PartsHold
<1>2. op[s] = "prepared"
  BY <1>1 DEF Parts, StateInv
<1>3. TypeOK'
  BY <1>1 DEF Parts, TypeOK, Contents
<1>4. FileInv'
  BY <1>1, <1>2 DEF Parts, FileInv, TypeOK
<1>5. MirrorInv'
  BY <1>1 DEF Parts, MirrorInv, TypeOK
<1>6. NothingLost'
  <2> SUFFICES ASSUME NEW r \in Sessions, op[r] \in Undecided,
                      NEW k \in held[r]
               PROVE  "old" \in {src'[r][k], work'[r][k]}
    BY DEF NothingLost
  <2>1. k \in Items /\ "old" \in {src[r][k], work[r][k]}
    BY <1>1 DEF Parts, TypeOK, NothingLost
  <2> QED
    BY <1>1, <2>1 DEF Parts, TypeOK
<1>7. DoneIsComplete'
  BY <1>1, <1>2 DEF Parts, DoneIsComplete, TypeOK
<1>8. /\ StateInv' /\ JobInv' /\ MirroredOnce' /\ NoJobOnDeleted'
      /\ LoadedSourceLive'
  BY <1>1, Frames DEF Parts
<1> QED
  BY <1>3, <1>4, <1>5, <1>6, <1>7, <1>8 DEF IInv, SafetyInv

(***************************************************************************)
(* An item is moved, skipped, or blocks the operation.                      *)
(***************************************************************************)
LEMMA QuarantineItemSafe ==
    ASSUME IInv, NEW s \in Sessions, QuarantineItem(s)
    PROVE  IInv'
<1>1. Parts
  BY PartsHold
<1>2. pc[s] = "quarantine" /\ op[s] = "prepared" /\ at[s] \in Items
  BY <1>1 DEF Parts, StateInv, QuarantineItem
<1>3. CASE Block(s) /\ UNCHANGED <<src, work>>
  BY <1>2, <1>3, BlockSafe DEF QuarantineItem
<1>4. CASE /\ src[s][at[s]] # "none" /\ work[s][at[s]] = "none"
           /\ work' = [work EXCEPT ![s][at[s]] = src[s][at[s]]]
           /\ src' = [src EXCEPT ![s][at[s]] = "none"]
           /\ at' = [at EXCEPT ![s] = at[s] + 1]
           /\ UNCHANGED <<op, pc>>
  BY <1>2, <1>4, MoveSafe DEF QuarantineItem
<1>5. CASE UNCHANGED <<src, work, op, pc>> /\ at' = [at EXCEPT ![s] = at[s] + 1]
  <2>1. UNCHANGED <<tables, files, others, pc, read, held, faults>>
    BY <1>5 DEF QuarantineItem
  <2>2. TypeOK'
    BY <1>1, <1>2, <1>5, <2>1 DEF Parts, TypeOK
  <2>3. MirrorInv'
    BY <1>1, <1>2, <1>5, <2>1 DEF Parts, MirrorInv, TypeOK
  <2>4. /\ StateInv' /\ FileInv' /\ JobInv' /\ NothingLost'
        /\ DoneIsComplete' /\ MirroredOnce' /\ NoJobOnDeleted'
        /\ LoadedSourceLive'
    BY <1>1, <2>1, Frames DEF Parts
  <2> QED
    BY <2>2, <2>3, <2>4 DEF IInv, SafetyInv
<1> QED
  BY <1>3, <1>4, <1>5 DEF QuarantineItem

(***************************************************************************)
(* The commit blocks, gives way to an active job, or deletes the rows.      *)
(***************************************************************************)
LEMMA CommitDeletionSafe ==
    ASSUME IInv, NEW s \in Sessions, CommitDeletion(s)
    PROVE  IInv'
<1>1. Parts
  BY PartsHold
<1>2. op[s] = "fs_applied" /\ session[s] = "deleting"
  BY <1>1 DEF Parts, StateInv, CommitDeletion
<1>3. UNCHANGED <<files, others, read, held, faults>>
  BY DEF CommitDeletion
<1>4. CASE Block(s) /\ UNCHANGED <<session, audit>>
  BY <1>2, <1>3, <1>4, BlockSafe
<1>5. CASE Goto(s, "idle") /\ UNCHANGED tables
  <2>1. TypeOK'
    BY <1>1, <1>3, <1>5 DEF Parts, TypeOK, Goto
  <2>2. StateInv'
    BY <1>1, <1>3, <1>5 DEF Parts, StateInv, TypeOK, Goto
  <2>3. MirrorInv'
    BY <1>1, <1>3, <1>5 DEF Parts, MirrorInv, TypeOK, Goto
  <2>4. /\ FileInv' /\ JobInv' /\ NothingLost' /\ DoneIsComplete'
        /\ MirroredOnce' /\ NoJobOnDeleted' /\ LoadedSourceLive'
    BY <1>1, <1>3, <1>5, Frames DEF Parts
  <2> QED
    BY <2>1, <2>2, <2>3, <2>4 DEF IInv, SafetyInv
<1>6. CASE /\ op' = [op EXCEPT ![s] = "db_committed"]
           /\ session' = [session EXCEPT ![s] = "none"]
           /\ audit' = audit \cup {s}
           /\ Goto(s, "mirror")
  <2>1. TypeOK'
    BY <1>1, <1>3, <1>6 DEF Parts, TypeOK, Goto, OpStates
  <2>2. StateInv'
    BY <1>1, <1>3, <1>6 DEF Parts, StateInv, TypeOK, Goto
  <2>3. MirrorInv'
    BY <1>1, <1>3, <1>6 DEF Parts, MirrorInv, TypeOK, Goto
  <2>4. FileInv'
    BY <1>1, <1>3, <1>6 DEF Parts, FileInv, TypeOK
  <2>9. NothingLost'
    BY <1>1, <1>3, <1>6 DEF Parts, NothingLost, TypeOK
  <2>5. DoneIsComplete' /\ MirroredOnce'
    BY <1>1, <1>3, <1>6 DEF Parts, DoneIsComplete, MirroredOnce, TypeOK
  <2>6. NoJobOnDeleted'
    BY <1>1, <1>2, <1>3, <1>6 DEF Parts, NoJobOnDeleted, TypeOK, JobActive
  <2>7. JobInv'
    BY <1>1, <1>2, <1>3, <1>6 DEF Parts, JobInv, TypeOK, JobActive
  <2>8. LoadedSourceLive'
    BY <1>1, <1>2, <1>3, <1>6 DEF Parts, LoadedSourceLive, TypeOK
  <2> QED
    BY <2>1, <2>2, <2>3, <2>4, <2>5, <2>6, <2>7, <2>8, <2>9
       DEF IInv, SafetyInv
<1> QED
  BY <1>4, <1>5, <1>6 DEF CommitDeletion

(***************************************************************************)
(* The audit trace is read by one coordinator at a time.                    *)
(***************************************************************************)
LEMMA MirrorReadSafe ==
    ASSUME IInv, NEW s \in Sessions, MirrorRead(s)
    PROVE  IInv'
<1>1. Parts
  BY PartsHold
<1>2. op[s] = "db_committed" /\ s \in audit /\ trace[s] \in {0, 1}
  BY <1>1 DEF Parts, StateInv, MirroredOnce, TypeOK, MirrorRead
<1>3. PICK label \in {"replace", "purge"} :
        /\ pc' = [pc EXCEPT ![s] = label] /\ at' = [at EXCEPT ![s] = 0]
        /\ label = "replace" => trace[s] = 0
        /\ label = "purge" => trace[s] = 1
  BY <1>2 DEF MirrorRead, Goto
<1>4. /\ read' = [read EXCEPT ![s] = trace]
      /\ \A r \in Sessions : pc[r] # "replace"
      /\ UNCHANGED <<tables, files, others, held, faults>>
  BY <1>2 DEF MirrorRead
<1>5. TypeOK'
  BY <1>1, <1>3, <1>4 DEF Parts, TypeOK
<1>6. StateInv'
  BY <1>1, <1>2, <1>3, <1>4 DEF Parts, StateInv, TypeOK
<1>7. MirrorInv'
  BY <1>1, <1>3, <1>4 DEF Parts, MirrorInv, TypeOK
<1>8. /\ FileInv' /\ JobInv' /\ NothingLost' /\ DoneIsComplete'
      /\ MirroredOnce' /\ NoJobOnDeleted' /\ LoadedSourceLive'
  BY <1>1, <1>4, Frames DEF Parts
<1> QED
  BY <1>5, <1>6, <1>7, <1>8 DEF IInv, SafetyInv

(***************************************************************************)
(* A deletion is marked done after its line is written and its quarantine   *)
(* is empty.                                                                *)
(***************************************************************************)
LEMMA MarkDoneSafe ==
    ASSUME IInv, NEW s \in Sessions, MarkDone(s)
    PROVE  IInv'
<1>1. Parts
  BY PartsHold
<1>2. /\ op[s] = "db_committed" /\ trace[s] = 1
      /\ \A i \in Items : work[s][i] = "none"
  BY <1>1 DEF Parts, StateInv, MirrorInv, TypeOK, MarkDone
<1>3. PICK new \in {"db_committed", "done"} : op' = [op EXCEPT ![s] = new]
  BY <1>1, <1>2 DEF Parts, TypeOK, MarkDone, Block
<1>4. /\ pc' = [pc EXCEPT ![s] = "idle"] /\ at' = [at EXCEPT ![s] = 0]
      /\ UNCHANGED <<session, audit, files, others, read, held, faults>>
  BY DEF MarkDone, Block, Goto
<1>5. TypeOK'
  BY <1>1, <1>3, <1>4 DEF Parts, TypeOK, OpStates
<1>6. StateInv'
  BY <1>1, <1>2, <1>3, <1>4 DEF Parts, StateInv, TypeOK
<1>7. FileInv' /\ NothingLost'
  BY <1>1, <1>3, <1>4 DEF Parts, FileInv, NothingLost, TypeOK
<1>8. MirrorInv'
  BY <1>1, <1>4 DEF Parts, MirrorInv, TypeOK
<1>9. DoneIsComplete'
  BY <1>1, <1>2, <1>3, <1>4 DEF Parts, DoneIsComplete, StateInv, TypeOK
<1>10. MirroredOnce'
  BY <1>1, <1>3, <1>4 DEF Parts, MirroredOnce, TypeOK
<1>11. NoJobOnDeleted'
  BY <1>1, <1>2, <1>3, <1>4 DEF Parts, NoJobOnDeleted, TypeOK, JobActive
<1>12. JobInv' /\ LoadedSourceLive'
  BY <1>1, <1>4, Frames DEF Parts
<1> QED
  BY <1>5, <1>6, <1>7, <1>8, <1>9, <1>10, <1>11, <1>12 DEF IInv, SafetyInv

-----------------------------------------------------------------------------
(* The theorems *)

(***************************************************************************)
(* The invariant holds when the system starts with no session.              *)
(***************************************************************************)
LEMMA InitSafe == Init => IInv
<1> SUFFICES ASSUME Init PROVE IInv
  OBVIOUS
<1>1. TypeOK
  BY DEF Init, TypeOK, OpStates, Contents, NoLines
<1>2. StateInv /\ FileInv /\ NothingLost /\ DoneIsComplete /\ MirroredOnce
  BY DEF Init, StateInv, FileInv, NothingLost, DoneIsComplete, MirroredOnce,
     NoLines
<1>3. JobInv /\ NoJobOnDeleted /\ LoadedSourceLive
  BY DEF Init, JobInv, NoJobOnDeleted, LoadedSourceLive, JobActive
<1>4. MirrorInv
  BY DEF Init, MirrorInv
<1> QED
  BY <1>1, <1>2, <1>3, <1>4 DEF IInv, SafetyInv

(***************************************************************************)
(* Every step of every actor preserves the invariant.                       *)
(***************************************************************************)
LEMMA NextSafe == IInv /\ [Next]_vars => IInv'
<1> SUFFICES ASSUME IInv, [Next]_vars PROVE IInv'
  OBVIOUS
<1>1. ASSUME NEW s \in Sessions, CoordinatorStep(s) PROVE IInv'
  BY <1>1, QuarantineItemSafe, FilesAppliedSafe, CommitDeletionSafe,
     MirrorReadSafe, MirrorReplaceSafe, PurgeItemSafe, MarkDoneSafe
     DEF CoordinatorStep
<1>2. ASSUME NEW s \in Sessions, SessionStep(s) PROVE IInv'
  BY <1>2, StartSessionSafe, FencedWriteSafe, BeginTurnSafe, OpenGraphSafe,
     EndTurnSafe DEF SessionStep
<1>3. ASSUME NEW t \in Targets, JobStep(t) PROVE IInv'
  BY <1>3, RequestJobSafe, CreateJobSafe, LoadSourceSafe, WriteResultSafe,
     EndJobSafe DEF JobStep
<1>4. CASE UNCHANGED vars
  <2>1. Parts
    BY PartsHold
  <2>2. TypeOK'
    BY <1>4, <2>1 DEF Parts, TypeOK
  <2>3. /\ StateInv' /\ FileInv' /\ JobInv' /\ MirrorInv' /\ NothingLost'
        /\ DoneIsComplete' /\ MirroredOnce' /\ NoJobOnDeleted'
        /\ LoadedSourceLive'
    BY <1>4, <2>1, Frames DEF Parts
  <2> QED
    BY <2>2, <2>3 DEF IInv, SafetyInv
<1> QED
  BY <1>1, <1>2, <1>3, <1>4, ReserveSafe, ResumeSafe, IOFailsSafe, CrashSafe
     DEF Next

(***************************************************************************)
(* The inductive invariant holds in every reachable state.                  *)
(***************************************************************************)
THEOREM Inductive == Spec => []IInv
BY InitSafe, NextSafe, PTL DEF Spec

(***************************************************************************)
(* No file of a session is lost before the commit of its deletion.          *)
(***************************************************************************)
THEOREM FilesSurvive == Spec => []NothingLost
<1>1. IInv => NothingLost
  BY DEF IInv, SafetyInv
<1> QED
  BY <1>1, Inductive, PTL

(***************************************************************************)
(* A deletion that is done is complete, with one line in the audit trace.   *)
(***************************************************************************)
THEOREM DoneComplete == Spec => []DoneIsComplete
<1>1. IInv => DoneIsComplete
  BY DEF IInv, SafetyInv
<1> QED
  BY <1>1, Inductive, PTL

(***************************************************************************)
(* Retried mirroring never writes the line of a deletion twice.             *)
(***************************************************************************)
THEOREM MirrorOnce == Spec => []MirroredOnce
<1>1. IInv => MirroredOnce
  BY DEF IInv, SafetyInv
<1> QED
  BY <1>1, Inductive, PTL

(***************************************************************************)
(* No active job runs in, or holds the lane of, a deleted session, and the   *)
(* source run of a worker that loaded it stays live (create_queued_job and   *)
(* _reserve exclude each other).                                             *)
(***************************************************************************)
THEOREM JobsKeepOff == Spec => []JobsAvoidDeletion
<1>1. IInv => JobsAvoidDeletion
  BY DEF IInv, SafetyInv, JobsAvoidDeletion
<1> QED
  BY <1>1, Inductive, PTL

(***************************************************************************)
(* Deletions that share the audit trace lose no line of one another.        *)
(***************************************************************************)
THEOREM AuditKept == Spec => AuditLineKept
<1>1. IInv /\ [Next]_vars => [\A s \in Sessions : trace'[s] >= trace[s]]_vars
  <2> SUFFICES ASSUME IInv, [Next]_vars, NEW r \in Sessions
               PROVE  trace'[r] >= trace[r]
    OBVIOUS
  <2>1. trace \in [Sessions -> Nat]
    BY DEF IInv, TypeOK
  <2>2. CASE UNCHANGED trace
    BY <2>1, <2>2
  <2>3. ASSUME NEW s \in Sessions, MirrorReplace(s)
        PROVE  trace'[r] >= trace[r]
    <3>1. read[s] = trace /\ trace' = [trace EXCEPT ![s] = @ + 1]
      BY <2>3 DEF MirrorReplace, IInv, SafetyInv, MirrorInv
    <3> QED
      BY <2>1, <3>1
  <2>4. UNCHANGED trace \/ \E s \in Sessions : MirrorReplace(s)
    BY DEF Next, CoordinatorStep, SessionStep, JobStep, Reserve, Resume,
       QuarantineItem, FilesApplied, CommitDeletion, MirrorRead, PurgeItem,
       MarkDone, IOFails, Crash, StartSession, FencedWrite, BeginTurn,
       OpenGraph, EndTurn, RequestJob, CreateJob, LoadSource, WriteResult,
       EndJob
  <2> QED
    BY <2>2, <2>3, <2>4
<1> QED
  BY <1>1, Inductive, PTL DEF Spec, AuditLineKept

(***************************************************************************)
(* A session that was deleted, or is being deleted, never comes back.       *)
(***************************************************************************)
THEOREM DeletedForGood == Spec => NoResurrection
<1> DEFINE Gone(r) == op[r] # "none" => op'[r] # "none" /\ session'[r] # "live"
<1>1. IInv /\ [Next]_vars => [\A s \in Sessions : Gone(s)]_vars
  <2> SUFFICES ASSUME IInv, [Next]_vars, NEW r \in Sessions, op[r] # "none"
               PROVE  op'[r] # "none" /\ session'[r] # "live"
    OBVIOUS
  <2>1. Parts
    BY PartsHold
  <2>2. /\ session[r] # "live"
        /\ op \in [Sessions -> OpStates]
        /\ session \in [Sessions -> {"none", "live", "deleting"}]
    BY <2>1 DEF Parts, StateInv, TypeOK, OpStates
  <2>3. CASE UNCHANGED <<op, session>>
    BY <2>2, <2>3
  <2>4. ASSUME NEW s \in Sessions,
               \/ QuarantineItem(s) \/ FilesApplied(s) \/ MirrorRead(s)
               \/ MarkDone(s)
        PROVE  op'[r] # "none" /\ session'[r] # "live"
    <3>1. UNCHANGED session
      BY <2>4 DEF QuarantineItem, FilesApplied, MirrorRead, MarkDone
    <3>2. \/ UNCHANGED op
          \/ \E new \in OpStates \ {"none"} : op' = [op EXCEPT ![s] = new]
      BY <2>2, <2>4 DEF QuarantineItem, FilesApplied, MirrorRead, MarkDone,
         Block, OpStates
    <3> QED
      BY <2>2, <3>1, <3>2
  <2>5. ASSUME NEW s \in Sessions, CommitDeletion(s)
        PROVE  op'[r] # "none" /\ session'[r] # "live"
    <3>1. UNCHANGED session \/ session' = [session EXCEPT ![s] = "none"]
      BY <2>5 DEF CommitDeletion
    <3>2. \/ UNCHANGED op
          \/ \E new \in OpStates \ {"none"} : op' = [op EXCEPT ![s] = new]
      BY <2>2, <2>5 DEF CommitDeletion, Block, OpStates
    <3> QED
      BY <2>2, <3>1, <3>2
  <2>6. ASSUME NEW s \in Sessions, StartSession(s) \/ Reserve(s)
        PROVE  op'[r] # "none" /\ session'[r] # "live"
    BY <2>2, <2>6 DEF StartSession, Reserve, OpStates
  <2>7. ASSUME NEW t \in Targets, CreateJob(t)
        PROVE  op'[r] # "none" /\ session'[r] # "live"
    BY <2>2, <2>7 DEF CreateJob
  <2>8. \/ UNCHANGED <<op, session>>
        \/ \E s \in Sessions :
              \/ QuarantineItem(s) \/ FilesApplied(s) \/ MirrorRead(s)
              \/ MarkDone(s) \/ CommitDeletion(s) \/ StartSession(s)
              \/ Reserve(s)
        \/ \E t \in Targets : CreateJob(t)
    BY DEF Next, CoordinatorStep, SessionStep, JobStep, Resume,
       MirrorReplace, PurgeItem, IOFails, Crash, FencedWrite, BeginTurn,
       OpenGraph, EndTurn, RequestJob, LoadSource, WriteResult, EndJob
  <2> QED
    BY <2>3, <2>4, <2>5, <2>6, <2>7, <2>8
<1> QED
  BY <1>1, Inductive, PTL DEF Spec, NoResurrection

(***************************************************************************)
(* Only a chat turn brings a file of a deleted session back: every other    *)
(* writer looks at the row under the lock, or holds the session live.       *)
(***************************************************************************)
LEMMA GoneWithoutTurns ==
    ASSUME IInv, SourcesStayGone, NoTurns, [Next]_vars
    PROVE  SourcesStayGone'
<1> SUFFICES ASSUME NEW r \in Sessions, op'[r] \in Committed, NEW k \in Items
             PROVE  src'[r][k] = "none"
  BY DEF SourcesStayGone, SourcesAbsent
<1>1. Parts
  BY PartsHold
<1>2. /\ op \in [Sessions -> OpStates] /\ src \in [Sessions -> [Items -> Contents]]
      /\ op[r] \in Committed => src[r][k] = "none"
  BY <1>1 DEF Parts, TypeOK, SourcesStayGone, SourcesAbsent
<1>3. CASE UNCHANGED <<op, src>>
  BY <1>2, <1>3
\* A write of a file needs a session without a deletion.
<1>4. ASSUME NEW s \in Sessions, NEW i \in Items, Produce(s, i), UNCHANGED op,
             op[s] = "none"
      PROVE  src'[r][k] = "none"
  <2>1. s # r
    BY <1>4 DEF Committed
  <2> QED BY <1>2, <1>4, <2>1 DEF Produce
<1>5. ASSUME NEW s \in Sessions, \/ StartSession(s) \/ \E i \in Items : FencedWrite(s, i)
      PROVE  src'[r][k] = "none"
  <2>1. op[s] = "none" /\ UNCHANGED op /\ \E i \in Items : Produce(s, i)
    BY <1>5 DEF StartSession, FencedWrite
  <2> QED BY <2>1, <1>4
<1>6. ASSUME NEW t \in Targets, WriteResult(t)
      PROVE  src'[r][k] = "none"
  <2>1. session[t.scope] = "live" /\ t.scope \in Sessions /\ Last \in Items
    BY <1>1, <1>6 DEF Parts, LoadedSourceLive, WriteResult, Items
  <2>2. op[t.scope] \in Undecided \cup Committed \cup {"none"}
    BY <1>2, <2>1 DEF OpStates, Undecided, Committed
  <2>3. op[t.scope] = "none"
    BY <1>1, <2>1, <2>2 DEF Parts, StateInv
  <2>4. Produce(t.scope, Last) /\ UNCHANGED op
    BY <1>6 DEF WriteResult
  <2> QED BY <1>4, <2>1, <2>3, <2>4
<1>7. ASSUME NEW s \in Sessions, OpenGraph(s)
      PROVE  src'[r][k] = "none"
  BY <1>7 DEF OpenGraph, NoTurns
\* The coordinator commits only what it has just seen to be absent.
<1>8. ASSUME NEW s \in Sessions, CommitDeletion(s) \/ MarkDone(s)
      PROVE  src'[r][k] = "none"
  <2>1. UNCHANGED src
    BY <1>8 DEF CommitDeletion, MarkDone
  <2>2. \/ UNCHANGED op \/ Block(s)
        \/ SourcesAbsent(s) /\ \E x \in Committed : op' = [op EXCEPT ![s] = x]
    BY <1>8 DEF CommitDeletion, MarkDone, Committed
  <2>3. CASE Block(s)
    BY <1>2, <2>1, <2>3 DEF Block, Committed
  <2> QED BY <1>2, <2>1, <2>2, <2>3 DEF SourcesAbsent
<1>9. ASSUME NEW s \in Sessions, QuarantineItem(s)
      PROVE  src'[r][k] = "none"
  <2>1. \/ UNCHANGED src /\ (UNCHANGED op \/ Block(s))
        \/ UNCHANGED op /\ src' = [src EXCEPT ![s][at[s]] = "none"]
    BY <1>9 DEF QuarantineItem
  <2> QED BY <1>2, <2>1 DEF Block, Committed
<1>10. ASSUME NEW s \in Sessions, Reserve(s) \/ FilesApplied(s) \/ MirrorRead(s)
       PROVE  src'[r][k] = "none"
  <2>1. UNCHANGED src
    BY <1>10 DEF Reserve, FilesApplied, MirrorRead
  <2>2. \/ UNCHANGED op \/ Block(s)
        \/ \E x \in {"prepared", "fs_applied"} : op' = [op EXCEPT ![s] = x]
    BY <1>10 DEF Reserve, FilesApplied, MirrorRead
  <2> QED BY <1>2, <2>1, <2>2 DEF Block, Committed
<1>11. \/ UNCHANGED <<op, src>>
       \/ \E s \in Sessions :
             \/ StartSession(s) \/ (\E i \in Items : FencedWrite(s, i)) \/ OpenGraph(s)
             \/ CommitDeletion(s) \/ MarkDone(s) \/ QuarantineItem(s)
             \/ Reserve(s) \/ FilesApplied(s) \/ MirrorRead(s)
       \/ \E t \in Targets : WriteResult(t)
  BY DEF Next, CoordinatorStep, SessionStep, JobStep, Resume, MirrorReplace,
     PurgeItem, IOFails, Crash, BeginTurn, EndTurn, RequestJob, LoadSource,
     CreateJob, EndJob
<1> QED
  BY <1>3, <1>5, <1>6, <1>7, <1>8, <1>9, <1>10, <1>11

(***************************************************************************)
(* As long as no chat turn runs, no file of a deleted session comes back.   *)
(***************************************************************************)
THEOREM FilesStayGone == Spec => SourcesStayGoneQuietly
<1>1. Init => SourcesStayGone
  BY DEF Init, SourcesStayGone, Committed
<1>2. IInv /\ SourcesStayGone /\ NoTurns /\ [Next]_vars => SourcesStayGone'
  BY GoneWithoutTurns
<1> QED
  BY <1>1, <1>2, Inductive, PTL DEF Spec, SourcesStayGoneQuietly
=============================================================================
