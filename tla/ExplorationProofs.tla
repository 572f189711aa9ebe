-------------------------- MODULE ExplorationProofs --------------------------
(***************************************************************************)
(* The safety properties of Exploration, proved for every number of        *)
(* rounds, probes, calls and faults.                                       *)
(*                                                                         *)
(* ExpInv is the inductive invariant.  ExplorationSteps shows its parts    *)
(* about where a run is; this module shows the parts the properties follow *)
(* from: what was sent and what is charged, the durable bodies, the        *)
(* decision of the last round, how an attempt ends, and what causes a run  *)
(* to fail.  Each is kept by every step, one case per action.              *)
(***************************************************************************)
EXTENDS ExplorationSteps

-----------------------------------------------------------------------------
(* Requests and tool calls *)

\* A call that was sent is pending, latched or completed, and never sent again.
LEMMA SentStep ==
    ASSUME Shape, JournalOK, CountOK, CkptOK(cp), PlaceOK, PendingOK, SentOK, [Next]_vars
    PROVE  SentOK'
<1>1. CASE ClaimFlat
  BY <1>1, FreshWorker
     DEF ClaimFlat, SentOK, Shape, Call, Asking
<1>2. CASE VerifyFlat
  BY <1>2, GotoWorker, OffWorker, RecoverWorker
     DEF VerifyFlat, SentOK, Shape, Call, Asking
<1>3. CASE RecoverCallFlat
  <2>1. cp' = cp /\ sent' = sent /\ w'.pc \in {"off", "recover"}
    BY <1>3, OffWorker, SettleRestWorker DEF RecoverCallFlat, Shape
  <2>2. j' = j \/ \E c : j' = CallUncertain(c) \/ \E d : j' = CallCompleted(c, d)
    BY <1>3 DEF RecoverCallFlat
  <2>3. j.calls \cup j.unsure \cup DOMAIN j.dig \subseteq j'.calls \cup j'.unsure \cup DOMAIN j'.dig
    BY <2>2, SettlingKeepsCalls DEF Shape
  <2> QED BY <2>1, <2>3 DEF SentOK, Asking
<1>4. CASE RecoverToolFlat
  <2>1. cp' = cp /\ sent' = sent /\ w'.pc \in {"off", "recover"}
    BY <1>4, OffWorker, SettleRestWorker DEF RecoverToolFlat, Shape
  <2>2. j' = j \/ \E t : SlotMoves(t)
    BY <1>4 DEF RecoverToolFlat, SlotMoves
  <2>3. j'.calls = j.calls /\ j'.unsure = j.unsure /\ DOMAIN j.dig \subseteq DOMAIN j'.dig
    BY <2>2, SlotsKeepCalls DEF Shape
  <2> QED BY <2>1, <2>3 DEF SentOK, Asking
<1>5. CASE RecoveredFlat
  BY <1>5, EnterWorker
     DEF RecoveredFlat, SentOK, Shape, Call, Asking
<1>6. CASE EnterFlat
  <2>0. /\ job = "live" /\ w.pc = "enter"
        /\ UNCHANGED <<body, wf, cp, probe, job, api, changed, sent, blame, count>>
    BY <1>6 DEF EnterFlat
  <2>1. CASE /\ j.status = "pause_requested" /\ j' = [j EXCEPT !.status = "paused"]
             /\ ToFresh("ending")
    BY <2>0, <2>1, FreshWorker, StatusFields
       DEF SentOK, Shape, Call, Asking
  <2>2. CASE j.status \in {"stopped", "paused"} /\ j' = j /\ ToFresh("ending")
    BY <2>0, <2>2, FreshWorker
       DEF SentOK, Shape, Call, Asking
  <2>3. CASE /\ j.status = "running" /\ j' = Stopped("state_witness_changed", FALSE)
             /\ ToFresh("ending")
    <3>1. w'.pc = "ending"
      BY <2>3, FreshWorker
    <3>2. j'.calls = {} /\ j'.unsure = j.unsure \cup j.calls /\ j'.dig = j.dig
      BY <2>3, StoppedFields DEF Shape
    <3> QED BY <2>0, <3>1, <3>2 DEF SentOK, Asking
  <2>4. CASE j.status \notin {"pause_requested", "stopped", "paused"} /\ j' = j /\ Goto("node")
    BY <2>0, <2>4, GotoWorker
       DEF SentOK, Shape, Call, Asking
  <2> QED BY <1>6, <2>1, <2>2, <2>3, <2>4 DEF EnterFlat
<1>7. CASE WriteCheckpointFlat
  BY <1>7, NodeWorker
     DEF WriteCheckpointFlat, SentOK, Shape, Call, Asking
<1>8. CASE EndAttemptFlat
  BY <1>8, OffWorker
     DEF EndAttemptFlat, SentOK, Shape, Call, Asking
<1>9. CASE OrientFlat
  BY <1>9, GotoWorker, RaiseWorker, CheckpointWorker
     DEF OrientFlat, SentOK, Shape, Call, Asking
<1>10. CASE OpenRoundFlat
  <2>0. /\ job = "live" /\ w.pc = "open"
        /\ UNCHANGED <<body, wf, cp, probe, job, api, changed, sent, blame, count>>
    BY <1>10 DEF OpenRoundFlat
  <2>1. CASE /\ CanStartRound /\ j' = RoundStarted
             /\ Checkpoint([cp EXCEPT !.node = "generate", !.round = j.settled])
    BY <2>0, <2>1, CheckpointWorker, RoundStartedFields
       DEF SentOK, Shape, Call, Asking
  <2>2. CASE ~(j.status # "stopped" /\ CanStartRound) /\ j' = j /\ Raise("error")
    BY <2>0, <2>2, RaiseWorker
       DEF SentOK, Shape, Call, Asking
  <2> QED BY <1>10, <2>1, <2>2 DEF OpenRoundFlat
<1>11. CASE GenerateFlat
  BY <1>11, RaiseWorker, CheckpointWorker, StartWorker
     DEF GenerateFlat, SentOK, Shape, Call, Asking
<1>12. CASE StartCallFlat
  <2>1. w.pc = "start" /\ cp' = cp /\ sent' = sent
    BY <1>12 DEF StartCallFlat
  <2>2. Call \in Calls
    BY <2>1, CallKnown
  <2>3. CASE CanStartCall(Call) /\ j' = CallStarted(Call) /\ Goto("send")
    <3>1. w'.pc = "send" /\ Call' = Call
      BY <2>1, <2>3, GotoWorker DEF Shape, Call
    <3>2. j'.calls = j.calls \cup {Call} /\ j'.unsure = j.unsure /\ j'.dig = j.dig
      BY <2>3, CallStartedFields DEF Shape
    <3>3. Call \notin j.calls \cup j.unsure \cup DOMAIN j.dig
      BY <2>1, <2>3 DEF CanStartCall, PendingOK, CallPending
    <3> QED BY <2>1, <2>2, <3>1, <3>2, <3>3 DEF SentOK, Asking
  <2>4. CASE j' = j /\ Raise("error")
    BY <2>1, <2>4, RaiseWorker DEF SentOK, Asking
  <2> QED BY <1>12, <2>3, <2>4 DEF StartCallFlat
<1>13. CASE SendFlat
  <2>1. w.pc = "send" /\ w.p = w'.p /\ w'.pc = "answer" /\ cp' = cp /\ j' = j
    BY <1>13, GotoWorker DEF SendFlat, Shape
  <2>2. Call \in Calls /\ sent[Call] = 0 /\ Call \in j.calls \cup j.unsure
    BY <2>1, CallKnown DEF SentOK, Asking
  <2>3. \A c \in Calls : sent'[c] = IF c = Call THEN 1 ELSE sent[c]
    BY <1>13, <2>2 DEF SendFlat, Shape
  <2>4. Call' = Call
    BY <2>1 DEF Call
  <2> QED BY <2>1, <2>2, <2>3, <2>4 DEF SentOK
<1>14. CASE SendRefusedFlat
  <2>1. w.pc = "send" /\ cp' = cp /\ w'.pc \notin Asking /\ sent' = sent
    BY <1>14, RaiseWorker, ProbeLoopWorker DEF SendRefusedFlat, Shape, Asking
  <2>2. j' = j \/ j' = CallRejected(Call)
    BY <1>14 DEF SendRefusedFlat
  <2>3. j' = j \/ (j'.calls = j.calls \ {Call} /\ j'.unsure = j.unsure /\ j'.dig = j.dig)
    BY <2>2, CallRejectedFields DEF Shape
  <2> QED BY <2>1, <2>3 DEF SentOK, Asking
<1>15. CASE AnsweredFlat
  BY <1>15, KeepWorker
     DEF AnsweredFlat, SentOK, Shape, Call, Asking
<1>16. CASE AnswerUnknownFlat
  BY <1>16, RaiseWorker, ProbeLoopWorker, CallUncertainFields
     DEF AnswerUnknownFlat, SentOK, Shape, Call, Asking
<1>17. CASE AnswerMalformedFlat
  <2>1. w.pc = "answer" /\ cp' = cp /\ w'.pc \notin Asking
    BY <1>17, RaiseWorker, ProbeLoopWorker, StartWorker DEF AnswerMalformedFlat, Shape, Asking
  <2>2. Call \in Calls
    BY <2>1, CallKnown DEF Asking
  <2>3. \A c \in Calls : sent'[c] = IF c = Call THEN 0 ELSE sent[c]
    BY <1>17, <2>2 DEF AnswerMalformedFlat, Shape
  <2>4. j' = j \/ j' = CallRejected(Call)
    BY <1>17 DEF AnswerMalformedFlat
  <2>5. j' = j \/ (j'.calls = j.calls \ {Call} /\ j'.unsure = j.unsure /\ j'.dig = j.dig)
    BY <2>4, CallRejectedFields DEF Shape
  <2> QED BY <2>1, <2>2, <2>3, <2>5 DEF SentOK, Asking
<1>18. CASE AnswerUnavailableFlat
  <2>1. w.pc = "answer" /\ cp' = cp /\ w'.pc \notin Asking
    BY <1>18, RaiseWorker, ProbeLoopWorker, StartWorker DEF AnswerUnavailableFlat, Shape, Asking
  <2>2. Call \in Calls
    BY <2>1, CallKnown DEF Asking
  <2>3. \A c \in Calls : sent'[c] = IF c = Call THEN 0 ELSE sent[c]
    BY <1>18, <2>2 DEF AnswerUnavailableFlat, Shape
  <2>4. j' = j \/ j' = CallRejected(Call)
    BY <1>18 DEF AnswerUnavailableFlat
  <2>5. j' = j \/ (j'.calls = j.calls \ {Call} /\ j'.unsure = j.unsure /\ j'.dig = j.dig)
    BY <2>4, CallRejectedFields DEF Shape
  <2> QED BY <2>1, <2>2, <2>3, <2>5 DEF SentOK, Asking
<1>19. CASE KeepAnswerFlat
  BY <1>19, GotoWorker
     DEF KeepAnswerFlat, SentOK, Shape, Call, Asking
<1>20. CASE CompleteCallFlat
  <2>0. /\ job = "live" /\ w.pc = "complete"
        /\ UNCHANGED <<body, wf, cp, probe, job, api, changed, sent, blame, count>>
    BY <1>20 DEF CompleteCallFlat
  <2>1. CASE /\ j.status # "stopped" /\ Call \in j.calls
             /\ j' = CallCompleted(Call, w.val) /\ cp.node = "generate"
             /\ Checkpoint([cp EXCEPT !.node = "schedule"])
    BY <2>0, <2>1, CheckpointWorker, CallCompletedFields, CallCompletedDigests, SMTT(60)
       DEF SentOK, Shape, Call, Asking
  <2>2. CASE /\ j.status # "stopped" /\ Call \in j.calls
             /\ j' = CallCompleted(Call, w.val) /\ cp.node # "generate" /\ ProbeLoop
    BY <2>0, <2>2, ProbeLoopWorker, CallCompletedFields, CallCompletedDigests
       DEF SentOK, Shape, Call, Asking
  <2>3. CASE ~(j.status # "stopped" /\ Call \in j.calls) /\ j' = j /\ Raise("error")
    BY <2>0, <2>3, RaiseWorker
       DEF SentOK, Shape, Call, Asking
  <2> QED BY <1>20, <2>1, <2>2, <2>3 DEF CompleteCallFlat
<1>21. CASE ScheduleFlat
  BY <1>21, RaiseWorker, CheckpointWorker
     DEF ScheduleFlat, SentOK, Shape, Call, Asking
<1>22. CASE PassNodeFlat
  BY <1>22, RaiseWorker, CheckpointWorker
     DEF PassNodeFlat, SentOK, Shape, Call, Asking
<1>23. CASE ExecuteFlat
  <2>0. /\ job = "live" /\ w.pc = "node" /\ cp.node = "execute_probes"
        /\ UNCHANGED <<j, body, wf, cp, probe, job, api, changed, sent, blame, count>>
    BY <1>23 DEF ExecuteFlat
  <2>1. CASE j.status # "running" /\ Raise(IF j.status = "stopped" THEN "cancel" ELSE "pause")
    BY <2>0, <2>1, RaiseWorker
       DEF SentOK, Shape, Call, Asking
  <2>2. CASE j.status = "running" /\ ToProbes
    BY <2>0, <2>2, ProbesWorker
       DEF SentOK, Shape, Call, Asking
  <2> QED BY <1>23, <2>1, <2>2 DEF ExecuteFlat
<1>24. CASE NextProbeFlat
  <2>0. /\ job = "live" /\ w.pc = "probes"
        /\ UNCHANGED <<j, body, wf, cp, probe, job, api, changed, sent, blame, count>>
    BY <1>24 DEF NextProbeFlat
  <2>1. CASE \E spent : Checkpoint([cp EXCEPT !.node = "validate", !.spent = spent])
    BY <2>0, <2>1, CheckpointWorker
       DEF SentOK, Shape, Call, Asking
  <2>2. CASE ~(w.p > cp.n) /\ probe[Here] = "bad" /\ Raise("error")
    BY <2>0, <2>2, RaiseWorker
       DEF SentOK, Shape, Call, Asking
  <2>3. CASE ~(w.p > cp.n) /\ ToProbe(w.p + 1)
    BY <2>0, <2>3, ProbeWorker
       DEF SentOK, Shape, Call, Asking
  <2> QED BY <1>24, <2>1, <2>2, <2>3 DEF NextProbeFlat
<1>25. CASE AskModelFlat
  BY <1>25, GotoWorker, ProbeLoopWorker
     DEF AskModelFlat, SentOK, Shape, Call, Asking
<1>26. CASE UseToolFlat
  BY <1>26, GotoWorker, ProbeLoopWorker
     DEF UseToolFlat, SentOK, Shape, Call, Asking
<1>27. CASE StartToolFlat
  BY <1>27, GotoWorker, RaiseWorker, ToolStartedFields
     DEF StartToolFlat, SentOK, Shape, Call, Asking
<1>28. CASE RunToolFlat
  BY <1>28, ResultWorker
     DEF RunToolFlat, SentOK, Shape, Call, Asking
<1>29. CASE FailToolFlat
  BY <1>29, RaiseWorker, ProbeLoopWorker, ToolFailedFields
     DEF FailToolFlat, SentOK, Shape, Call, Asking
<1>30. CASE KeepResultFlat
  BY <1>30, PrepareWorker
     DEF KeepResultFlat, SentOK, Shape, Call, Asking
<1>31. CASE PrepareReceiptFlat
  <2>0. /\ job = "live" /\ w.pc = "prepare"
        /\ UNCHANGED <<body, wf, cp, probe, job, api, changed, sent, blame, count>>
    BY <1>31 DEF PrepareReceiptFlat
  <2>1. CASE /\ j.status # "stopped" /\ Mine \in j.slots
             /\ j' = ReceiptPrepared(Mine) /\ Goto("commit")
    BY <2>0, <2>1, GotoWorker, ReceiptPreparedFields
       DEF SentOK, Shape, Call, Asking
  <2>2. CASE ~(j.status # "stopped" /\ Mine \in j.slots) /\ j' = j /\ Raise("error")
    BY <2>0, <2>2, RaiseWorker
       DEF SentOK, Shape, Call, Asking
  <2> QED BY <1>31, <2>1, <2>2 DEF PrepareReceiptFlat
<1>32. CASE CommitReceiptFlat
  <2>0. /\ job = "live" /\ w.pc = "commit"
        /\ UNCHANGED <<body, wf, cp, probe, job, api, changed, sent, blame, count>>
    BY <1>32 DEF CommitReceiptFlat
  <2>1. CASE /\ j.status # "stopped" /\ Mine \in j.prep
             /\ j' = ReceiptCommitted(Mine, w.val) /\ ProbeLoop
    BY <2>0, <2>1, ProbeLoopWorker, ReceiptCommittedFields, ReceiptCommittedDigests
       DEF SentOK, Shape, Call, Asking
  <2>2. CASE ~(j.status # "stopped" /\ Mine \in j.prep) /\ j' = j /\ Raise("error")
    BY <2>0, <2>2, RaiseWorker
       DEF SentOK, Shape, Call, Asking
  <2> QED BY <1>32, <2>1, <2>2 DEF CommitReceiptFlat
<1>33. CASE ReduceFlat
  BY <1>33, GotoWorker, RaiseWorker, CheckpointWorker, OutcomeWorker
     DEF ReduceFlat, SentOK, Shape, Call, Asking
<1>34. CASE GateVerdictFlat
  <2>0. /\ job = "live" /\ w.pc = "gate"
        /\ UNCHANGED <<body, wf, cp, probe, job, api, changed, sent, blame, count>>
    BY <1>34 DEF GateVerdictFlat
  <2>1. CASE /\ j' = j \/ (j.status = "running" /\ j' = [j EXCEPT !.gated = @ \cup {cp.round}])
             /\ Goto("persist")
    BY <2>0, <2>1, GotoWorker, GatedFields, SMTT(60)
       DEF SentOK, Shape, Call, Asking
  <2>2. CASE ~(j.status = "running" /\ NoPending /\ j.open) /\ j' = j /\ Raise("error")
    BY <2>0, <2>2, RaiseWorker
       DEF SentOK, Shape, Call, Asking
  <2> QED BY <1>34, <2>1, <2>2 DEF GateVerdictFlat
<1>35. CASE PersistReductionFlat
  BY <1>35, OutcomeWorker
     DEF PersistReductionFlat, SentOK, Shape, Call, Asking
<1>36. CASE KeepReductionFlat
  BY <1>36, GotoWorker, RaiseWorker
     DEF KeepReductionFlat, SentOK, Shape, Call, Asking
<1>37. CASE CommitReductionFlat
  BY <1>37, RaiseWorker, CheckpointWorker, ReductionCommittedFields
     DEF CommitReductionFlat, SentOK, Shape, Call, Asking
<1>38. CASE SettleFlat
  BY <1>38, GotoWorker, RaiseWorker, RoundSettledFields
     DEF SettleFlat, SentOK, Shape, Call, Asking
<1>39. CASE AfterSettleFlat
  BY <1>39, RaiseWorker, CheckpointWorker
     DEF AfterSettleFlat, SentOK, Shape, Call, Asking
<1>40. CASE SynthesizeFlat
  BY <1>40, RaiseWorker, StopWorker
     DEF SynthesizeFlat, SentOK, Shape, Call, Asking
<1>41. CASE StopFlat
  BY <1>41, RaiseWorker, OffWorker, FreshWorker, BareWorker, StoppedFields
     DEF StopFlat, SentOK, Shape, Call, Asking
<1>42. CASE HandlePauseFlat
  BY <1>42, HandlePauseMoves
     DEF SentOK, Shape, Call, Asking
<1>43. CASE HandleCancelFlat
  BY <1>43, FreshWorker
     DEF HandleCancelFlat, SentOK, Shape, Call, Asking
<1>44. CASE HandleStopFlat
  BY <1>44, RaiseWorker, StopWorker
     DEF HandleStopFlat, SentOK, Shape, Call, Asking
<1>45. CASE CrashFlat
  BY <1>45, OffWorker
     DEF CrashFlat, SentOK, Shape, Call, Asking
<1>46. CASE PauseFlat
  BY <1>46, PauseMoves
     DEF SentOK, Shape, Call, Asking
<1>47. CASE ResumeFlat
  <2>0. /\ j.status = "paused" /\ api = "idle"
        /\ UNCHANGED <<body, wf, cp, probe, w, job, changed, sent, blame, count>>
    BY <1>47 DEF ResumeFlat
  <2>1. CASE changed /\ j' = Stopped("state_witness_changed", FALSE) /\ api' = api
    BY <2>0, <2>1, StoppedFields, ZenonT(60)
       DEF SentOK, Shape, Call, Asking
  <2>2. CASE /\ job \notin {"queued", "live"} /\ j' = [j EXCEPT !.status = "running"]
             /\ api' = "launching"
    BY <2>0, <2>2, StatusFields
       DEF SentOK, Shape, Call, Asking
  <2> QED BY <1>47, <2>1, <2>2 DEF ResumeFlat
<1>48. CASE LaunchFlat
  <2>0. /\ api = "launching"
        /\ api' = "idle"
        /\ UNCHANGED <<body, wf, cp, probe, w, changed, sent>>
    BY <1>48 DEF LaunchFlat
  <2>1. CASE job' = "queued" /\ UNCHANGED <<j, blame, count>>
    BY <2>0, <2>1
       DEF SentOK, Shape, Call, Asking
  <2>2. CASE /\ j.status = "stopped" /\ j' = j
             /\ blame' = blame \cup {"launch"} /\ UNCHANGED <<job, count>>
    BY <2>0, <2>2
       DEF SentOK, Shape, Call, Asking
  <2>3. CASE /\ j.status # "stopped" /\ j' = Stopped("failed", FALSE)
             /\ blame' = blame \cup {"launch"} /\ UNCHANGED <<job, count>>
    BY <2>0, <2>3, StoppedFields, ZenonT(60)
       DEF SentOK, Shape, Call, Asking
  <2>4. CASE /\ Room /\ count' = [count EXCEPT !.crashes = @ + 1]
             /\ blame' = blame \cup {"api"} /\ UNCHANGED <<j, job>>
    BY <2>0, <2>4
       DEF SentOK, Shape, Call, Asking
  <2> QED BY <1>48, <2>1, <2>2, <2>3, <2>4 DEF LaunchFlat
<1>49. CASE CancelFlat
  BY <1>49, CancelMoves
     DEF SentOK, Shape, Call, Asking
<1>50. CASE CancelJobFlat
  BY <1>50, OffWorker
     DEF CancelJobFlat, SentOK, Shape, Call, Asking
<1>51. CASE ExtendBudgetFlat
  BY <1>51, ExtendBudgetMoves
     DEF SentOK, Shape, Call, Asking
<1>52. CASE UNCHANGED <<j, w, sent, cp>>
  BY <1>52 DEF SentOK, Shape, Call, Asking
<1>53. QED
  BY NextIsFlat, <1>1, <1>2, <1>3, <1>4, <1>5, <1>6, <1>7, <1>8, <1>9, <1>10, <1>11, <1>12,
         <1>13, <1>14, <1>15, <1>16, <1>17, <1>18, <1>19, <1>20, <1>21, <1>22, <1>23, <1>24,
         <1>25, <1>26, <1>27, <1>28, <1>29, <1>30, <1>31, <1>32, <1>33, <1>34, <1>35, <1>36,
         <1>37, <1>38, <1>39, <1>40, <1>41, <1>42, <1>43, <1>44, <1>45, <1>46, <1>47, <1>48,
         <1>49, <1>50, <1>51, <1>52
     DEF NextFlat, vars, RerunFlat, ChangeDataFlat

\* A worker believes in no more tool calls than the journal has left.
LEMMA LedStep ==
    ASSUME Shape, ToolsOK, ToolsOK', LedOK, [Next]_vars
    PROVE  LedOK'
<1>1. CASE ClaimFlat
  BY <1>1, FreshWorker
     DEF ClaimFlat, LedOK, Shape, ToolsOK, Waiting
<1>2. CASE VerifyFlat
  BY <1>2, GotoWorker, OffWorker, RecoverWorker
     DEF VerifyFlat, LedOK, Shape, ToolsOK, Waiting
<1>3. CASE RecoverCallFlat
  <2>1. w.pc = "recover" /\ (w' = Off \/ \E x : ToSettleRest(x))
    BY <1>3 DEF RecoverCallFlat
  <2>2. w'.led = 0 /\ w'.pc \in {"off", "recover"}
    BY <2>1, OffWorker, SettleRestWorker DEF Shape, LedOK, Waiting
  <2> QED BY <2>2 DEF LedOK, ToolsOK, Waiting
<1>4. CASE RecoverToolFlat
  <2>1. w.pc = "recover" /\ (w' = Off \/ \E x : ToSettleRest(x))
    BY <1>4 DEF RecoverToolFlat
  <2>2. w'.led = 0 /\ w'.pc \in {"off", "recover"}
    BY <2>1, OffWorker, SettleRestWorker DEF Shape, LedOK, Waiting
  <2> QED BY <2>2 DEF LedOK, ToolsOK, Waiting
<1>5. CASE RecoveredFlat
  BY <1>5, EnterWorker
     DEF RecoveredFlat, LedOK, Shape, ToolsOK, Waiting
<1>6. CASE EnterFlat
  <2>0. /\ job = "live" /\ w.pc = "enter"
        /\ UNCHANGED <<body, wf, cp, probe, job, api, changed, sent, blame, count>>
    BY <1>6 DEF EnterFlat
  <2>1. CASE /\ j.status = "pause_requested" /\ j' = [j EXCEPT !.status = "paused"]
             /\ ToFresh("ending")
    BY <2>0, <2>1, FreshWorker, StatusFields
       DEF LedOK, Shape, ToolsOK, Waiting
  <2>2. CASE j.status \in {"stopped", "paused"} /\ j' = j /\ ToFresh("ending")
    BY <2>0, <2>2, FreshWorker
       DEF LedOK, Shape, ToolsOK, Waiting
  <2>3. CASE /\ j.status = "running" /\ j' = Stopped("state_witness_changed", FALSE)
             /\ ToFresh("ending")
    <3>1. w'.pc = "ending" /\ w'.led = 0
      BY <2>3, FreshWorker
    <3> QED BY <2>0, <3>1 DEF LedOK, ToolsOK, Waiting
  <2>4. CASE j.status \notin {"pause_requested", "stopped", "paused"} /\ j' = j /\ Goto("node")
    BY <2>0, <2>4, GotoWorker
       DEF LedOK, Shape, ToolsOK, Waiting
  <2> QED BY <1>6, <2>1, <2>2, <2>3, <2>4 DEF EnterFlat
<1>7. CASE WriteCheckpointFlat
  BY <1>7, NodeWorker
     DEF WriteCheckpointFlat, LedOK, Shape, ToolsOK, Waiting
<1>8. CASE EndAttemptFlat
  BY <1>8, OffWorker
     DEF EndAttemptFlat, LedOK, Shape, ToolsOK, Waiting
<1>9. CASE OrientFlat
  BY <1>9, GotoWorker, RaiseWorker, CheckpointWorker
     DEF OrientFlat, LedOK, Shape, ToolsOK, Waiting
<1>10. CASE OpenRoundFlat
  BY <1>10, RaiseWorker, CheckpointWorker, RoundStartedFields
     DEF OpenRoundFlat, LedOK, Shape, ToolsOK, Waiting
<1>11. CASE GenerateFlat
  BY <1>11, RaiseWorker, CheckpointWorker, StartWorker
     DEF GenerateFlat, LedOK, Shape, ToolsOK, Waiting
<1>12. CASE StartCallFlat
  BY <1>12, GotoWorker, RaiseWorker, CallStartedFields
     DEF StartCallFlat, LedOK, Shape, ToolsOK, Waiting
<1>13. CASE SendFlat
  BY <1>13, GotoWorker
     DEF SendFlat, LedOK, Shape, ToolsOK, Waiting
<1>14. CASE SendRefusedFlat
  BY <1>14, RaiseWorker, ProbeLoopWorker, CallRejectedFields
     DEF SendRefusedFlat, LedOK, Shape, ToolsOK, Waiting
<1>15. CASE AnsweredFlat
  BY <1>15, KeepWorker
     DEF AnsweredFlat, LedOK, Shape, ToolsOK, Waiting
<1>16. CASE AnswerUnknownFlat
  BY <1>16, RaiseWorker, ProbeLoopWorker, CallUncertainFields
     DEF AnswerUnknownFlat, LedOK, Shape, ToolsOK, Waiting
<1>17. CASE AnswerMalformedFlat
  BY <1>17, RaiseWorker, ProbeLoopWorker, StartWorker, CallRejectedFields
     DEF AnswerMalformedFlat, LedOK, Shape, ToolsOK, Waiting
<1>18. CASE AnswerUnavailableFlat
  BY <1>18, RaiseWorker, ProbeLoopWorker, CallRejectedFields
     DEF AnswerUnavailableFlat, LedOK, Shape, ToolsOK, Waiting
<1>19. CASE KeepAnswerFlat
  BY <1>19, GotoWorker
     DEF KeepAnswerFlat, LedOK, Shape, ToolsOK, Waiting
<1>20. CASE CompleteCallFlat
  BY <1>20, RaiseWorker, CheckpointWorker, ProbeLoopWorker, CallCompletedFields
     DEF CompleteCallFlat, LedOK, Shape, ToolsOK, Waiting
<1>21. CASE ScheduleFlat
  BY <1>21, RaiseWorker, CheckpointWorker
     DEF ScheduleFlat, LedOK, Shape, ToolsOK, Waiting
<1>22. CASE PassNodeFlat
  BY <1>22, RaiseWorker, CheckpointWorker
     DEF PassNodeFlat, LedOK, Shape, ToolsOK, Waiting
<1>23. CASE ExecuteFlat
  <2>0. /\ job = "live" /\ w.pc = "node" /\ cp.node = "execute_probes"
        /\ UNCHANGED <<j, body, wf, cp, probe, job, api, changed, sent, blame, count>>
    BY <1>23 DEF ExecuteFlat
  <2>1. CASE j.status # "running" /\ Raise(IF j.status = "stopped" THEN "cancel" ELSE "pause")
    BY <2>0, <2>1, RaiseWorker
       DEF LedOK, Shape, ToolsOK, Waiting
  <2>2. CASE j.status = "running" /\ ToProbes
    BY <2>0, <2>2, ProbesWorker
       DEF LedOK, Shape, ToolsOK, Waiting
  <2> QED BY <1>23, <2>1, <2>2 DEF ExecuteFlat
<1>24. CASE NextProbeFlat
  <2>0. /\ job = "live" /\ w.pc = "probes"
        /\ UNCHANGED <<j, body, wf, cp, probe, job, api, changed, sent, blame, count>>
    BY <1>24 DEF NextProbeFlat
  <2>1. CASE \E spent : Checkpoint([cp EXCEPT !.node = "validate", !.spent = spent])
    BY <2>0, <2>1, CheckpointWorker
       DEF LedOK, Shape, ToolsOK, Waiting
  <2>2. CASE ~(w.p > cp.n) /\ probe[Here] = "bad" /\ Raise("error")
    BY <2>0, <2>2, RaiseWorker
       DEF LedOK, Shape, ToolsOK, Waiting
  <2>3. CASE ~(w.p > cp.n) /\ ToProbe(w.p + 1)
    BY <2>0, <2>3, ProbeWorker
       DEF LedOK, Shape, ToolsOK, Waiting
  <2> QED BY <1>24, <2>1, <2>2, <2>3 DEF NextProbeFlat
<1>25. CASE AskModelFlat
  BY <1>25, GotoWorker, ProbeLoopWorker
     DEF AskModelFlat, LedOK, Shape, ToolsOK, Waiting
<1>26. CASE UseToolFlat
  BY <1>26, GotoWorker, ProbeLoopWorker
     DEF UseToolFlat, LedOK, Shape, ToolsOK, Waiting
<1>27. CASE StartToolFlat
  BY <1>27, GotoWorker, RaiseWorker, ToolStartedFields
     DEF StartToolFlat, LedOK, Shape, ToolsOK, Waiting
<1>28. CASE RunToolFlat
  BY <1>28, ResultWorker
     DEF RunToolFlat, LedOK, Shape, ToolsOK, Waiting
<1>29. CASE FailToolFlat
  BY <1>29, RaiseWorker, ProbeLoopWorker, ToolFailedFields
     DEF FailToolFlat, LedOK, Shape, ToolsOK, Waiting
<1>30. CASE KeepResultFlat
  BY <1>30, PrepareWorker
     DEF KeepResultFlat, LedOK, Shape, ToolsOK, Waiting
<1>31. CASE PrepareReceiptFlat
  BY <1>31, GotoWorker, RaiseWorker, ReceiptPreparedFields
     DEF PrepareReceiptFlat, LedOK, Shape, ToolsOK, Waiting
<1>32. CASE CommitReceiptFlat
  <2>0. /\ job = "live" /\ w.pc = "commit"
        /\ UNCHANGED <<body, wf, cp, probe, job, api, changed, sent, blame, count>>
    BY <1>32 DEF CommitReceiptFlat
  <2>1. CASE /\ j.status # "stopped" /\ Mine \in j.prep
             /\ j' = ReceiptCommitted(Mine, w.val) /\ ProbeLoop
    BY <2>0, <2>1, ProbeLoopWorker, ReceiptCommittedFields
       DEF LedOK, Shape, ToolsOK, Waiting
  <2>2. CASE ~(j.status # "stopped" /\ Mine \in j.prep) /\ j' = j /\ Raise("error")
    BY <2>0, <2>2, RaiseWorker
       DEF LedOK, Shape, ToolsOK, Waiting
  <2> QED BY <1>32, <2>1, <2>2 DEF CommitReceiptFlat
<1>33. CASE ReduceFlat
  BY <1>33, GotoWorker, RaiseWorker, CheckpointWorker, OutcomeWorker
     DEF ReduceFlat, LedOK, Shape, ToolsOK, Waiting
<1>34. CASE GateVerdictFlat
  <2>0. /\ job = "live" /\ w.pc = "gate"
        /\ UNCHANGED <<body, wf, cp, probe, job, api, changed, sent, blame, count>>
    BY <1>34 DEF GateVerdictFlat
  <2>1. CASE /\ j' = j \/ (j.status = "running" /\ j' = [j EXCEPT !.gated = @ \cup {cp.round}])
             /\ Goto("persist")
    BY <2>0, <2>1, GotoWorker, GatedFields
       DEF LedOK, Shape, ToolsOK, Waiting
  <2>2. CASE ~(j.status = "running" /\ NoPending /\ j.open) /\ j' = j /\ Raise("error")
    BY <2>0, <2>2, RaiseWorker
       DEF LedOK, Shape, ToolsOK, Waiting
  <2> QED BY <1>34, <2>1, <2>2 DEF GateVerdictFlat
<1>35. CASE PersistReductionFlat
  BY <1>35, OutcomeWorker
     DEF PersistReductionFlat, LedOK, Shape, ToolsOK, Waiting
<1>36. CASE KeepReductionFlat
  BY <1>36, GotoWorker, RaiseWorker
     DEF KeepReductionFlat, LedOK, Shape, ToolsOK, Waiting
<1>37. CASE CommitReductionFlat
  <2>0. /\ job = "live" /\ w.pc = "reduce"
        /\ UNCHANGED <<body, wf, cp, probe, job, api, changed, sent, blame, count>>
    BY <1>37 DEF CommitReductionFlat
  <2>1. CASE /\ j.status = "running" /\ NoPending /\ j.open /\ j' = ReductionCommitted(w.val)
             /\ Checkpoint([cp EXCEPT !.node = "settle", !.red = w.val, !.before = Snapshot])
    BY <2>0, <2>1, CheckpointWorker, ReductionCommittedFields
       DEF LedOK, Shape, ToolsOK, Waiting
  <2>2. CASE ~(j.status = "running" /\ NoPending /\ j.open) /\ j' = j /\ Raise("error")
    BY <2>0, <2>2, RaiseWorker
       DEF LedOK, Shape, ToolsOK, Waiting
  <2> QED BY <1>37, <2>1, <2>2 DEF CommitReductionFlat
<1>38. CASE SettleFlat
  <2>0. /\ job = "live" /\ w.pc = "node" /\ cp.node = "settle"
        /\ UNCHANGED <<body, wf, cp, probe, job, api, changed, sent, blame, count>>
    BY <1>38 DEF SettleFlat
  <2>1. CASE /\ j.settled <= cp.round /\ j.status # "stopped" /\ NoPending /\ j.open
             /\ j' = RoundSettled(cp.red, Decision) /\ Goto("after")
    BY <2>0, <2>1, GotoWorker, RoundSettledFields
       DEF LedOK, Shape, ToolsOK, Waiting
  <2>2. CASE /\ j.settled <= cp.round /\ ~(j.status # "stopped" /\ NoPending /\ j.open)
             /\ j' = j /\ Raise("error")
    BY <2>0, <2>2, RaiseWorker
       DEF LedOK, Shape, ToolsOK, Waiting
  <2>3. CASE ~(j.settled <= cp.round) /\ j' = j /\ Goto("after")
    BY <2>0, <2>3, GotoWorker
       DEF LedOK, Shape, ToolsOK, Waiting
  <2> QED BY <1>38, <2>1, <2>2, <2>3 DEF SettleFlat
<1>39. CASE AfterSettleFlat
  BY <1>39, RaiseWorker, CheckpointWorker
     DEF AfterSettleFlat, LedOK, Shape, ToolsOK, Waiting
<1>40. CASE SynthesizeFlat
  <2>0. /\ job = "live" /\ w.pc = "node" /\ cp.node = "synthesize"
        /\ UNCHANGED <<j, body, wf, cp, probe, job, api, changed, sent, blame, count>>
    BY <1>40 DEF SynthesizeFlat
  <2>1. CASE j.status # "running" /\ Raise(IF j.status = "stopped" THEN "cancel" ELSE "pause")
    BY <2>0, <2>1, RaiseWorker
       DEF LedOK, Shape, ToolsOK, Waiting
  <2>2. CASE j.status = "running" /\ ToStop(cp.reason, TRUE)
    BY <2>0, <2>2, StopWorker
       DEF LedOK, Shape, ToolsOK, Waiting
  <2> QED BY <1>40, <2>1, <2>2 DEF SynthesizeFlat
<1>41. CASE StopFlat
  BY <1>41, RaiseWorker, OffWorker, FreshWorker, BareWorker, StoppedFields
     DEF StopFlat, LedOK, Shape, ToolsOK, Waiting
<1>42. CASE HandlePauseFlat
  BY <1>42, HandlePauseMoves
     DEF LedOK, Shape, ToolsOK, Waiting
<1>43. CASE HandleCancelFlat
  BY <1>43, FreshWorker
     DEF HandleCancelFlat, LedOK, Shape, ToolsOK, Waiting
<1>44. CASE HandleStopFlat
  BY <1>44, RaiseWorker, StopWorker
     DEF HandleStopFlat, LedOK, Shape, ToolsOK, Waiting
<1>45. CASE CrashFlat
  BY <1>45, OffWorker
     DEF CrashFlat, LedOK, Shape, ToolsOK, Waiting
<1>46. CASE PauseFlat
  BY <1>46, PauseMoves
     DEF LedOK, Shape, ToolsOK, Waiting
<1>47. CASE ResumeFlat
  <2>0. /\ j.status = "paused" /\ api = "idle"
        /\ UNCHANGED <<body, wf, cp, probe, w, job, changed, sent, blame, count>>
    BY <1>47 DEF ResumeFlat
  <2>1. CASE changed /\ j' = Stopped("state_witness_changed", FALSE) /\ api' = api
    BY <2>0, <2>1, StoppedFields
       DEF LedOK, Shape, ToolsOK, Waiting
  <2>2. CASE /\ job \notin {"queued", "live"} /\ j' = [j EXCEPT !.status = "running"]
             /\ api' = "launching"
    BY <2>0, <2>2, StatusFields
       DEF LedOK, Shape, ToolsOK, Waiting
  <2> QED BY <1>47, <2>1, <2>2 DEF ResumeFlat
<1>48. CASE LaunchFlat
  BY <1>48, StoppedFields
     DEF LaunchFlat, LedOK, Shape, ToolsOK, Waiting
<1>49. CASE CancelFlat
  BY <1>49, CancelMoves
     DEF LedOK, Shape, ToolsOK, Waiting
<1>50. CASE CancelJobFlat
  BY <1>50, OffWorker
     DEF CancelJobFlat, LedOK, Shape, ToolsOK, Waiting
<1>51. CASE ExtendBudgetFlat
  BY <1>51, ExtendBudgetMoves
     DEF LedOK, Shape, ToolsOK, Waiting
<1>52. CASE UNCHANGED <<j, w>>
  BY <1>52, SMTT(60) DEF LedOK, Shape, ToolsOK, Waiting
<1>53. QED
  BY NextIsFlat, <1>1, <1>2, <1>3, <1>4, <1>5, <1>6, <1>7, <1>8, <1>9, <1>10, <1>11, <1>12,
         <1>13, <1>14, <1>15, <1>16, <1>17, <1>18, <1>19, <1>20, <1>21, <1>22, <1>23, <1>24,
         <1>25, <1>26, <1>27, <1>28, <1>29, <1>30, <1>31, <1>32, <1>33, <1>34, <1>35, <1>36,
         <1>37, <1>38, <1>39, <1>40, <1>41, <1>42, <1>43, <1>44, <1>45, <1>46, <1>47, <1>48,
         <1>49, <1>50, <1>51, <1>52
     DEF NextFlat, vars, RerunFlat, ChangeDataFlat

-----------------------------------------------------------------------------
(* The durable bodies *)

\* The journal's digests stay those of the durable bodies.
LEMMA DigestsStep ==
    ASSUME Shape, JournalOK, CountOK, CkptOK(cp), PlaceOK, PendingOK, Kept, BodyOK, BatchOK,
           [Next]_vars
    PROVE  DigestsStand'
<1>1. CASE VerifyFlat
  BY <1>1
     DEF VerifyFlat, DigestsStand, Kept, Shape
<1>2. CASE RecoverCallFlat
  <2>1. PICK c \in w.todo \cap Calls :
           \/ j' = j
           \/ c \notin DOMAIN body /\ j.status # "stopped" /\ j' = CallUncertain(c)
           \/ /\ c \in DOMAIN body /\ j.status # "stopped"
              /\ j' = CallCompleted(c, IF c[1] = "gen" THEN Foreign ELSE body[c])
    BY <1>2 DEF RecoverCallFlat
  <2>2. w.pc = "recover" /\ body' = body /\ blame \subseteq blame'
    BY <1>2 DEF RecoverCallFlat
  <2>3. CASE j' = j
    BY <2>2, <2>3 DEF Kept, DigestsStand
  <2>4. CASE j' = CallUncertain(c)
    BY <2>2, <2>4, CallUncertainFields DEF Kept, DigestsStand, Shape
  <2>5. CASE /\ c \in DOMAIN body /\ j.status # "stopped"
             /\ j' = CallCompleted(c, IF c[1] = "gen" THEN Foreign ELSE body[c])
    <3>1. c \in j.calls
      BY <2>2, <2>5, ToolsAreNoCalls DEF PendingOK, TodoOK, JournalOK
    <3>2. c[1] = "gen" => \E r \in Rounds : c = Gen(r)
      BY DEF Calls, Gen, Ask
    <3>3. c[1] = "gen" => "batch" \in blame
      BY <2>2, <2>5, <3>1, <3>2 DEF BatchOK
    <3>4. /\ DOMAIN j'.dig = DOMAIN j.dig \cup {c}
          /\ j'.dig[c] = IF c[1] = "gen" THEN Foreign ELSE body[c]
          /\ \A s \in DOMAIN j.dig : s # c => j'.dig[s] = j.dig[s]
      BY <2>5, CallCompletedDigests DEF Shape
    <3>5. j'.prep = j.prep
      BY <2>5, CallCompletedFields DEF Shape
    <3> QED BY <2>2, <2>5, <3>3, <3>4, <3>5 DEF Kept, DigestsStand
  <2> QED BY <2>1, <2>3, <2>4, <2>5
<1>3. CASE RecoverToolFlat
  <2>1. PICK t \in w.todo :
           \/ j' = j
           \/ j' = ToolFailed(t)
           \/ t \in DOMAIN body /\ j' = ReceiptPrepared(t)
           \/ t \in DOMAIN body /\ j' = ReceiptCommitted(t, body[t])
    BY <1>3 DEF RecoverToolFlat
  <2>2. body' = body /\ blame \subseteq blame'
    BY <1>3 DEF RecoverToolFlat
  <2>3. CASE j' = j
    BY <2>2, <2>3 DEF Kept, DigestsStand
  <2>4. CASE j' = ToolFailed(t)
    BY <2>2, <2>4, ToolFailedFields DEF Kept, DigestsStand, Shape
  <2>5. CASE t \in DOMAIN body /\ j' = ReceiptPrepared(t)
    BY <2>2, <2>5, ReceiptPreparedFields DEF Kept, DigestsStand, Shape
  <2>6. CASE t \in DOMAIN body /\ j' = ReceiptCommitted(t, body[t])
    BY <2>2, <2>6, ReceiptCommittedFields, ReceiptCommittedDigests DEF Kept, DigestsStand, Shape
  <2> QED BY <2>1, <2>3, <2>4, <2>5, <2>6
<1>4. CASE EnterFlat
  <2>0. /\ job = "live" /\ w.pc = "enter"
        /\ UNCHANGED <<body, wf, cp, probe, job, api, changed, sent, blame, count>>
    BY <1>4 DEF EnterFlat
  <2>1. CASE /\ j.status = "pause_requested" /\ j' = [j EXCEPT !.status = "paused"]
             /\ ToFresh("ending")
    BY <2>0, <2>1, StatusFields
       DEF DigestsStand, Kept, Shape
  <2>2. CASE j.status \in {"stopped", "paused"} /\ j' = j /\ ToFresh("ending")
    BY <2>0, <2>2
       DEF DigestsStand, Kept, Shape
  <2>3. CASE /\ j.status = "running" /\ j' = Stopped("state_witness_changed", FALSE)
             /\ ToFresh("ending")
    <3>1. j'.dig = j.dig /\ j'.prep = {}
      BY <2>0, <2>3, StoppedFields DEF Shape
    <3> QED BY <2>0, <2>3, <3>1 DEF Kept, DigestsStand
  <2>4. CASE j.status \notin {"pause_requested", "stopped", "paused"} /\ j' = j /\ Goto("node")
    BY <2>0, <2>4
       DEF DigestsStand, Kept, Shape
  <2> QED BY <1>4, <2>1, <2>2, <2>3, <2>4 DEF EnterFlat
<1>5. CASE OpenRoundFlat
  BY <1>5, RoundStartedFields
     DEF OpenRoundFlat, DigestsStand, Kept, Shape
<1>6. CASE StartCallFlat
  BY <1>6, CallStartedFields
     DEF StartCallFlat, DigestsStand, Kept, Shape
<1>7. CASE SendRefusedFlat
  BY <1>7, CallRejectedFields
     DEF SendRefusedFlat, DigestsStand, Kept, Shape
<1>8. CASE AnswerUnknownFlat
  BY <1>8, CallUncertainFields
     DEF AnswerUnknownFlat, DigestsStand, Kept, Shape
<1>9. CASE AnswerMalformedFlat
  BY <1>9, CallRejectedFields
     DEF AnswerMalformedFlat, DigestsStand, Kept, Shape
<1>10. CASE AnswerUnavailableFlat
  BY <1>10, CallRejectedFields
     DEF AnswerUnavailableFlat, DigestsStand, Kept, Shape
<1>11. CASE KeepAnswerFlat
  <2>1. Call \notin DOMAIN j.dig
    BY <1>11 DEF KeepAnswerFlat, PendingOK, CallPending, Asking
  <2>2. /\ DOMAIN body' = DOMAIN body \cup {Call}
        /\ \A s \in DOMAIN body : s # Call => body'[s] = body[s]
        /\ j' = j /\ blame' = blame
    BY <1>11 DEF KeepAnswerFlat, Put
  <2> QED BY <2>1, <2>2 DEF Kept, DigestsStand
<1>12. CASE CompleteCallFlat
  <2>0. /\ job = "live" /\ w.pc = "complete"
        /\ UNCHANGED <<body, wf, cp, probe, job, api, changed, sent, blame, count>>
    BY <1>12 DEF CompleteCallFlat
  <2>1. CASE /\ j.status # "stopped" /\ Call \in j.calls
             /\ j' = CallCompleted(Call, w.val) /\ cp.node = "generate"
             /\ Checkpoint([cp EXCEPT !.node = "schedule"])
    BY <2>0, <2>1, CallCompletedFields, CallCompletedDigests
       DEF DigestsStand, Kept, Shape, BodyOK
  <2>2. CASE /\ j.status # "stopped" /\ Call \in j.calls
             /\ j' = CallCompleted(Call, w.val) /\ cp.node # "generate" /\ ProbeLoop
    BY <2>0, <2>2, CallCompletedFields, CallCompletedDigests
       DEF DigestsStand, Kept, Shape, BodyOK
  <2>3. CASE ~(j.status # "stopped" /\ Call \in j.calls) /\ j' = j /\ Raise("error")
    BY <2>0, <2>3
       DEF DigestsStand, Kept, Shape
  <2> QED BY <1>12, <2>1, <2>2, <2>3 DEF CompleteCallFlat
<1>13. CASE StartToolFlat
  BY <1>13, ToolStartedFields
     DEF StartToolFlat, DigestsStand, Kept, Shape
<1>14. CASE FailToolFlat
  BY <1>14, ToolFailedFields
     DEF FailToolFlat, DigestsStand, Kept, Shape
<1>15. CASE KeepResultFlat
  <2>1. Mine \notin DOMAIN j.dig
    BY <1>15 DEF KeepResultFlat, PendingOK, ToolPending, Tooling
  <2>2. /\ DOMAIN body' = DOMAIN body \cup {Mine}
        /\ \A s \in DOMAIN body : s # Mine => body'[s] = body[s]
        /\ j' = j /\ blame' = blame
    BY <1>15 DEF KeepResultFlat, Put
  <2> QED BY <2>1, <2>2 DEF Kept, DigestsStand
<1>16. CASE PrepareReceiptFlat
  <2>0. /\ job = "live" /\ w.pc = "prepare"
        /\ UNCHANGED <<body, wf, cp, probe, job, api, changed, sent, blame, count>>
    BY <1>16 DEF PrepareReceiptFlat
  <2>1. CASE /\ j.status # "stopped" /\ Mine \in j.slots
             /\ j' = ReceiptPrepared(Mine) /\ Goto("commit")
    BY <2>0, <2>1, ReceiptPreparedFields
       DEF DigestsStand, Kept, Shape, BodyOK
  <2>2. CASE ~(j.status # "stopped" /\ Mine \in j.slots) /\ j' = j /\ Raise("error")
    BY <2>0, <2>2
       DEF DigestsStand, Kept, Shape
  <2> QED BY <1>16, <2>1, <2>2 DEF PrepareReceiptFlat
<1>17. CASE CommitReceiptFlat
  <2>0. /\ job = "live" /\ w.pc = "commit"
        /\ UNCHANGED <<body, wf, cp, probe, job, api, changed, sent, blame, count>>
    BY <1>17 DEF CommitReceiptFlat
  <2>1. CASE /\ j.status # "stopped" /\ Mine \in j.prep
             /\ j' = ReceiptCommitted(Mine, w.val) /\ ProbeLoop
    BY <2>0, <2>1, ReceiptCommittedFields, ReceiptCommittedDigests
       DEF DigestsStand, Kept, Shape, BodyOK, JournalOK
  <2>2. CASE ~(j.status # "stopped" /\ Mine \in j.prep) /\ j' = j /\ Raise("error")
    BY <2>0, <2>2
       DEF DigestsStand, Kept, Shape
  <2> QED BY <1>17, <2>1, <2>2 DEF CommitReceiptFlat
<1>18. CASE GateVerdictFlat
  <2>0. /\ job = "live" /\ w.pc = "gate"
        /\ UNCHANGED <<body, wf, cp, probe, job, api, changed, sent, blame, count>>
    BY <1>18 DEF GateVerdictFlat
  <2>1. CASE /\ j' = j \/ (j.status = "running" /\ j' = [j EXCEPT !.gated = @ \cup {cp.round}])
             /\ Goto("persist")
    BY <2>0, <2>1, GatedFields
       DEF DigestsStand, Kept, Shape
  <2>2. CASE ~(j.status = "running" /\ NoPending /\ j.open) /\ j' = j /\ Raise("error")
    BY <2>0, <2>2
       DEF DigestsStand, Kept, Shape
  <2> QED BY <1>18, <2>1, <2>2 DEF GateVerdictFlat
<1>19. CASE KeepReductionFlat
  <2>1. Red(cp.round) \notin DOMAIN j.dig
    BY DEF JournalOK, Calls, Tools, Red, Gen, Ask, Tool
  <2>2. /\ j' = j /\ blame' = blame
        /\ body' = body \/ body' = Put(body, Red(cp.round), w.val)
    BY <1>19 DEF KeepReductionFlat
  <2>3. /\ DOMAIN body \subseteq DOMAIN body'
        /\ \A s \in DOMAIN body : s # Red(cp.round) => body'[s] = body[s]
    BY <2>2 DEF Put
  <2> QED BY <2>1, <2>2, <2>3 DEF Kept, DigestsStand
<1>20. CASE CommitReductionFlat
  <2>0. /\ job = "live" /\ w.pc = "reduce"
        /\ UNCHANGED <<body, wf, cp, probe, job, api, changed, sent, blame, count>>
    BY <1>20 DEF CommitReductionFlat
  <2>1. CASE /\ j.status = "running" /\ NoPending /\ j.open /\ j' = ReductionCommitted(w.val)
             /\ Checkpoint([cp EXCEPT !.node = "settle", !.red = w.val, !.before = Snapshot])
    <3>1. j'.dig = j.dig /\ j'.prep = j.prep
      BY <2>0, <2>1, ReductionCommittedFields DEF Shape
    <3> QED BY <2>0, <2>1, <3>1 DEF Kept, DigestsStand
  <2>2. CASE ~(j.status = "running" /\ NoPending /\ j.open) /\ j' = j /\ Raise("error")
    BY <2>0, <2>2
       DEF DigestsStand, Kept, Shape
  <2> QED BY <1>20, <2>1, <2>2 DEF CommitReductionFlat
<1>21. CASE SettleFlat
  BY <1>21, RoundSettledFields
     DEF SettleFlat, DigestsStand, Kept, Shape
<1>22. CASE StopFlat
  BY <1>22, StoppedFields
     DEF StopFlat, DigestsStand, Kept, Shape
<1>23. CASE HandlePauseFlat
  BY <1>23, HandlePauseMoves
     DEF DigestsStand, Kept, Shape
<1>24. CASE CrashFlat
  BY <1>24
     DEF CrashFlat, DigestsStand, Kept, Shape
<1>25. CASE PauseFlat
  BY <1>25, PauseMoves
     DEF DigestsStand, Kept, Shape
<1>26. CASE ResumeFlat
  <2>0. /\ j.status = "paused" /\ api = "idle"
        /\ UNCHANGED <<body, wf, cp, probe, w, job, changed, sent, blame, count>>
    BY <1>26 DEF ResumeFlat
  <2>1. CASE changed /\ j' = Stopped("state_witness_changed", FALSE) /\ api' = api
    <3>1. j'.dig = j.dig /\ j'.prep = {}
      BY <2>0, <2>1, StoppedFields DEF Shape
    <3> QED BY <2>0, <2>1, <3>1 DEF Kept, DigestsStand
  <2>2. CASE /\ job \notin {"queued", "live"} /\ j' = [j EXCEPT !.status = "running"]
             /\ api' = "launching"
    BY <2>0, <2>2, StatusFields
       DEF DigestsStand, Kept, Shape
  <2> QED BY <1>26, <2>1, <2>2 DEF ResumeFlat
<1>27. CASE LaunchFlat
  <2>0. /\ api = "launching"
        /\ api' = "idle"
        /\ UNCHANGED <<body, wf, cp, probe, w, changed, sent>>
    BY <1>27 DEF LaunchFlat
  <2>1. CASE job' = "queued" /\ UNCHANGED <<j, blame, count>>
    BY <2>0, <2>1
       DEF DigestsStand, Kept, Shape
  <2>2. CASE /\ j.status = "stopped" /\ j' = j
             /\ blame' = blame \cup {"launch"} /\ UNCHANGED <<job, count>>
    BY <2>0, <2>2
       DEF DigestsStand, Kept, Shape
  <2>3. CASE /\ j.status # "stopped" /\ j' = Stopped("failed", FALSE)
             /\ blame' = blame \cup {"launch"} /\ UNCHANGED <<job, count>>
    <3>1. j'.dig = j.dig /\ j'.prep = {}
      BY <2>0, <2>3, StoppedFields DEF Shape
    <3> QED BY <2>0, <2>3, <3>1 DEF Kept, DigestsStand
  <2>4. CASE /\ Room /\ count' = [count EXCEPT !.crashes = @ + 1]
             /\ blame' = blame \cup {"api"} /\ UNCHANGED <<j, job>>
    BY <2>0, <2>4
       DEF DigestsStand, Kept, Shape
  <2> QED BY <1>27, <2>1, <2>2, <2>3, <2>4 DEF LaunchFlat
<1>28. CASE CancelFlat
  <2>1. j'.dig = j.dig /\ j'.prep = {}
    BY <1>28, StoppedFields DEF CancelFlat, Shape
  <2> QED BY <1>28, <2>1 DEF CancelFlat, Kept, DigestsStand
<1>29. CASE ExtendBudgetFlat
  BY <1>29, ExtendBudgetMoves
     DEF DigestsStand, Kept, Shape
<1>30. CASE UNCHANGED <<j, body, blame>>
  BY <1>30 DEF DigestsStand, Kept, Shape
<1>31. QED
  BY NextIsFlat, <1>1, <1>2, <1>3, <1>4, <1>5, <1>6, <1>7, <1>8, <1>9, <1>10, <1>11, <1>12,
         <1>13, <1>14, <1>15, <1>16, <1>17, <1>18, <1>19, <1>20, <1>21, <1>22, <1>23, <1>24,
         <1>25, <1>26, <1>27, <1>28, <1>29, <1>30, ZenonT(60)
     DEF NextFlat, vars, ClaimFlat, RecoveredFlat, WriteCheckpointFlat, EndAttemptFlat,
         OrientFlat, GenerateFlat, SendFlat, AnsweredFlat, ScheduleFlat, PassNodeFlat,
         ExecuteFlat, NextProbeFlat, AskModelFlat, UseToolFlat, RunToolFlat, ReduceFlat,
         PersistReductionFlat, AfterSettleFlat, SynthesizeFlat, HandleCancelFlat,
         HandleStopFlat, RerunFlat, CancelJobFlat, ChangeDataFlat

\* The last reduction the journal committed stays the one its body holds.
LEMMA ReductionStep ==
    ASSUME Shape, JournalOK, CkptOK(cp), PlaceOK, Kept, BodyOK, [Next]_vars
    PROVE  ReductionStands'
<1> USE DEF Kept
<1>1. CASE OpenRoundFlat
  BY <1>1, RoundStartedFields DEF OpenRoundFlat, CanStartRound, Shape, JournalOK,
         ReductionStands
<1>2. CASE CommitReductionFlat
  <2>1. Red(cp.round) \in DOMAIN body /\ body[Red(cp.round)] = w.val /\ cp.round = j.settled
    BY <1>2 DEF CommitReductionFlat, BodyOK, CkptOK, CkptFits, PlaceOK, Reducing, InRound
  <2>2. CASE j' = ReductionCommitted(w.val)
    <3>1. j'.committed /\ j'.redn = w.val /\ j'.settled = j.settled
      BY <2>2, ReductionCommittedFields DEF Shape
    <3> QED BY <1>2, <2>1, <3>1 DEF CommitReductionFlat, ReductionStands
  <2>3. CASE j' = j
    BY <1>2, <2>3 DEF CommitReductionFlat, ReductionStands
  <2> QED BY <1>2, <2>2, <2>3 DEF CommitReductionFlat
<1>3. CASE SettleFlat
  <2>1. CASE j.open /\ j' = RoundSettled(cp.red, Decision)
    <3>1. j.committed /\ ~j'.committed /\ j'.settled = j.settled + 1 /\ j'.redn = j.redn
      BY <1>3, <2>1, RoundSettledFields DEF SettleFlat, Shape, CkptOK, CkptFits
    <3> QED BY <1>3, <3>1 DEF SettleFlat, ReductionStands, JournalOK
  <2>2. CASE j' = j
    BY <1>3, <2>2 DEF SettleFlat, ReductionStands
  <2> QED BY <1>3, <2>1, <2>2 DEF SettleFlat
<1>4. CASE KeepAnswerFlat
  <2>1. \A r : Red(r) # Call
    BY DEF Red, Call, Gen, Ask
  <2> QED BY <1>4, <2>1 DEF KeepAnswerFlat, Put, ReductionStands
<1>5. CASE KeepResultFlat
  <2>1. \A r : Red(r) # Mine
    BY DEF Red, Mine, Tool
  <2> QED BY <1>5, <2>1 DEF KeepResultFlat, Put, ReductionStands
<1>6. CASE KeepReductionFlat
  <2>1. ~j.committed /\ cp.round = j.settled
    BY <1>6 DEF KeepReductionFlat, BodyOK, CkptOK, CkptFits, PlaceOK, Reducing, InRound
  <2>2. j.settled > 0 => Red(j.settled - 1) # Red(cp.round)
    BY <2>1 DEF Red, JournalOK
  <2> QED BY <1>6, <2>1, <2>2 DEF KeepReductionFlat, Put, ReductionStands
<1>7. CASE ~OpenRoundFlat /\ ~CommitReductionFlat /\ ~SettleFlat
           /\ ~KeepAnswerFlat /\ ~KeepResultFlat /\ ~KeepReductionFlat
  <2>1. ~OpenRound /\ ~CommitReduction /\ ~Settle
    BY <1>7, OpenRoundStep, CommitReductionStep, SettleStep DEF Shape
  <2>2. RoundStays
    <3>1. DOMAIN j = JFields
      BY ZenonT(60) DEF Shape
    <3> QED BY <2>1, <3>1, RoundKept
  <2>3. body' = body
    BY <1>7, NextIsFlat DEF NextFlat, vars, ClaimFlat, VerifyFlat, RecoverCallFlat,
         RecoverToolFlat, RecoveredFlat, EnterFlat, WriteCheckpointFlat, EndAttemptFlat,
         OrientFlat, GenerateFlat, StartCallFlat, SendFlat, SendRefusedFlat, AnsweredFlat,
         AnswerUnknownFlat, AnswerMalformedFlat, AnswerUnavailableFlat, CompleteCallFlat,
         ScheduleFlat, PassNodeFlat, ExecuteFlat, NextProbeFlat, AskModelFlat, UseToolFlat,
         StartToolFlat, RunToolFlat, FailToolFlat, PrepareReceiptFlat, CommitReceiptFlat,
         ReduceFlat, GateVerdictFlat, PersistReductionFlat, AfterSettleFlat, SynthesizeFlat,
         StopFlat, HandlePauseFlat, HandleCancelFlat, HandleStopFlat, CrashFlat, RerunFlat,
         PauseFlat, ResumeFlat, LaunchFlat, CancelFlat, CancelJobFlat, ExtendBudgetFlat,
         ChangeDataFlat
  <2> QED BY <2>2, <2>3 DEF RoundStays, ReductionStands
<1> QED BY <1>1, <1>2, <1>3, <1>4, <1>5, <1>6, <1>7

\* What the worker holds is what it wrote, and a batch has a size.
LEMMA BodyStep ==
    ASSUME Shape, JournalOK, CountOK, CkptOK(cp), PlaceOK, BodyOK, [Next]_vars
    PROVE  BodyOK'
<1>1. CASE ClaimFlat
  BY <1>1, FreshWorker
     DEF ClaimFlat, BodyOK, Shape, Call, Mine, Reducing
<1>2. CASE VerifyFlat
  BY <1>2, GotoWorker, OffWorker, RecoverWorker
     DEF VerifyFlat, BodyOK, Shape, Call, Mine, Reducing
<1>3. CASE RecoverCallFlat
  <2>1. body' = body /\ w'.pc \in {"off", "recover"}
    BY <1>3, OffWorker, SettleRestWorker DEF RecoverCallFlat, Shape
  <2> QED BY <2>1 DEF BodyOK, Reducing
<1>4. CASE RecoverToolFlat
  <2>1. body' = body /\ w'.pc \in {"off", "recover"}
    BY <1>4, OffWorker, SettleRestWorker DEF RecoverToolFlat, Shape
  <2> QED BY <2>1 DEF BodyOK, Reducing
<1>5. CASE RecoveredFlat
  BY <1>5, EnterWorker
     DEF RecoveredFlat, BodyOK, Shape, Call, Mine, Reducing
<1>6. CASE EnterFlat
  <2>0. /\ job = "live" /\ w.pc = "enter"
        /\ UNCHANGED <<body, wf, cp, probe, job, api, changed, sent, blame, count>>
    BY <1>6 DEF EnterFlat
  <2>1. CASE /\ j.status = "pause_requested" /\ j' = [j EXCEPT !.status = "paused"]
             /\ ToFresh("ending")
    BY <2>0, <2>1, FreshWorker, StatusFields
       DEF BodyOK, Shape, Call, Mine, Reducing
  <2>2. CASE j.status \in {"stopped", "paused"} /\ j' = j /\ ToFresh("ending")
    BY <2>0, <2>2, FreshWorker
       DEF BodyOK, Shape, Call, Mine, Reducing
  <2>3. CASE /\ j.status = "running" /\ j' = Stopped("state_witness_changed", FALSE)
             /\ ToFresh("ending")
    <3>1. w'.pc = "ending"
      BY <2>3, FreshWorker
    <3> QED BY <2>0, <3>1 DEF BodyOK, Reducing
  <2>4. CASE j.status \notin {"pause_requested", "stopped", "paused"} /\ j' = j /\ Goto("node")
    BY <2>0, <2>4, GotoWorker
       DEF BodyOK, Shape, Call, Mine, Reducing
  <2> QED BY <1>6, <2>1, <2>2, <2>3, <2>4 DEF EnterFlat
<1>7. CASE WriteCheckpointFlat
  BY <1>7, NodeWorker
     DEF WriteCheckpointFlat, BodyOK, Shape, Call, Mine, Reducing
<1>8. CASE EndAttemptFlat
  BY <1>8, OffWorker
     DEF EndAttemptFlat, BodyOK, Shape, Call, Mine, Reducing
<1>9. CASE OrientFlat
  BY <1>9, GotoWorker, RaiseWorker, CheckpointWorker
     DEF OrientFlat, BodyOK, Shape, Call, Mine, Reducing
<1>10. CASE OpenRoundFlat
  BY <1>10, RaiseWorker, CheckpointWorker, RoundStartedFields
     DEF OpenRoundFlat, BodyOK, Shape, Call, Mine, Reducing
<1>11. CASE GenerateFlat
  <2>0. /\ job = "live" /\ w.pc = "node" /\ cp.node = "generate"
        /\ UNCHANGED <<j, body, wf, cp, probe, job, api, changed, sent, blame, count>>
    BY <1>11 DEF GenerateFlat
  <2>1. CASE j.status # "running" /\ Raise(IF j.status = "stopped" THEN "cancel" ELSE "pause")
    BY <2>0, <2>1, RaiseWorker
       DEF BodyOK, Shape, Call, Mine, Reducing
  <2>2. CASE /\ j.status = "running" /\ Done(Call) /\ j.dig[Call] = body[Call]
             /\ Checkpoint([cp EXCEPT !.node = "schedule"])
    BY <2>0, <2>2, CheckpointWorker
       DEF BodyOK, Shape, Call, Mine, Reducing
  <2>3. CASE j.status = "running" /\ Done(Call) /\ j.dig[Call] # body[Call] /\ Raise("error")
    BY <2>0, <2>3, RaiseWorker
       DEF BodyOK, Shape, Call, Mine, Reducing
  <2>4. CASE j.status = "running" /\ ~Done(Call) /\ Call \in j.unsure /\ Raise("error")
    BY <2>0, <2>4, RaiseWorker
       DEF BodyOK, Shape, Call, Mine, Reducing
  <2>5. CASE j.status = "running" /\ Raise("budget")
    BY <2>0, <2>5, RaiseWorker
       DEF BodyOK, Shape, Call, Mine, Reducing
  <2>6. CASE /\ j.status = "running" /\ ~Done(Call) /\ Call \notin j.unsure /\ CanSend
             /\ ToStart(1)
    BY <2>0, <2>6, StartWorker
       DEF BodyOK, Shape, Call, Mine, Reducing
  <2> QED BY <1>11, <2>1, <2>2, <2>3, <2>4, <2>5, <2>6 DEF GenerateFlat
<1>12. CASE StartCallFlat
  BY <1>12, GotoWorker, RaiseWorker, CallStartedFields
     DEF StartCallFlat, BodyOK, Shape, Call, Mine, Reducing
<1>13. CASE SendFlat
  BY <1>13, GotoWorker
     DEF SendFlat, BodyOK, Shape, Call, Mine, Reducing
<1>14. CASE SendRefusedFlat
  BY <1>14, RaiseWorker, ProbeLoopWorker, CallRejectedFields
     DEF SendRefusedFlat, BodyOK, Shape, Call, Mine, Reducing
<1>15. CASE AnsweredFlat
  BY <1>15, KeepWorker
     DEF AnsweredFlat, BodyOK, Shape, Call, Mine, Reducing
<1>16. CASE AnswerUnknownFlat
  <2>0. /\ job = "live" /\ w.pc = "answer"
        /\ blame' = blame \cup {"provider"}
        /\ UNCHANGED <<body, wf, cp, job, api, changed, sent, count>>
    BY <1>16 DEF AnswerUnknownFlat
  <2>1. CASE j.status = "stopped" /\ Raise("error") /\ UNCHANGED <<j, probe>>
    BY <2>0, <2>1, RaiseWorker
       DEF BodyOK, Shape, Call, Mine, Reducing
  <2>2. CASE /\ j.status # "stopped" /\ j' = CallUncertain(Call) /\ cp.node = "generate"
             /\ Raise("error") /\ probe' = probe
    BY <2>0, <2>2, RaiseWorker, CallUncertainFields
       DEF BodyOK, Shape, Call, Mine, Reducing
  <2>3. CASE /\ j.status # "stopped" /\ j' = CallUncertain(Call) /\ cp.node # "generate"
             /\ probe' = [probe EXCEPT ![Here] = "bad"] /\ ProbeLoop
    BY <2>0, <2>3, ProbeLoopWorker, CallUncertainFields
       DEF BodyOK, Shape, Call, Mine, Reducing
  <2> QED BY <1>16, <2>1, <2>2, <2>3 DEF AnswerUnknownFlat
<1>17. CASE AnswerMalformedFlat
  <2>0. /\ job = "live" /\ w.pc = "answer"
        /\ sent' = [sent EXCEPT ![Call] = 0]
        /\ UNCHANGED <<body, wf, cp, job, api, changed, blame, count>>
    BY <1>17 DEF AnswerMalformedFlat
  <2>1. CASE j.status = "stopped" /\ Raise("error") /\ UNCHANGED <<j, probe>>
    BY <2>0, <2>1, RaiseWorker
       DEF BodyOK, Shape, Call, Mine, Reducing
  <2>2. CASE /\ j.status # "stopped" /\ j' = CallRejected(Call) /\ cp.node = "generate"
             /\ ToStart(2) /\ probe' = probe
    BY <2>0, <2>2, StartWorker, CallRejectedFields
       DEF BodyOK, Shape, Call, Mine, Reducing
  <2>3. CASE /\ j.status # "stopped" /\ j' = CallRejected(Call) /\ cp.node # "generate"
             /\ probe' = [probe EXCEPT ![Here] = "end"] /\ ProbeLoop
    BY <2>0, <2>3, ProbeLoopWorker, CallRejectedFields
       DEF BodyOK, Shape, Call, Mine, Reducing
  <2> QED BY <1>17, <2>1, <2>2, <2>3 DEF AnswerMalformedFlat
<1>18. CASE AnswerUnavailableFlat
  BY <1>18, RaiseWorker, ProbeLoopWorker, CallRejectedFields
     DEF AnswerUnavailableFlat, BodyOK, Shape, Call, Mine, Reducing
<1>19. CASE KeepAnswerFlat
  <2>1. /\ w.pc = "keep" /\ w'.pc = "complete" /\ w'.p = w.p /\ w'.val = w.val
        /\ cp' = cp /\ j' = j /\ body' = Put(body, Call, w.val)
    BY <1>19, GotoWorker DEF KeepAnswerFlat, Shape
  <2>2. Call' = Call
    BY <2>1 DEF Call
  <2>3. \A r \in Rounds : Call = Gen(r) => cp.node = "generate"
    BY DEF Call, Gen, Ask
  <2>4. /\ DOMAIN body' = DOMAIN body \cup {Call} /\ body'[Call] = w.val
        /\ \A s \in DOMAIN body : s # Call => body'[s] = body[s]
    BY <2>1 DEF Put
  <2> QED BY <2>1, <2>2, <2>3, <2>4 DEF BodyOK, Reducing
<1>20. CASE CompleteCallFlat
  BY <1>20, RaiseWorker, CheckpointWorker, ProbeLoopWorker, CallCompletedFields
     DEF CompleteCallFlat, BodyOK, Shape, Call, Mine, Reducing
<1>21. CASE ScheduleFlat
  BY <1>21, RaiseWorker, CheckpointWorker
     DEF ScheduleFlat, BodyOK, Shape, Call, Mine, Reducing
<1>22. CASE PassNodeFlat
  BY <1>22, RaiseWorker, CheckpointWorker
     DEF PassNodeFlat, BodyOK, Shape, Call, Mine, Reducing
<1>23. CASE ExecuteFlat
  <2>0. /\ job = "live" /\ w.pc = "node" /\ cp.node = "execute_probes"
        /\ UNCHANGED <<j, body, wf, cp, probe, job, api, changed, sent, blame, count>>
    BY <1>23 DEF ExecuteFlat
  <2>1. CASE j.status # "running" /\ Raise(IF j.status = "stopped" THEN "cancel" ELSE "pause")
    BY <2>0, <2>1, RaiseWorker
       DEF BodyOK, Shape, Call, Mine, Reducing
  <2>2. CASE j.status = "running" /\ ToProbes
    BY <2>0, <2>2, ProbesWorker
       DEF BodyOK, Shape, Call, Mine, Reducing
  <2> QED BY <1>23, <2>1, <2>2 DEF ExecuteFlat
<1>24. CASE NextProbeFlat
  <2>0. /\ job = "live" /\ w.pc = "probes"
        /\ UNCHANGED <<j, body, wf, cp, probe, job, api, changed, sent, blame, count>>
    BY <1>24 DEF NextProbeFlat
  <2>1. CASE \E spent : Checkpoint([cp EXCEPT !.node = "validate", !.spent = spent])
    BY <2>0, <2>1, CheckpointWorker
       DEF BodyOK, Shape, Call, Mine, Reducing
  <2>2. CASE ~(w.p > cp.n) /\ probe[Here] = "bad" /\ Raise("error")
    BY <2>0, <2>2, RaiseWorker
       DEF BodyOK, Shape, Call, Mine, Reducing
  <2>3. CASE ~(w.p > cp.n) /\ ToProbe(w.p + 1)
    BY <2>0, <2>3, ProbeWorker
       DEF BodyOK, Shape, Call, Mine, Reducing
  <2> QED BY <1>24, <2>1, <2>2, <2>3 DEF NextProbeFlat
<1>25. CASE AskModelFlat
  BY <1>25, GotoWorker, ProbeLoopWorker
     DEF AskModelFlat, BodyOK, Shape, Call, Mine, Reducing
<1>26. CASE UseToolFlat
  BY <1>26, GotoWorker, ProbeLoopWorker
     DEF UseToolFlat, BodyOK, Shape, Call, Mine, Reducing
<1>27. CASE StartToolFlat
  BY <1>27, GotoWorker, RaiseWorker, ToolStartedFields
     DEF StartToolFlat, BodyOK, Shape, Call, Mine, Reducing
<1>28. CASE RunToolFlat
  BY <1>28, ResultWorker
     DEF RunToolFlat, BodyOK, Shape, Call, Mine, Reducing
<1>29. CASE FailToolFlat
  BY <1>29, RaiseWorker, ProbeLoopWorker, ToolFailedFields
     DEF FailToolFlat, BodyOK, Shape, Call, Mine, Reducing
<1>30. CASE KeepResultFlat
  <2>1. /\ w'.pc = "prepare" /\ w'.p = w.p /\ w'.val = w.val
        /\ cp' = cp /\ j' = j /\ body' = Put(body, Mine, w.val)
    BY <1>30, PrepareWorker DEF KeepResultFlat, Shape
  <2>2. Mine' = Mine
    BY <2>1 DEF Mine
  <2>3. \A r \in Rounds : Mine # Gen(r)
    BY DEF Mine, Tool, Gen
  <2>4. /\ DOMAIN body' = DOMAIN body \cup {Mine} /\ body'[Mine] = w.val
        /\ \A s \in DOMAIN body : s # Mine => body'[s] = body[s]
    BY <2>1 DEF Put
  <2> QED BY <2>1, <2>2, <2>3, <2>4 DEF BodyOK, Reducing
<1>31. CASE PrepareReceiptFlat
  BY <1>31, GotoWorker, RaiseWorker, ReceiptPreparedFields
     DEF PrepareReceiptFlat, BodyOK, Shape, Call, Mine, Reducing
<1>32. CASE CommitReceiptFlat
  <2>0. /\ job = "live" /\ w.pc = "commit"
        /\ UNCHANGED <<body, wf, cp, probe, job, api, changed, sent, blame, count>>
    BY <1>32 DEF CommitReceiptFlat
  <2>1. CASE /\ j.status # "stopped" /\ Mine \in j.prep
             /\ j' = ReceiptCommitted(Mine, w.val) /\ ProbeLoop
    BY <2>0, <2>1, ProbeLoopWorker, ReceiptCommittedFields
       DEF BodyOK, Shape, Call, Mine, Reducing
  <2>2. CASE ~(j.status # "stopped" /\ Mine \in j.prep) /\ j' = j /\ Raise("error")
    BY <2>0, <2>2, RaiseWorker
       DEF BodyOK, Shape, Call, Mine, Reducing
  <2> QED BY <1>32, <2>1, <2>2 DEF CommitReceiptFlat
<1>33. CASE ReduceFlat
  <2>0. /\ job = "live" /\ w.pc = "node" /\ cp.node = "reduce"
        /\ UNCHANGED <<j, body, wf, cp, probe, job, api, changed, sent, blame, count>>
    BY <1>33 DEF ReduceFlat
  <2>1. CASE j.status # "running" /\ Raise(IF j.status = "stopped" THEN "cancel" ELSE "pause")
    BY <2>0, <2>1, RaiseWorker
       DEF BodyOK, Shape, Call, Mine, Reducing
  <2>2. CASE /\ j.status = "running" /\ j.committed /\ j.redn = body[Red(cp.round)]
             /\ Checkpoint([cp EXCEPT !.node = "settle", !.red = j.redn, !.before = Snapshot])
    BY <2>0, <2>2, CheckpointWorker
       DEF BodyOK, Shape, Call, Mine, Reducing
  <2>3. CASE /\ j.status = "running" /\ j.committed /\ j.redn # body[Red(cp.round)]
             /\ Raise("error")
    BY <2>0, <2>3, RaiseWorker
       DEF BodyOK, Shape, Call, Mine, Reducing
  <2>4. CASE j.status = "running" /\ ~j.committed /\ Goto("gate")
    BY <2>0, <2>4, GotoWorker
       DEF BodyOK, Shape, Call, Mine, Reducing
  <2>5. CASE /\ j.status = "running" /\ ~j.committed
             /\ ToOutcome([v |-> "dry", fresh |-> TRUE])
    BY <2>0, <2>5, OutcomeWorker
       DEF BodyOK, Shape, Call, Mine, Reducing
  <2> QED BY <1>33, <2>1, <2>2, <2>3, <2>4, <2>5 DEF ReduceFlat
<1>34. CASE GateVerdictFlat
  <2>0. /\ job = "live" /\ w.pc = "gate"
        /\ UNCHANGED <<body, wf, cp, probe, job, api, changed, sent, blame, count>>
    BY <1>34 DEF GateVerdictFlat
  <2>1. CASE /\ j' = j \/ (j.status = "running" /\ j' = [j EXCEPT !.gated = @ \cup {cp.round}])
             /\ Goto("persist")
    BY <2>0, <2>1, GotoWorker, GatedFields
       DEF BodyOK, Shape, Call, Mine, Reducing
  <2>2. CASE ~(j.status = "running" /\ NoPending /\ j.open) /\ j' = j /\ Raise("error")
    BY <2>0, <2>2, RaiseWorker
       DEF BodyOK, Shape, Call, Mine, Reducing
  <2> QED BY <1>34, <2>1, <2>2 DEF GateVerdictFlat
<1>35. CASE PersistReductionFlat
  BY <1>35, OutcomeWorker
     DEF PersistReductionFlat, BodyOK, Shape, Call, Mine, Reducing
<1>36. CASE KeepReductionFlat
  <2>1. CASE body' = body /\ Raise("error")
    BY <2>1, RaiseWorker DEF BodyOK, Reducing
  <2>2. CASE body' = Put(body, Red(cp.round), w.val) /\ Goto("reduce")
    <3>1. /\ w.pc = "rkeep" /\ w'.pc = "reduce" /\ w'.val = w.val
          /\ cp' = cp /\ j' = j
      BY <1>36, <2>2, GotoWorker DEF KeepReductionFlat, Shape
    <3>2. \A r \in Rounds : Red(cp.round) # Gen(r)
      BY DEF Red, Gen
    <3>3. /\ DOMAIN body' = DOMAIN body \cup {Red(cp.round)} /\ body'[Red(cp.round)] = w.val
          /\ \A s \in DOMAIN body : s # Red(cp.round) => body'[s] = body[s]
      BY <2>2 DEF Put
    <3> QED BY <3>1, <3>2, <3>3 DEF BodyOK, Reducing
  <2> QED BY <1>36, <2>1, <2>2 DEF KeepReductionFlat
<1>37. CASE CommitReductionFlat
  <2>0. /\ job = "live" /\ w.pc = "reduce"
        /\ UNCHANGED <<body, wf, cp, probe, job, api, changed, sent, blame, count>>
    BY <1>37 DEF CommitReductionFlat
  <2>1. CASE /\ j.status = "running" /\ NoPending /\ j.open /\ j' = ReductionCommitted(w.val)
             /\ Checkpoint([cp EXCEPT !.node = "settle", !.red = w.val, !.before = Snapshot])
    BY <2>0, <2>1, CheckpointWorker, ReductionCommittedFields
       DEF BodyOK, Shape, Call, Mine, Reducing
  <2>2. CASE ~(j.status = "running" /\ NoPending /\ j.open) /\ j' = j /\ Raise("error")
    BY <2>0, <2>2, RaiseWorker
       DEF BodyOK, Shape, Call, Mine, Reducing
  <2> QED BY <1>37, <2>1, <2>2 DEF CommitReductionFlat
<1>38. CASE SettleFlat
  BY <1>38, GotoWorker, RaiseWorker, RoundSettledFields
     DEF SettleFlat, BodyOK, Shape, Call, Mine, Reducing
<1>39. CASE AfterSettleFlat
  BY <1>39, RaiseWorker, CheckpointWorker
     DEF AfterSettleFlat, BodyOK, Shape, Call, Mine, Reducing
<1>40. CASE SynthesizeFlat
  BY <1>40, RaiseWorker, StopWorker
     DEF SynthesizeFlat, BodyOK, Shape, Call, Mine, Reducing
<1>41. CASE StopFlat
  BY <1>41, RaiseWorker, OffWorker, FreshWorker, BareWorker, StoppedFields
     DEF StopFlat, BodyOK, Shape, Call, Mine, Reducing
<1>42. CASE HandlePauseFlat
  BY <1>42, HandlePauseMoves
     DEF BodyOK, Shape, Call, Mine, Reducing
<1>43. CASE HandleCancelFlat
  BY <1>43, FreshWorker
     DEF HandleCancelFlat, BodyOK, Shape, Call, Mine, Reducing
<1>44. CASE HandleStopFlat
  BY <1>44, RaiseWorker, StopWorker
     DEF HandleStopFlat, BodyOK, Shape, Call, Mine, Reducing
<1>45. CASE CrashFlat
  BY <1>45, OffWorker
     DEF CrashFlat, BodyOK, Shape, Call, Mine, Reducing
<1>46. CASE PauseFlat
  BY <1>46, PauseMoves
     DEF BodyOK, Shape, Call, Mine, Reducing
<1>47. CASE ResumeFlat
  <2>0. /\ j.status = "paused" /\ api = "idle"
        /\ UNCHANGED <<body, wf, cp, probe, w, job, changed, sent, blame, count>>
    BY <1>47 DEF ResumeFlat
  <2>1. CASE changed /\ j' = Stopped("state_witness_changed", FALSE) /\ api' = api
    BY <2>0, <2>1, StoppedFields
       DEF BodyOK, Shape, Call, Mine, Reducing
  <2>2. CASE /\ job \notin {"queued", "live"} /\ j' = [j EXCEPT !.status = "running"]
             /\ api' = "launching"
    BY <2>0, <2>2, StatusFields
       DEF BodyOK, Shape, Call, Mine, Reducing
  <2> QED BY <1>47, <2>1, <2>2 DEF ResumeFlat
<1>48. CASE LaunchFlat
  <2>0. /\ api = "launching"
        /\ api' = "idle"
        /\ UNCHANGED <<body, wf, cp, probe, w, changed, sent>>
    BY <1>48 DEF LaunchFlat
  <2>1. CASE job' = "queued" /\ UNCHANGED <<j, blame, count>>
    BY <2>0, <2>1
       DEF BodyOK, Shape, Call, Mine, Reducing
  <2>2. CASE /\ j.status = "stopped" /\ j' = j
             /\ blame' = blame \cup {"launch"} /\ UNCHANGED <<job, count>>
    BY <2>0, <2>2
       DEF BodyOK, Shape, Call, Mine, Reducing
  <2>3. CASE /\ j.status # "stopped" /\ j' = Stopped("failed", FALSE)
             /\ blame' = blame \cup {"launch"} /\ UNCHANGED <<job, count>>
    BY <2>0, <2>3, StoppedFields
       DEF BodyOK, Shape, Call, Mine, Reducing
  <2>4. CASE /\ Room /\ count' = [count EXCEPT !.crashes = @ + 1]
             /\ blame' = blame \cup {"api"} /\ UNCHANGED <<j, job>>
    BY <2>0, <2>4
       DEF BodyOK, Shape, Call, Mine, Reducing
  <2> QED BY <1>48, <2>1, <2>2, <2>3, <2>4 DEF LaunchFlat
<1>49. CASE CancelFlat
  BY <1>49, CancelMoves
     DEF BodyOK, Shape, Call, Mine, Reducing
<1>50. CASE CancelJobFlat
  BY <1>50, OffWorker
     DEF CancelJobFlat, BodyOK, Shape, Call, Mine, Reducing
<1>51. CASE ExtendBudgetFlat
  BY <1>51, ExtendBudgetMoves
     DEF BodyOK, Shape, Call, Mine, Reducing
<1>52. CASE UNCHANGED <<j, w, body, cp>>
  BY <1>52 DEF BodyOK, Shape, Call, Mine, Reducing
<1>53. QED
  BY NextIsFlat, <1>1, <1>2, <1>3, <1>4, <1>5, <1>6, <1>7, <1>8, <1>9, <1>10, <1>11, <1>12,
         <1>13, <1>14, <1>15, <1>16, <1>17, <1>18, <1>19, <1>20, <1>21, <1>22, <1>23, <1>24,
         <1>25, <1>26, <1>27, <1>28, <1>29, <1>30, <1>31, <1>32, <1>33, <1>34, <1>35, <1>36,
         <1>37, <1>38, <1>39, <1>40, <1>41, <1>42, <1>43, <1>44, <1>45, <1>46, <1>47, <1>48,
         <1>49, <1>50, <1>51, <1>52
     DEF NextFlat, vars, RerunFlat, ChangeDataFlat

\* A batch without its completion is the one at hand, or a worker died on it.
LEMMA BatchStep ==
    ASSUME Shape, JournalOK, CountOK, CkptOK(cp), PlaceOK, PendingOK, SentOK, BatchOK,
           [Next]_vars
    PROVE  BatchOK'
<1>1. CASE ClaimFlat
  BY <1>1, FreshWorker
     DEF ClaimFlat, BatchOK, Shape, Call, PlaceOK
<1>2. CASE VerifyFlat
  BY <1>2, GotoWorker, OffWorker, RecoverWorker
     DEF VerifyFlat, BatchOK, Shape, Call
<1>3. CASE RecoverCallFlat
  <2>1. PICK c \in w.todo \cap Calls :
           \/ j' = j
           \/ j' = CallUncertain(c)
           \/ j' = CallCompleted(c, IF c[1] = "gen" THEN Foreign ELSE body[c])
    BY <1>3 DEF RecoverCallFlat
  <2>2. body' = body /\ cp' = cp /\ blame \subseteq blame' /\ w.pc = "recover" /\ w'.pc \in {"off", "recover"}
    BY <1>3, OffWorker, SettleRestWorker DEF RecoverCallFlat, Shape
  <2>3. /\ j'.calls \subseteq j.calls
        /\ j.calls \cup j.unsure \cup DOMAIN j.dig \subseteq j'.calls \cup j'.unsure \cup DOMAIN j'.dig
    BY <2>1, CallUncertainFields, CallCompletedFields, CallCompletedDigests DEF Shape
  <2> QED BY <2>2, <2>3 DEF BatchOK
<1>4. CASE RecoverToolFlat
  <2>1. body' = body /\ cp' = cp /\ blame \subseteq blame' /\ w.pc = "recover" /\ w'.pc \in {"off", "recover"}
    BY <1>4, OffWorker, SettleRestWorker DEF RecoverToolFlat, Shape
  <2>2. j' = j \/ \E t : SlotMoves(t)
    BY <1>4 DEF RecoverToolFlat, SlotMoves
  <2>3. j'.calls = j.calls /\ j'.unsure = j.unsure /\ DOMAIN j.dig \subseteq DOMAIN j'.dig
    BY <2>2, SlotsKeepCalls DEF Shape
  <2> QED BY <2>1, <2>3 DEF BatchOK
<1>5. CASE RecoveredFlat
  BY <1>5, EnterWorker
     DEF RecoveredFlat, BatchOK, Shape, Call
<1>6. CASE EnterFlat
  <2>0. /\ job = "live" /\ w.pc = "enter"
        /\ UNCHANGED <<body, wf, cp, probe, job, api, changed, sent, blame, count>>
    BY <1>6 DEF EnterFlat
  <2>1. CASE /\ j.status = "pause_requested" /\ j' = [j EXCEPT !.status = "paused"]
             /\ ToFresh("ending")
    BY <2>0, <2>1, FreshWorker, StatusFields
       DEF BatchOK, Shape, Call
  <2>2. CASE j.status \in {"stopped", "paused"} /\ j' = j /\ ToFresh("ending")
    BY <2>0, <2>2, FreshWorker
       DEF BatchOK, Shape, Call
  <2>3. CASE /\ j.status = "running" /\ j' = Stopped("state_witness_changed", FALSE)
             /\ ToFresh("ending")
    <3>1. w'.pc = "ending"
      BY <2>3, FreshWorker
    <3>2. j'.calls = {} /\ j'.unsure = j.unsure \cup j.calls /\ j'.dig = j.dig
      BY <2>3, StoppedFields DEF Shape
    <3> QED BY <2>0, <3>1, <3>2 DEF BatchOK
  <2>4. CASE j.status \notin {"pause_requested", "stopped", "paused"} /\ j' = j /\ Goto("node")
    BY <2>0, <2>4, GotoWorker
       DEF BatchOK, Shape, Call
  <2> QED BY <1>6, <2>1, <2>2, <2>3, <2>4 DEF EnterFlat
<1>7. CASE WriteCheckpointFlat
  BY <1>7, NodeWorker
     DEF WriteCheckpointFlat, BatchOK, Shape, Call
<1>8. CASE EndAttemptFlat
  BY <1>8, OffWorker
     DEF EndAttemptFlat, BatchOK, Shape, Call
<1>9. CASE OrientFlat
  BY <1>9, GotoWorker, RaiseWorker, CheckpointWorker
     DEF OrientFlat, BatchOK, Shape, Call
<1>10. CASE OpenRoundFlat
  BY <1>10, RaiseWorker, CheckpointWorker, RoundStartedFields
     DEF OpenRoundFlat, BatchOK, Shape, Call
<1>11. CASE GenerateFlat
  <2>0. /\ job = "live" /\ w.pc = "node" /\ cp.node = "generate"
        /\ UNCHANGED <<j, body, wf, cp, probe, job, api, changed, sent, blame, count>>
    BY <1>11 DEF GenerateFlat
  <2>1. CASE j.status # "running" /\ Raise(IF j.status = "stopped" THEN "cancel" ELSE "pause")
    BY <2>0, <2>1, RaiseWorker
       DEF BatchOK, Shape, Call
  <2>2. CASE /\ j.status = "running" /\ Done(Call) /\ j.dig[Call] = body[Call]
             /\ Checkpoint([cp EXCEPT !.node = "schedule"])
    BY <2>0, <2>2, CheckpointWorker
       DEF BatchOK, Shape, Call
  <2>3. CASE j.status = "running" /\ Done(Call) /\ j.dig[Call] # body[Call] /\ Raise("error")
    BY <2>0, <2>3, RaiseWorker
       DEF BatchOK, Shape, Call
  <2>4. CASE j.status = "running" /\ ~Done(Call) /\ Call \in j.unsure /\ Raise("error")
    BY <2>0, <2>4, RaiseWorker
       DEF BatchOK, Shape, Call
  <2>5. CASE j.status = "running" /\ Raise("budget")
    BY <2>0, <2>5, RaiseWorker
       DEF BatchOK, Shape, Call
  <2>6. CASE /\ j.status = "running" /\ ~Done(Call) /\ Call \notin j.unsure /\ CanSend
             /\ ToStart(1)
    <3>1. w'.pc = "start" /\ Call' = Call
      BY <2>0, <2>6, StartWorker DEF Shape, Call
    <3>2. Call \in {Gen(r) : r \in Rounds}
      BY <2>0, BoundsAssumption DEF Call, Shape, JournalOK, CountOK, RoundsOK, CkptOK,
         CkptFits, InRound, Rounds
    <3>3. Call \notin DOMAIN body
      BY <2>0, <2>6, <3>2 DEF BatchOK, Done, PendingOK, CallPending, Asking, Waiting
    <3> QED BY <2>0, <3>1, <3>3 DEF BatchOK
  <2> QED BY <1>11, <2>1, <2>2, <2>3, <2>4, <2>5, <2>6 DEF GenerateFlat
<1>12. CASE StartCallFlat
  <2>0. /\ job = "live" /\ w.pc = "start"
        /\ UNCHANGED <<body, wf, cp, probe, job, api, changed, sent, blame, count>>
    BY <1>12 DEF StartCallFlat
  <2>1. CASE CanStartCall(Call) /\ j' = CallStarted(Call) /\ Goto("send")
    <3>1. w'.pc = "send" /\ Call' = Call
      BY <2>0, <2>1, GotoWorker DEF Shape, Call
    <3>2. /\ j'.calls = j.calls \cup {Call} /\ j'.unsure = j.unsure /\ j'.dig = j.dig
          /\ j.status = "running"
      BY <2>1, CallStartedFields DEF Shape, CanStartCall
    <3>3. \A r \in Rounds : Call = Gen(r) => cp.node = "generate"
      BY DEF Call, Gen, Ask
    <3>4. cp.node = "generate" => Call \notin DOMAIN body
      BY <2>0, <3>2 DEF BatchOK
    <3> QED BY <2>0, <3>1, <3>2, <3>3, <3>4 DEF BatchOK
  <2>2. CASE ~(j.status # "stopped" /\ CanStartCall(Call)) /\ j' = j /\ Raise("error")
    BY <2>0, <2>2, RaiseWorker
       DEF BatchOK, Shape, Call
  <2> QED BY <1>12, <2>1, <2>2 DEF StartCallFlat
<1>13. CASE SendFlat
  BY <1>13, GotoWorker
     DEF SendFlat, BatchOK, Shape, Call
<1>14. CASE SendRefusedFlat
  <2>1. /\ w.pc = "send" /\ cp' = cp /\ body' = body /\ blame \subseteq blame'
        /\ w'.p \in {0, w.p} /\ w'.pc \in {"raised", "probes", "start"}
        /\ cp.node = "generate" /\ w'.pc = "start" => Call' = Call
    BY <1>14, RaiseWorker, ProbeLoopWorker, StartWorker DEF SendRefusedFlat, Shape, Call
  <2>2. \/ j' = j /\ w'.pc = "raised"
        \/ j' = CallRejected(Call) /\ j.status # "stopped"
    BY <1>14, RaiseWorker DEF SendRefusedFlat
  <2>3. CASE j' = j /\ w'.pc = "raised"
    BY <2>1, <2>3 DEF BatchOK
  <2>4. CASE j' = CallRejected(Call) /\ j.status # "stopped"
    <3>1. j'.calls = j.calls \ {Call} /\ j'.unsure = j.unsure /\ j'.dig = j.dig
      BY <2>4, CallRejectedFields DEF Shape
    <3>2. \A r \in Rounds : Call = Gen(r) => cp.node = "generate"
      BY DEF Call, Gen, Ask
    <3>3. cp.node = "generate" => Call \notin DOMAIN body
      BY <2>1, <2>4 DEF BatchOK
    <3> QED BY <2>1, <3>1, <3>2, <3>3 DEF BatchOK
  <2> QED BY <2>2, <2>3, <2>4
<1>15. CASE AnsweredFlat
  BY <1>15, KeepWorker
     DEF AnsweredFlat, BatchOK, Shape, Call
<1>16. CASE AnswerUnknownFlat
  <2>0. /\ job = "live" /\ w.pc = "answer"
        /\ blame' = blame \cup {"provider"}
        /\ UNCHANGED <<body, wf, cp, job, api, changed, sent, count>>
    BY <1>16 DEF AnswerUnknownFlat
  <2>1. CASE j.status = "stopped" /\ Raise("error") /\ UNCHANGED <<j, probe>>
    BY <2>0, <2>1, RaiseWorker
       DEF BatchOK, Shape, Call
  <2>2. CASE /\ j.status # "stopped" /\ j' = CallUncertain(Call) /\ cp.node = "generate"
             /\ Raise("error") /\ probe' = probe
    BY <2>0, <2>2, RaiseWorker, CallUncertainFields
       DEF BatchOK, Shape, Call
  <2>3. CASE /\ j.status # "stopped" /\ j' = CallUncertain(Call) /\ cp.node # "generate"
             /\ probe' = [probe EXCEPT ![Here] = "bad"] /\ ProbeLoop
    BY <2>0, <2>3, ProbeLoopWorker, CallUncertainFields
       DEF BatchOK, Shape, Call
  <2> QED BY <1>16, <2>1, <2>2, <2>3 DEF AnswerUnknownFlat
<1>17. CASE AnswerMalformedFlat
  <2>1. /\ w.pc = "answer" /\ cp' = cp /\ body' = body /\ blame \subseteq blame'
        /\ w'.p \in {0, w.p} /\ w'.pc \in {"raised", "probes", "start"}
        /\ cp.node = "generate" /\ w'.pc = "start" => Call' = Call
    BY <1>17, RaiseWorker, ProbeLoopWorker, StartWorker DEF AnswerMalformedFlat, Shape, Call
  <2>2. \/ j' = j /\ w'.pc = "raised"
        \/ j' = CallRejected(Call) /\ j.status # "stopped"
    BY <1>17, RaiseWorker DEF AnswerMalformedFlat
  <2>3. CASE j' = j /\ w'.pc = "raised"
    BY <2>1, <2>3 DEF BatchOK
  <2>4. CASE j' = CallRejected(Call) /\ j.status # "stopped"
    <3>1. j'.calls = j.calls \ {Call} /\ j'.unsure = j.unsure /\ j'.dig = j.dig
      BY <2>4, CallRejectedFields DEF Shape
    <3>2. \A r \in Rounds : Call = Gen(r) => cp.node = "generate"
      BY DEF Call, Gen, Ask
    <3>3. cp.node = "generate" => Call \notin DOMAIN body
      BY <2>1, <2>4 DEF BatchOK
    <3> QED BY <2>1, <3>1, <3>2, <3>3 DEF BatchOK
  <2> QED BY <2>2, <2>3, <2>4
<1>18. CASE AnswerUnavailableFlat
  <2>1. /\ w.pc = "answer" /\ cp' = cp /\ body' = body /\ blame \subseteq blame'
        /\ w'.p \in {0, w.p} /\ w'.pc \in {"raised", "probes", "start"}
        /\ cp.node = "generate" /\ w'.pc = "start" => Call' = Call
    BY <1>18, RaiseWorker, ProbeLoopWorker, StartWorker DEF AnswerUnavailableFlat, Shape, Call
  <2>2. \/ j' = j /\ w'.pc = "raised"
        \/ j' = CallRejected(Call) /\ j.status # "stopped"
    BY <1>18, RaiseWorker DEF AnswerUnavailableFlat
  <2>3. CASE j' = j /\ w'.pc = "raised"
    BY <2>1, <2>3 DEF BatchOK
  <2>4. CASE j' = CallRejected(Call) /\ j.status # "stopped"
    <3>1. j'.calls = j.calls \ {Call} /\ j'.unsure = j.unsure /\ j'.dig = j.dig
      BY <2>4, CallRejectedFields DEF Shape
    <3>2. \A r \in Rounds : Call = Gen(r) => cp.node = "generate"
      BY DEF Call, Gen, Ask
    <3>3. cp.node = "generate" => Call \notin DOMAIN body
      BY <2>1, <2>4 DEF BatchOK
    <3> QED BY <2>1, <3>1, <3>2, <3>3 DEF BatchOK
  <2> QED BY <2>2, <2>3, <2>4
<1>19. CASE KeepAnswerFlat
  <2>1. /\ w.pc = "keep" /\ w'.pc = "complete" /\ w'.p = w.p
        /\ cp' = cp /\ j' = j /\ blame' = blame /\ body' = Put(body, Call, w.val)
    BY <1>19, GotoWorker DEF KeepAnswerFlat, Shape
  <2>2. Call' = Call
    BY <2>1 DEF Call
  <2>3. DOMAIN body' = DOMAIN body \cup {Call}
    BY <2>1 DEF Put
  <2>4. Call \in j.calls \cup j.unsure
    BY <2>1 DEF SentOK, Asking
  <2> QED BY <2>1, <2>2, <2>3, <2>4 DEF BatchOK
<1>20. CASE CompleteCallFlat
  <2>0. /\ job = "live" /\ w.pc = "complete"
        /\ UNCHANGED <<body, wf, cp, probe, job, api, changed, sent, blame, count>>
    BY <1>20 DEF CompleteCallFlat
  <2>1. CASE /\ j.status # "stopped" /\ Call \in j.calls
             /\ j' = CallCompleted(Call, w.val) /\ cp.node = "generate"
             /\ Checkpoint([cp EXCEPT !.node = "schedule"])
    BY <2>0, <2>1, CheckpointWorker, CallCompletedFields, CallCompletedDigests, SMTT(60)
       DEF BatchOK, Shape, Call
  <2>2. CASE /\ j.status # "stopped" /\ Call \in j.calls
             /\ j' = CallCompleted(Call, w.val) /\ cp.node # "generate" /\ ProbeLoop
    BY <2>0, <2>2, ProbeLoopWorker, CallCompletedFields, CallCompletedDigests
       DEF BatchOK, Shape, Call
  <2>3. CASE ~(j.status # "stopped" /\ Call \in j.calls) /\ j' = j /\ Raise("error")
    BY <2>0, <2>3, RaiseWorker, RaiseWorker
       DEF BatchOK, Shape, Call, PendingOK, CallPending, Asking, JournalOK
  <2> QED BY <1>20, <2>1, <2>2, <2>3 DEF CompleteCallFlat
<1>21. CASE ScheduleFlat
  BY <1>21, RaiseWorker, CheckpointWorker
     DEF ScheduleFlat, BatchOK, Shape, Call
<1>22. CASE PassNodeFlat
  BY <1>22, RaiseWorker, CheckpointWorker
     DEF PassNodeFlat, BatchOK, Shape, Call
<1>23. CASE ExecuteFlat
  <2>0. /\ job = "live" /\ w.pc = "node" /\ cp.node = "execute_probes"
        /\ UNCHANGED <<j, body, wf, cp, probe, job, api, changed, sent, blame, count>>
    BY <1>23 DEF ExecuteFlat
  <2>1. CASE j.status # "running" /\ Raise(IF j.status = "stopped" THEN "cancel" ELSE "pause")
    BY <2>0, <2>1, RaiseWorker
       DEF BatchOK, Shape, Call
  <2>2. CASE j.status = "running" /\ ToProbes
    BY <2>0, <2>2, ProbesWorker, SMTT(60)
       DEF BatchOK, Shape, Call
  <2> QED BY <1>23, <2>1, <2>2 DEF ExecuteFlat
<1>24. CASE NextProbeFlat
  BY <1>24, RaiseWorker, CheckpointWorker, ProbeWorker
     DEF NextProbeFlat, BatchOK, Shape, Call
<1>25. CASE AskModelFlat
  <2>0. /\ job = "live" /\ w.pc = "probes" /\ w.p <= cp.n
        /\ UNCHANGED <<j, body, wf, cp, job, api, changed, sent, blame, count>>
    BY <1>25 DEF AskModelFlat
  <2>1. CASE Call \in j.unsure /\ probe' = [probe EXCEPT ![Here] = "bad"] /\ ProbeLoop
    BY <2>0, <2>1, ProbeLoopWorker
       DEF BatchOK, Shape, Call
  <2>2. CASE /\ Done(Call) /\ j.dig[Call] # body[Call]
             /\ probe' = [probe EXCEPT ![Here] = "bad"] /\ ProbeLoop
    BY <2>0, <2>2, ProbeLoopWorker
       DEF BatchOK, Shape, Call
  <2>3. CASE /\ \E x \in {"tools", "end", "spent"} : probe' = [probe EXCEPT ![Here] = x]
             /\ ProbeLoop
    BY <2>0, <2>3, ProbeLoopWorker
       DEF BatchOK, Shape, Call
  <2>4. CASE /\ ~Done(Call) /\ Call \notin j.unsure /\ CanSend
             /\ Goto("start") /\ probe' = probe
    BY <2>0, <2>4, GotoWorker
       DEF BatchOK, Shape, Call, PlaceOK
  <2> QED BY <1>25, <2>1, <2>2, <2>3, <2>4 DEF AskModelFlat
<1>26. CASE UseToolFlat
  BY <1>26, GotoWorker, ProbeLoopWorker
     DEF UseToolFlat, BatchOK, Shape, Call
<1>27. CASE StartToolFlat
  BY <1>27, GotoWorker, RaiseWorker, ToolStartedFields
     DEF StartToolFlat, BatchOK, Shape, Call
<1>28. CASE RunToolFlat
  BY <1>28, ResultWorker
     DEF RunToolFlat, BatchOK, Shape, Call
<1>29. CASE FailToolFlat
  BY <1>29, RaiseWorker, ProbeLoopWorker, ToolFailedFields
     DEF FailToolFlat, BatchOK, Shape, Call
<1>30. CASE KeepResultFlat
  <2>1. /\ w.pc = "tkeep" /\ w'.pc = "prepare"
        /\ cp' = cp /\ j' = j /\ blame' = blame /\ body' = Put(body, Mine, w.val)
    BY <1>30, PrepareWorker DEF KeepResultFlat, Shape
  <2>2. \A r \in Rounds : Mine # Gen(r)
    BY DEF Mine, Tool, Gen
  <2>3. DOMAIN body' = DOMAIN body \cup {Mine}
    BY <2>1 DEF Put
  <2> QED BY <2>1, <2>2, <2>3 DEF BatchOK
<1>31. CASE PrepareReceiptFlat
  BY <1>31, GotoWorker, RaiseWorker, ReceiptPreparedFields
     DEF PrepareReceiptFlat, BatchOK, Shape, Call
<1>32. CASE CommitReceiptFlat
  BY <1>32, RaiseWorker, ProbeLoopWorker, ReceiptCommittedFields, ReceiptCommittedDigests
     DEF CommitReceiptFlat, BatchOK, Shape, Call
<1>33. CASE ReduceFlat
  BY <1>33, GotoWorker, RaiseWorker, CheckpointWorker, OutcomeWorker
     DEF ReduceFlat, BatchOK, Shape, Call
<1>34. CASE GateVerdictFlat
  <2>0. /\ job = "live" /\ w.pc = "gate"
        /\ UNCHANGED <<body, wf, cp, probe, job, api, changed, sent, blame, count>>
    BY <1>34 DEF GateVerdictFlat
  <2>1. CASE /\ j' = j \/ (j.status = "running" /\ j' = [j EXCEPT !.gated = @ \cup {cp.round}])
             /\ Goto("persist")
    BY <2>0, <2>1, GotoWorker, GatedFields
       DEF BatchOK, Shape, Call
  <2>2. CASE ~(j.status = "running" /\ NoPending /\ j.open) /\ j' = j /\ Raise("error")
    BY <2>0, <2>2, RaiseWorker
       DEF BatchOK, Shape, Call
  <2> QED BY <1>34, <2>1, <2>2 DEF GateVerdictFlat
<1>35. CASE PersistReductionFlat
  BY <1>35, OutcomeWorker
     DEF PersistReductionFlat, BatchOK, Shape, Call
<1>36. CASE KeepReductionFlat
  <2>1. /\ w.pc = "rkeep" /\ w'.pc \in {"reduce", "raised"}
        /\ cp' = cp /\ j' = j /\ blame' = blame
    BY <1>36, GotoWorker, RaiseWorker DEF KeepReductionFlat, Shape
  <2>2. \A r \in Rounds : Red(cp.round) # Gen(r)
    BY DEF Red, Gen
  <2>3. DOMAIN body' \subseteq DOMAIN body \cup {Red(cp.round)}
    BY <1>36 DEF KeepReductionFlat, Put
  <2> QED BY <2>1, <2>2, <2>3 DEF BatchOK
<1>37. CASE CommitReductionFlat
  <2>0. /\ job = "live" /\ w.pc = "reduce"
        /\ UNCHANGED <<body, wf, cp, probe, job, api, changed, sent, blame, count>>
    BY <1>37 DEF CommitReductionFlat
  <2>1. CASE /\ j.status = "running" /\ NoPending /\ j.open /\ j' = ReductionCommitted(w.val)
             /\ Checkpoint([cp EXCEPT !.node = "settle", !.red = w.val, !.before = Snapshot])
    BY <2>0, <2>1, CheckpointWorker, ReductionCommittedFields
       DEF BatchOK, Shape, Call
  <2>2. CASE ~(j.status = "running" /\ NoPending /\ j.open) /\ j' = j /\ Raise("error")
    BY <2>0, <2>2, RaiseWorker
       DEF BatchOK, Shape, Call
  <2> QED BY <1>37, <2>1, <2>2 DEF CommitReductionFlat
<1>38. CASE SettleFlat
  BY <1>38, GotoWorker, RaiseWorker, RoundSettledFields
     DEF SettleFlat, BatchOK, Shape, Call
<1>39. CASE AfterSettleFlat
  BY <1>39, RaiseWorker, CheckpointWorker
     DEF AfterSettleFlat, BatchOK, Shape, Call
<1>40. CASE SynthesizeFlat
  BY <1>40, RaiseWorker, StopWorker
     DEF SynthesizeFlat, BatchOK, Shape, Call
<1>41. CASE StopFlat
  <2>0. /\ job = "live" /\ w.pc = "stop"
        /\ UNCHANGED <<body, wf, cp, probe, api, changed, sent, count>>
    BY <1>41 DEF StopFlat
  <2>1. CASE /\ CanStop(w.reason) /\ j' = Stopped(w.reason, w.report)
             /\ ToFresh("ending") /\ UNCHANGED <<job, blame>>
    BY <2>0, <2>1, FreshWorker, StoppedFields
       DEF BatchOK, Shape, Call
  <2>2. CASE ~CanStop(w.reason) /\ w.exc = None /\ UNCHANGED <<j, job, blame>> /\ Raise("error")
    BY <2>0, <2>2, RaiseWorker
       DEF BatchOK, Shape, Call
  <2>3. CASE /\ ~CanStop(w.reason) /\ w.exc = "budget" /\ UNCHANGED <<j, job, blame>>
             /\ ToBare
    BY <2>0, <2>3, BareWorker
       DEF BatchOK, Shape, Call
  <2>4. CASE j' = j /\ w' = Off /\ job' = "failed" /\ blame' = blame \cup {"race"}
    BY <2>0, <2>4, OffWorker
       DEF BatchOK, Shape, Call
  <2> QED BY <1>41, <2>1, <2>2, <2>3, <2>4 DEF StopFlat
<1>42. CASE HandlePauseFlat
  BY <1>42, HandlePauseMoves
     DEF BatchOK, Shape, Call
<1>43. CASE HandleCancelFlat
  BY <1>43, FreshWorker
     DEF HandleCancelFlat, BatchOK, Shape, Call
<1>44. CASE HandleStopFlat
  BY <1>44, RaiseWorker, StopWorker
     DEF HandleStopFlat, BatchOK, Shape, Call
<1>45. CASE CrashFlat
  <2>1. /\ w'.pc = "off" /\ cp' = cp /\ j' = j /\ body' = body
        /\ blame' = blame \cup {"crash", Window}
    BY <1>45, OffWorker DEF CrashFlat
  <2>2. \A r \in Rounds : w.pc = "complete" /\ Call = Gen(r) => Window = "batch"
    BY DEF Call, Gen, Ask, Window
  <2> QED BY <2>1, <2>2 DEF BatchOK
<1>46. CASE PauseFlat
  BY <1>46, PauseMoves
     DEF BatchOK, Shape, Call
<1>47. CASE ResumeFlat
  <2>0. /\ j.status = "paused" /\ api = "idle"
        /\ UNCHANGED <<body, wf, cp, probe, w, job, changed, sent, blame, count>>
    BY <1>47 DEF ResumeFlat
  <2>1. CASE changed /\ j' = Stopped("state_witness_changed", FALSE) /\ api' = api
    BY <2>0, <2>1, StoppedFields, ZenonT(60)
       DEF BatchOK, Shape, Call
  <2>2. CASE /\ job \notin {"queued", "live"} /\ j' = [j EXCEPT !.status = "running"]
             /\ api' = "launching"
    BY <2>0, <2>2, StatusFields
       DEF BatchOK, Shape, Call
  <2> QED BY <1>47, <2>1, <2>2 DEF ResumeFlat
<1>48. CASE LaunchFlat
  <2>0. /\ api = "launching"
        /\ api' = "idle"
        /\ UNCHANGED <<body, wf, cp, probe, w, changed, sent>>
    BY <1>48 DEF LaunchFlat
  <2>1. CASE job' = "queued" /\ UNCHANGED <<j, blame, count>>
    BY <2>0, <2>1
       DEF BatchOK, Shape, Call
  <2>2. CASE /\ j.status = "stopped" /\ j' = j
             /\ blame' = blame \cup {"launch"} /\ UNCHANGED <<job, count>>
    BY <2>0, <2>2
       DEF BatchOK, Shape, Call
  <2>3. CASE /\ j.status # "stopped" /\ j' = Stopped("failed", FALSE)
             /\ blame' = blame \cup {"launch"} /\ UNCHANGED <<job, count>>
    BY <2>0, <2>3, StoppedFields, ZenonT(60)
       DEF BatchOK, Shape, Call
  <2>4. CASE /\ Room /\ count' = [count EXCEPT !.crashes = @ + 1]
             /\ blame' = blame \cup {"api"} /\ UNCHANGED <<j, job>>
    BY <2>0, <2>4
       DEF BatchOK, Shape, Call
  <2> QED BY <1>48, <2>1, <2>2, <2>3, <2>4 DEF LaunchFlat
<1>49. CASE CancelFlat
  BY <1>49, CancelMoves
     DEF BatchOK, Shape, Call
<1>50. CASE CancelJobFlat
  BY <1>50, OffWorker
     DEF CancelJobFlat, BatchOK, Shape, Call, JournalOK
<1>51. CASE ExtendBudgetFlat
  BY <1>51, ExtendBudgetMoves
     DEF BatchOK, Shape, Call
<1>52. CASE UNCHANGED <<j, w, body, cp, blame>>
  BY <1>52 DEF BatchOK, Shape, Call
<1>53. QED
  BY NextIsFlat, <1>1, <1>2, <1>3, <1>4, <1>5, <1>6, <1>7, <1>8, <1>9, <1>10, <1>11, <1>12,
         <1>13, <1>14, <1>15, <1>16, <1>17, <1>18, <1>19, <1>20, <1>21, <1>22, <1>23, <1>24,
         <1>25, <1>26, <1>27, <1>28, <1>29, <1>30, <1>31, <1>32, <1>33, <1>34, <1>35, <1>36,
         <1>37, <1>38, <1>39, <1>40, <1>41, <1>42, <1>43, <1>44, <1>45, <1>46, <1>47, <1>48,
         <1>49, <1>50, <1>51, <1>52
     DEF NextFlat, vars, RerunFlat, ChangeDataFlat

-----------------------------------------------------------------------------
(* The decision, and the end of an attempt *)

\* The end of the run is as far as it was.
EndStays ==
    /\ j'.status = j.status /\ j'.reason = j.reason /\ j'.report = j.report
    /\ j'.term = j.term /\ j'.settled = j.settled /\ j'.open = j.open

\* Settling a call leaves the end of the run alone.
LEMMA SettlingKeepsEnd ==
    ASSUME DOMAIN j = JFields, NEW c, CallSettles(c)
    PROVE  EndStays
<1>1. CASE \E d : j' = CallCompleted(c, d)
  BY <1>1, CallCompletedFields DEF EndStays
<1>2. CASE j' = CallRejected(c)
  BY <1>2, CallRejectedFields DEF EndStays
<1>3. CASE j' = CallUncertain(c)
  BY <1>3, CallUncertainFields DEF EndStays
<1> QED BY <1>1, <1>2, <1>3 DEF CallSettles

\* So does a move of a tool slot.
LEMMA SlotsKeepEnd ==
    ASSUME DOMAIN j = JFields, NEW t, SlotMoves(t)
    PROVE  EndStays
<1>1. CASE \E d : j' = ReceiptCommitted(t, d)
  BY <1>1, ReceiptCommittedFields DEF EndStays
<1>2. CASE j' = ReceiptPrepared(t)
  BY <1>2, ReceiptPreparedFields DEF EndStays
<1>3. CASE j' = ToolFailed(t)
  BY <1>3, ToolFailedFields DEF EndStays
<1> QED BY <1>1, <1>2, <1>3 DEF SlotMoves

\* The decision of the last settled round and the checkpoint agree.
LEMMA DecidedStep ==
    ASSUME Shape, JournalOK, CountOK, CkptOK(cp), PlaceOK, NextOK, PendingOK, DecidedOK,
           [Next]_vars
    PROVE  DecidedOK'
<1>0. cp' = cp => Decision' = Decision
  BY DEF Decision, DecisionOn
<1>1. CASE ClaimFlat
  BY <1>1, FreshWorker, <1>0
     DEF ClaimFlat, DecidedOK, Shape
<1>2. CASE VerifyFlat
  BY <1>2, GotoWorker, OffWorker, RecoverWorker, <1>0
     DEF VerifyFlat, DecidedOK, Shape
<1>3. CASE RecoverCallFlat
  <2>1. cp' = cp /\ w'.pc \in {"off", "recover"}
    BY <1>3, OffWorker, SettleRestWorker DEF RecoverCallFlat, Shape
  <2>2. EndStays
    BY <1>3, SettlingKeepsEnd DEF RecoverCallFlat, CallSettles, EndStays, Shape
  <2> QED BY <1>0, <2>1, <2>2 DEF DecidedOK, EndStays
<1>4. CASE RecoverToolFlat
  <2>1. cp' = cp /\ w'.pc \in {"off", "recover"}
    BY <1>4, OffWorker, SettleRestWorker DEF RecoverToolFlat, Shape
  <2>2. EndStays
    BY <1>4, SlotsKeepEnd DEF RecoverToolFlat, SlotMoves, EndStays, Shape
  <2> QED BY <1>0, <2>1, <2>2 DEF DecidedOK, EndStays
<1>5. CASE RecoveredFlat
  BY <1>5, EnterWorker, <1>0
     DEF RecoveredFlat, DecidedOK, Shape
<1>6. CASE EnterFlat
  <2>0. /\ job = "live" /\ w.pc = "enter"
        /\ UNCHANGED <<body, wf, cp, probe, job, api, changed, sent, blame, count>>
    BY <1>6 DEF EnterFlat
  <2>1. CASE /\ j.status = "pause_requested" /\ j' = [j EXCEPT !.status = "paused"]
             /\ ToFresh("ending")
    BY <2>0, <2>1, FreshWorker, StatusFields, <1>0
       DEF DecidedOK, Shape
  <2>2. CASE j.status \in {"stopped", "paused"} /\ j' = j /\ ToFresh("ending")
    BY <2>0, <2>2, FreshWorker, <1>0
       DEF DecidedOK, Shape
  <2>3. CASE /\ j.status = "running" /\ j' = Stopped("state_witness_changed", FALSE)
             /\ ToFresh("ending")
    <3>1. w'.pc = "ending"
      BY <2>3, FreshWorker
    <3>2. /\ j'.status = "stopped" /\ j'.term = None
          /\ j'.settled = j.settled /\ j'.open = j.open
      BY <2>3, StoppedFields DEF Shape
    <3> QED BY <1>0, <2>0, <3>1, <3>2 DEF DecidedOK
  <2>4. CASE j.status \notin {"pause_requested", "stopped", "paused"} /\ j' = j /\ Goto("node")
    BY <2>0, <2>4, GotoWorker, <1>0
       DEF DecidedOK, Shape
  <2> QED BY <1>6, <2>1, <2>2, <2>3, <2>4 DEF EnterFlat
<1>7. CASE WriteCheckpointFlat
  <2>1. cp' = w.out /\ j' = j /\ w.pc = "ckpt" /\ w'.pc = "node"
    BY <1>7, NodeWorker DEF WriteCheckpointFlat, Shape
  <2>2. w.out.node = "settle" => w.out.round = j.settled /\ j.term = None
    BY <2>1 DEF NextOK, CkptOK, CkptFits, JournalOK, DecidedOK
  <2>3. j.settled \in Nat
    BY DEF JournalOK
  <2>4. w.out.node = "synthesize" /\ j.status # "stopped" => w.out.reason = j.term
    BY <2>1 DEF DecidedOK
  <2>5. w.out.node \notin {"settle", "synthesize"} => j.term = None
    BY <2>1 DEF DecidedOK
  <2>6. w.out.node = "synthesize" => w.out.reason \in Natural
    BY <2>1 DEF DecidedOK
  <2>7. j.status = "stopped" => j.term = None
    BY DEF JournalOK
  <2> QED BY <2>1, <2>2, <2>3, <2>4, <2>5, <2>6, <2>7 DEF DecidedOK
<1>8. CASE EndAttemptFlat
  BY <1>8, OffWorker, <1>0
     DEF EndAttemptFlat, DecidedOK, Shape
<1>9. CASE OrientFlat
  <2>0. /\ job = "live" /\ w.pc = "node" /\ cp.node = "orient"
        /\ UNCHANGED <<j, body, wf, cp, probe, job, api, changed, sent, blame, count>>
    BY <1>9 DEF OrientFlat
  <2>1. CASE j.status # "running" /\ Raise(IF j.status = "stopped" THEN "cancel" ELSE "pause")
    BY <2>0, <2>1, RaiseWorker, <1>0
       DEF DecidedOK, Shape
  <2>2. CASE j.status = "running" /\ Raise("budget")
    BY <2>0, <2>2, RaiseWorker, <1>0
       DEF DecidedOK, Shape
  <2>3. CASE j.status = "running" /\ changed /\ Raise("witness")
    BY <2>0, <2>3, RaiseWorker, <1>0
       DEF DecidedOK, Shape
  <2>4. CASE /\ j.status = "running" /\ j.open
             /\ Checkpoint([cp EXCEPT !.node = "generate", !.round = j.settled])
    <3>1. PICK c : c = [cp EXCEPT !.node = "generate", !.round = j.settled]
      OBVIOUS
    <3>2. w'.pc = "ckpt" /\ w'.out = c /\ cp' = cp
      BY <2>0, <2>4, <3>1, CheckpointWorker DEF Shape
    <3>3. c.node = "generate"
      BY <3>1 DEF Shape, CFields
    <3>4. j' = j
      BY <2>0, <2>4
    <3>5. j.term = None
      BY <2>0, <2>4 DEF DecidedOK, PlaceOK, Asking, Tooling, Reducing
    <3> QED BY <1>0, <2>0, <3>2, <3>3, <3>4, <3>5 DEF DecidedOK
  <2>5. CASE j.status = "running" /\ ~j.open /\ ~(j.rounds <= 0) /\ Goto("open")
    BY <2>0, <2>5, GotoWorker, <1>0
       DEF DecidedOK, Shape
  <2> QED BY <1>9, <2>1, <2>2, <2>3, <2>4, <2>5 DEF OrientFlat
<1>10. CASE OpenRoundFlat
  <2>0. /\ job = "live" /\ w.pc = "open"
        /\ UNCHANGED <<body, wf, cp, probe, job, api, changed, sent, blame, count>>
    BY <1>10 DEF OpenRoundFlat
  <2>1. CASE /\ CanStartRound /\ j' = RoundStarted
             /\ Checkpoint([cp EXCEPT !.node = "generate", !.round = j.settled])
    <3>1. PICK c : c = [cp EXCEPT !.node = "generate", !.round = j.settled]
      OBVIOUS
    <3>2. w'.pc = "ckpt" /\ w'.out = c /\ cp' = cp
      BY <2>0, <2>1, <3>1, CheckpointWorker DEF Shape
    <3>3. c.node = "generate"
      BY <3>1 DEF Shape, CFields
    <3>4. j'.status = j.status /\ j'.term = j.term /\ j'.settled = j.settled /\ (j.open => j'.open)
      BY <2>1, RoundStartedFields DEF Shape
    <3>5. j.term = None
      BY <2>0, <2>1 DEF DecidedOK, PlaceOK, Asking, Tooling, Reducing
    <3> QED BY <1>0, <2>0, <3>2, <3>3, <3>4, <3>5 DEF DecidedOK
  <2>2. CASE ~(j.status # "stopped" /\ CanStartRound) /\ j' = j /\ Raise("error")
    BY <2>0, <2>2, RaiseWorker, <1>0
       DEF DecidedOK, Shape
  <2> QED BY <1>10, <2>1, <2>2 DEF OpenRoundFlat
<1>11. CASE GenerateFlat
  <2>0. /\ job = "live" /\ w.pc = "node" /\ cp.node = "generate"
        /\ UNCHANGED <<j, body, wf, cp, probe, job, api, changed, sent, blame, count>>
    BY <1>11 DEF GenerateFlat
  <2>1. CASE j.status # "running" /\ Raise(IF j.status = "stopped" THEN "cancel" ELSE "pause")
    BY <2>0, <2>1, RaiseWorker, <1>0
       DEF DecidedOK, Shape
  <2>2. CASE /\ j.status = "running" /\ Done(Call) /\ j.dig[Call] = body[Call]
             /\ Checkpoint([cp EXCEPT !.node = "schedule"])
    <3>1. PICK c : c = [cp EXCEPT !.node = "schedule"]
      OBVIOUS
    <3>2. w'.pc = "ckpt" /\ w'.out = c /\ cp' = cp
      BY <2>0, <2>2, <3>1, CheckpointWorker DEF Shape
    <3>3. c.node = "schedule"
      BY <3>1 DEF Shape, CFields
    <3>4. j' = j
      BY <2>0, <2>2
    <3>5. j.term = None
      BY <2>0, <2>2 DEF DecidedOK, PlaceOK, Asking, Tooling, Reducing
    <3> QED BY <1>0, <2>0, <3>2, <3>3, <3>4, <3>5 DEF DecidedOK
  <2>3. CASE j.status = "running" /\ Done(Call) /\ j.dig[Call] # body[Call] /\ Raise("error")
    BY <2>0, <2>3, RaiseWorker, <1>0
       DEF DecidedOK, Shape
  <2>4. CASE j.status = "running" /\ ~Done(Call) /\ Call \in j.unsure /\ Raise("error")
    BY <2>0, <2>4, RaiseWorker, <1>0
       DEF DecidedOK, Shape
  <2>5. CASE j.status = "running" /\ Raise("budget")
    BY <2>0, <2>5, RaiseWorker, <1>0
       DEF DecidedOK, Shape
  <2>6. CASE /\ j.status = "running" /\ ~Done(Call) /\ Call \notin j.unsure /\ CanSend
             /\ ToStart(1)
    BY <2>0, <2>6, StartWorker, <1>0
       DEF DecidedOK, Shape
  <2> QED BY <1>11, <2>1, <2>2, <2>3, <2>4, <2>5, <2>6 DEF GenerateFlat
<1>12. CASE StartCallFlat
  <2>0. /\ job = "live" /\ w.pc = "start"
        /\ UNCHANGED <<body, wf, cp, probe, job, api, changed, sent, blame, count>>
    BY <1>12 DEF StartCallFlat
  <2>1. CASE CanStartCall(Call) /\ j' = CallStarted(Call) /\ Goto("send")
    BY <2>0, <2>1, GotoWorker, CallStartedFields, <1>0
       DEF DecidedOK, Shape
  <2>2. CASE ~(j.status # "stopped" /\ CanStartCall(Call)) /\ j' = j /\ Raise("error")
    BY <2>0, <2>2, RaiseWorker, <1>0
       DEF DecidedOK, Shape
  <2> QED BY <1>12, <2>1, <2>2 DEF StartCallFlat
<1>13. CASE SendFlat
  BY <1>13, GotoWorker, <1>0
     DEF SendFlat, DecidedOK, Shape
<1>14. CASE SendRefusedFlat
  BY <1>14, RaiseWorker, ProbeLoopWorker, CallRejectedFields, <1>0
     DEF SendRefusedFlat, DecidedOK, Shape
<1>15. CASE AnsweredFlat
  BY <1>15, KeepWorker, <1>0
     DEF AnsweredFlat, DecidedOK, Shape
<1>16. CASE AnswerUnknownFlat
  <2>0. /\ job = "live" /\ w.pc = "answer"
        /\ blame' = blame \cup {"provider"}
        /\ UNCHANGED <<body, wf, cp, job, api, changed, sent, count>>
    BY <1>16 DEF AnswerUnknownFlat
  <2>1. CASE j.status = "stopped" /\ Raise("error") /\ UNCHANGED <<j, probe>>
    BY <2>0, <2>1, RaiseWorker, <1>0
       DEF DecidedOK, Shape
  <2>2. CASE /\ j.status # "stopped" /\ j' = CallUncertain(Call) /\ cp.node = "generate"
             /\ Raise("error") /\ probe' = probe
    BY <2>0, <2>2, RaiseWorker, CallUncertainFields, <1>0
       DEF DecidedOK, Shape
  <2>3. CASE /\ j.status # "stopped" /\ j' = CallUncertain(Call) /\ cp.node # "generate"
             /\ probe' = [probe EXCEPT ![Here] = "bad"] /\ ProbeLoop
    BY <2>0, <2>3, ProbeLoopWorker, CallUncertainFields, <1>0
       DEF DecidedOK, Shape
  <2> QED BY <1>16, <2>1, <2>2, <2>3 DEF AnswerUnknownFlat
<1>17. CASE AnswerMalformedFlat
  <2>0. /\ job = "live" /\ w.pc = "answer"
        /\ sent' = [sent EXCEPT ![Call] = 0]
        /\ UNCHANGED <<body, wf, cp, job, api, changed, blame, count>>
    BY <1>17 DEF AnswerMalformedFlat
  <2>1. CASE j.status = "stopped" /\ Raise("error") /\ UNCHANGED <<j, probe>>
    BY <2>0, <2>1, RaiseWorker, <1>0
       DEF DecidedOK, Shape
  <2>2. CASE /\ j.status # "stopped" /\ j' = CallRejected(Call) /\ cp.node = "generate"
             /\ ToStart(2) /\ probe' = probe
    BY <2>0, <2>2, StartWorker, CallRejectedFields, <1>0
       DEF DecidedOK, Shape
  <2>3. CASE /\ j.status # "stopped" /\ j' = CallRejected(Call) /\ cp.node # "generate"
             /\ probe' = [probe EXCEPT ![Here] = "end"] /\ ProbeLoop
    BY <2>0, <2>3, ProbeLoopWorker, CallRejectedFields, <1>0
       DEF DecidedOK, Shape
  <2> QED BY <1>17, <2>1, <2>2, <2>3 DEF AnswerMalformedFlat
<1>18. CASE AnswerUnavailableFlat
  <2>0. /\ job = "live" /\ w.pc = "answer"
        /\ sent' = [sent EXCEPT ![Call] = 0]
        /\ blame' = blame \cup {"provider"}
        /\ UNCHANGED <<body, wf, cp, job, api, changed, count>>
    BY <1>18 DEF AnswerUnavailableFlat
  <2>1. CASE j.status = "stopped" /\ Raise("error") /\ UNCHANGED <<j, probe>>
    BY <2>0, <2>1, RaiseWorker, <1>0
       DEF DecidedOK, Shape
  <2>2. CASE /\ j.status # "stopped" /\ j' = CallRejected(Call) /\ cp.node = "generate"
             /\ Raise("error") /\ probe' = probe
    BY <2>0, <2>2, RaiseWorker, CallRejectedFields, <1>0
       DEF DecidedOK, Shape
  <2>3. CASE /\ j.status # "stopped" /\ j' = CallRejected(Call) /\ cp.node # "generate"
             /\ probe' = [probe EXCEPT ![Here] = "end"] /\ ProbeLoop
    BY <2>0, <2>3, ProbeLoopWorker, CallRejectedFields, <1>0
       DEF DecidedOK, Shape
  <2> QED BY <1>18, <2>1, <2>2, <2>3 DEF AnswerUnavailableFlat
<1>19. CASE KeepAnswerFlat
  BY <1>19, GotoWorker, <1>0
     DEF KeepAnswerFlat, DecidedOK, Shape
<1>20. CASE CompleteCallFlat
  <2>0. /\ job = "live" /\ w.pc = "complete"
        /\ UNCHANGED <<body, wf, cp, probe, job, api, changed, sent, blame, count>>
    BY <1>20 DEF CompleteCallFlat
  <2>1. CASE /\ j.status # "stopped" /\ Call \in j.calls
             /\ j' = CallCompleted(Call, w.val) /\ cp.node = "generate"
             /\ Checkpoint([cp EXCEPT !.node = "schedule"])
    <3>1. PICK c : c = [cp EXCEPT !.node = "schedule"]
      OBVIOUS
    <3>2. w'.pc = "ckpt" /\ w'.out = c /\ cp' = cp
      BY <2>0, <2>1, <3>1, CheckpointWorker DEF Shape
    <3>3. c.node = "schedule"
      BY <3>1 DEF Shape, CFields
    <3>4. j'.status = j.status /\ j'.term = j.term /\ j'.settled = j.settled /\ (j.open => j'.open)
      BY <2>1, CallCompletedFields DEF Shape
    <3>5. j.term = None
      BY <2>0, <2>1 DEF DecidedOK, PlaceOK, Asking, Tooling, Reducing
    <3> QED BY <1>0, <2>0, <3>2, <3>3, <3>4, <3>5 DEF DecidedOK
  <2>2. CASE /\ j.status # "stopped" /\ Call \in j.calls
             /\ j' = CallCompleted(Call, w.val) /\ cp.node # "generate" /\ ProbeLoop
    BY <2>0, <2>2, ProbeLoopWorker, CallCompletedFields, <1>0
       DEF DecidedOK, Shape
  <2>3. CASE ~(j.status # "stopped" /\ Call \in j.calls) /\ j' = j /\ Raise("error")
    BY <2>0, <2>3, RaiseWorker, <1>0
       DEF DecidedOK, Shape
  <2> QED BY <1>20, <2>1, <2>2, <2>3 DEF CompleteCallFlat
<1>21. CASE ScheduleFlat
  <2>0. /\ job = "live" /\ w.pc = "node" /\ cp.node = "schedule"
        /\ UNCHANGED <<j, body, cp, probe, job, api, changed, sent, blame, count>>
    BY <1>21 DEF ScheduleFlat
  <2>1. CASE /\ j.status # "running" /\ wf' = wf
             /\ Raise(IF j.status = "stopped" THEN "cancel" ELSE "pause")
    BY <2>0, <2>1, RaiseWorker, <1>0
       DEF DecidedOK, Shape
  <2>2. CASE j.status = "running" /\ cp.round \in wf.sched /\ wf' = wf /\ Raise("error")
    BY <2>0, <2>2, RaiseWorker, <1>0
       DEF DecidedOK, Shape
  <2>3. CASE /\ j.status = "running"
             /\ wf' = wf \/ wf' = [wf EXCEPT !.sched = @ \cup {cp.round}]
             /\ Checkpoint([cp EXCEPT !.node = IF body[Gen(cp.round)] > 0 THEN "select" ELSE "reduce",
                                      !.n = body[Gen(cp.round)]])
    <3>1. PICK c : c = [cp EXCEPT !.node = IF body[Gen(cp.round)] > 0 THEN "select" ELSE "reduce", !.n = body[Gen(cp.round)]]
      OBVIOUS
    <3>2. w'.pc = "ckpt" /\ w'.out = c /\ cp' = cp
      BY <2>0, <2>3, <3>1, CheckpointWorker DEF Shape
    <3>3. c.node \notin {"settle", "synthesize"}
      BY <3>1 DEF Shape, CFields
    <3>4. j' = j
      BY <2>0, <2>3
    <3>5. j.term = None
      BY <2>0, <2>3 DEF DecidedOK, PlaceOK, Asking, Tooling, Reducing
    <3> QED BY <1>0, <2>0, <3>2, <3>3, <3>4, <3>5 DEF DecidedOK
  <2> QED BY <1>21, <2>1, <2>2, <2>3 DEF ScheduleFlat
<1>22. CASE PassNodeFlat
  <2>0. /\ job = "live" /\ w.pc = "node" /\ cp.node \in {"select", "validate"}
        /\ UNCHANGED <<j, body, wf, cp, probe, job, api, changed, sent, blame, count>>
    BY <1>22 DEF PassNodeFlat
  <2>1. CASE j.status # "running" /\ Raise(IF j.status = "stopped" THEN "cancel" ELSE "pause")
    BY <2>0, <2>1, RaiseWorker, <1>0
       DEF DecidedOK, Shape
  <2>2. CASE /\ j.status = "running"
             /\ Checkpoint([cp EXCEPT !.node = IF cp.node = "select"
                                               THEN "execute_probes" ELSE "reduce"])
    <3>1. PICK c : c = [cp EXCEPT !.node = IF cp.node = "select" THEN "execute_probes" ELSE "reduce"]
      OBVIOUS
    <3>2. w'.pc = "ckpt" /\ w'.out = c /\ cp' = cp
      BY <2>0, <2>2, <3>1, CheckpointWorker DEF Shape
    <3>3. c.node \notin {"settle", "synthesize"}
      BY <3>1 DEF Shape, CFields
    <3>4. j' = j
      BY <2>0, <2>2
    <3>5. j.term = None
      BY <2>0, <2>2 DEF DecidedOK, PlaceOK, Asking, Tooling, Reducing
    <3> QED BY <1>0, <2>0, <3>2, <3>3, <3>4, <3>5 DEF DecidedOK
  <2> QED BY <1>22, <2>1, <2>2 DEF PassNodeFlat
<1>23. CASE ExecuteFlat
  <2>0. /\ job = "live" /\ w.pc = "node" /\ cp.node = "execute_probes"
        /\ UNCHANGED <<j, body, wf, cp, probe, job, api, changed, sent, blame, count>>
    BY <1>23 DEF ExecuteFlat
  <2>1. CASE j.status # "running" /\ Raise(IF j.status = "stopped" THEN "cancel" ELSE "pause")
    BY <2>0, <2>1, RaiseWorker, <1>0
       DEF DecidedOK, Shape
  <2>2. CASE j.status = "running" /\ ToProbes
    BY <2>0, <2>2, ProbesWorker, <1>0
       DEF DecidedOK, Shape
  <2> QED BY <1>23, <2>1, <2>2 DEF ExecuteFlat
<1>24. CASE NextProbeFlat
  <2>0. /\ job = "live" /\ w.pc = "probes"
        /\ UNCHANGED <<j, body, wf, cp, probe, job, api, changed, sent, blame, count>>
    BY <1>24 DEF NextProbeFlat
  <2>1. CASE \E spent : Checkpoint([cp EXCEPT !.node = "validate", !.spent = spent])
    <3>0. PICK s : Checkpoint([cp EXCEPT !.node = "validate", !.spent = s])
      BY <2>1
    <3>1. PICK c : c = [cp EXCEPT !.node = "validate", !.spent = s]
      OBVIOUS
    <3>2. w'.pc = "ckpt" /\ w'.out = c /\ cp' = cp
      BY <2>0, <3>0, <3>1, CheckpointWorker DEF Shape
    <3>3. c.node = "validate"
      BY <3>1 DEF Shape, CFields
    <3>4. j' = j
      BY <2>0, <2>1
    <3>5. j.term = None
      BY <2>0, <2>1 DEF DecidedOK, PlaceOK, Asking, Tooling, Reducing
    <3> QED BY <1>0, <2>0, <3>2, <3>3, <3>4, <3>5 DEF DecidedOK
  <2>2. CASE ~(w.p > cp.n) /\ probe[Here] = "bad" /\ Raise("error")
    BY <2>0, <2>2, RaiseWorker, <1>0
       DEF DecidedOK, Shape
  <2>3. CASE ~(w.p > cp.n) /\ ToProbe(w.p + 1)
    BY <2>0, <2>3, ProbeWorker, <1>0
       DEF DecidedOK, Shape
  <2> QED BY <1>24, <2>1, <2>2, <2>3 DEF NextProbeFlat
<1>25. CASE AskModelFlat
  BY <1>25, GotoWorker, ProbeLoopWorker, <1>0
     DEF AskModelFlat, DecidedOK, Shape
<1>26. CASE UseToolFlat
  <2>0. /\ job = "live" /\ w.pc = "probes" /\ w.p <= cp.n
        /\ UNCHANGED <<j, body, wf, cp, job, api, changed, sent, blame, count>>
    BY <1>26 DEF UseToolFlat
  <2>1. CASE Done(Mine) /\ Mine \notin DOMAIN body /\ probe' = [probe EXCEPT ![Here] = "bad"] /\ ProbeLoop
    BY <2>0, <2>1, ProbeLoopWorker, <1>0
       DEF DecidedOK, Shape
  <2>2. CASE /\ \E x \in {"end", "spent"} : probe' = [probe EXCEPT ![Here] = x]
             /\ ProbeLoop
    BY <2>0, <2>2, ProbeLoopWorker, <1>0
       DEF DecidedOK, Shape
  <2>3. CASE ~Done(Mine) /\ ~(w.led <= 0) /\ Goto("tstart") /\ probe' = probe
    BY <2>0, <2>3, GotoWorker, <1>0
       DEF DecidedOK, Shape
  <2> QED BY <1>26, <2>1, <2>2, <2>3 DEF UseToolFlat
<1>27. CASE StartToolFlat
  BY <1>27, GotoWorker, RaiseWorker, ToolStartedFields, <1>0
     DEF StartToolFlat, DecidedOK, Shape
<1>28. CASE RunToolFlat
  BY <1>28, ResultWorker, <1>0
     DEF RunToolFlat, DecidedOK, Shape
<1>29. CASE FailToolFlat
  <2>0. /\ job = "live" /\ w.pc = "run"
        /\ UNCHANGED <<body, wf, cp, job, api, changed, sent, blame, count>>
    BY <1>29 DEF FailToolFlat
  <2>1. CASE j.status = "stopped" /\ Raise("error") /\ UNCHANGED <<j, probe>>
    BY <2>0, <2>1, RaiseWorker, <1>0
       DEF DecidedOK, Shape
  <2>2. CASE /\ j.status # "stopped" /\ j' = ToolFailed(Mine)
             /\ probe' = [probe EXCEPT ![Here] = "end"] /\ ProbeLoop
    BY <2>0, <2>2, ProbeLoopWorker, ToolFailedFields, <1>0
       DEF DecidedOK, Shape
  <2> QED BY <1>29, <2>1, <2>2 DEF FailToolFlat
<1>30. CASE KeepResultFlat
  BY <1>30, PrepareWorker, <1>0
     DEF KeepResultFlat, DecidedOK, Shape
<1>31. CASE PrepareReceiptFlat
  <2>0. /\ job = "live" /\ w.pc = "prepare"
        /\ UNCHANGED <<body, wf, cp, probe, job, api, changed, sent, blame, count>>
    BY <1>31 DEF PrepareReceiptFlat
  <2>1. CASE /\ j.status # "stopped" /\ Mine \in j.slots
             /\ j' = ReceiptPrepared(Mine) /\ Goto("commit")
    BY <2>0, <2>1, GotoWorker, ReceiptPreparedFields, <1>0
       DEF DecidedOK, Shape
  <2>2. CASE ~(j.status # "stopped" /\ Mine \in j.slots) /\ j' = j /\ Raise("error")
    BY <2>0, <2>2, RaiseWorker, <1>0
       DEF DecidedOK, Shape
  <2> QED BY <1>31, <2>1, <2>2 DEF PrepareReceiptFlat
<1>32. CASE CommitReceiptFlat
  BY <1>32, RaiseWorker, ProbeLoopWorker, ReceiptCommittedFields, <1>0
     DEF CommitReceiptFlat, DecidedOK, Shape
<1>33. CASE ReduceFlat
  <2>0. /\ job = "live" /\ w.pc = "node" /\ cp.node = "reduce"
        /\ UNCHANGED <<j, body, wf, cp, probe, job, api, changed, sent, blame, count>>
    BY <1>33 DEF ReduceFlat
  <2>1. CASE j.status # "running" /\ Raise(IF j.status = "stopped" THEN "cancel" ELSE "pause")
    BY <2>0, <2>1, RaiseWorker, <1>0
       DEF DecidedOK, Shape
  <2>2. CASE /\ j.status = "running" /\ j.committed /\ j.redn = body[Red(cp.round)]
             /\ Checkpoint([cp EXCEPT !.node = "settle", !.red = j.redn, !.before = Snapshot])
    <3>1. PICK c : c = [cp EXCEPT !.node = "settle", !.red = j.redn, !.before = Snapshot]
      OBVIOUS
    <3>2. w'.pc = "ckpt" /\ w'.out = c /\ cp' = cp
      BY <2>0, <2>2, <3>1, CheckpointWorker DEF Shape
    <3>3. c.node = "settle"
      BY <3>1 DEF Shape, CFields
    <3>4. j' = j
      BY <2>0, <2>2
    <3>5. j.term = None /\ j.open
      BY <2>0, <2>2 DEF DecidedOK, PlaceOK, Asking, Tooling, Reducing, CkptOK, CkptFits, InRound
    <3> QED BY <1>0, <2>0, <3>2, <3>3, <3>4, <3>5 DEF DecidedOK
  <2>3. CASE /\ j.status = "running" /\ j.committed /\ j.redn # body[Red(cp.round)]
             /\ Raise("error")
    BY <2>0, <2>3, RaiseWorker, <1>0
       DEF DecidedOK, Shape
  <2>4. CASE j.status = "running" /\ ~j.committed /\ Goto("gate")
    BY <2>0, <2>4, GotoWorker, <1>0
       DEF DecidedOK, Shape
  <2>5. CASE /\ j.status = "running" /\ ~j.committed
             /\ ToOutcome([v |-> "dry", fresh |-> TRUE])
    BY <2>0, <2>5, OutcomeWorker, <1>0
       DEF DecidedOK, Shape
  <2> QED BY <1>33, <2>1, <2>2, <2>3, <2>4, <2>5 DEF ReduceFlat
<1>34. CASE GateVerdictFlat
  <2>0. /\ job = "live" /\ w.pc = "gate"
        /\ UNCHANGED <<body, wf, cp, probe, job, api, changed, sent, blame, count>>
    BY <1>34 DEF GateVerdictFlat
  <2>1. CASE /\ j' = j \/ (j.status = "running" /\ j' = [j EXCEPT !.gated = @ \cup {cp.round}])
             /\ Goto("persist")
    BY <2>0, <2>1, GotoWorker, GatedFields, <1>0, SMTT(60)
       DEF DecidedOK, Shape
  <2>2. CASE ~(j.status = "running" /\ NoPending /\ j.open) /\ j' = j /\ Raise("error")
    BY <2>0, <2>2, RaiseWorker, <1>0
       DEF DecidedOK, Shape
  <2> QED BY <1>34, <2>1, <2>2 DEF GateVerdictFlat
<1>35. CASE PersistReductionFlat
  BY <1>35, OutcomeWorker, <1>0
     DEF PersistReductionFlat, DecidedOK, Shape
<1>36. CASE KeepReductionFlat
  BY <1>36, GotoWorker, RaiseWorker, <1>0
     DEF KeepReductionFlat, DecidedOK, Shape
<1>37. CASE CommitReductionFlat
  <2>0. /\ job = "live" /\ w.pc = "reduce"
        /\ UNCHANGED <<body, wf, cp, probe, job, api, changed, sent, blame, count>>
    BY <1>37 DEF CommitReductionFlat
  <2>1. CASE /\ j.status = "running" /\ NoPending /\ j.open /\ j' = ReductionCommitted(w.val)
             /\ Checkpoint([cp EXCEPT !.node = "settle", !.red = w.val, !.before = Snapshot])
    <3>1. PICK c : c = [cp EXCEPT !.node = "settle", !.red = w.val, !.before = Snapshot]
      OBVIOUS
    <3>2. w'.pc = "ckpt" /\ w'.out = c /\ cp' = cp
      BY <2>0, <2>1, <3>1, CheckpointWorker DEF Shape
    <3>3. c.node = "settle"
      BY <3>1 DEF Shape, CFields
    <3>4. j'.status = j.status /\ j'.term = j.term /\ j'.settled = j.settled /\ (j.open => j'.open)
      BY <2>1, ReductionCommittedFields DEF Shape
    <3>5. j.term = None /\ j.open
      BY <2>0, <2>1 DEF DecidedOK, PlaceOK, Asking, Tooling, Reducing, CkptOK, CkptFits, InRound
    <3> QED BY <1>0, <2>0, <3>2, <3>3, <3>4, <3>5 DEF DecidedOK
  <2>2. CASE ~(j.status = "running" /\ NoPending /\ j.open) /\ j' = j /\ Raise("error")
    BY <2>0, <2>2, RaiseWorker, <1>0
       DEF DecidedOK, Shape
  <2> QED BY <1>37, <2>1, <2>2 DEF CommitReductionFlat
<1>38. CASE SettleFlat
  <2>0. /\ job = "live" /\ w.pc = "node" /\ cp.node = "settle"
        /\ UNCHANGED <<body, wf, cp, probe, job, api, changed, sent, blame, count>>
    BY <1>38 DEF SettleFlat
  <2>1. CASE /\ j.settled <= cp.round /\ j.status # "stopped" /\ NoPending /\ j.open
             /\ j' = RoundSettled(cp.red, Decision) /\ Goto("after")
    <3>1. /\ j'.term = Decision /\ j'.settled = j.settled + 1 /\ j'.status = j.status
      BY <2>1, RoundSettledFields DEF Shape
    <3>2. cp.round = j.settled /\ j.settled \in Nat /\ cp'.node = "settle" /\ cp' = cp
      BY <2>0, <2>1 DEF CkptOK, CkptFits, JournalOK
    <3>3. w'.pc = "after"
      BY <2>1, GotoWorker DEF Shape
    <3> QED BY <1>0, <3>1, <3>2, <3>3 DEF DecidedOK
  <2>2. CASE /\ j.settled <= cp.round /\ ~(j.status # "stopped" /\ NoPending /\ j.open)
             /\ j' = j /\ Raise("error")
    BY <2>0, <2>2, RaiseWorker, <1>0
       DEF DecidedOK, Shape
  <2>3. CASE ~(j.settled <= cp.round) /\ j' = j /\ Goto("after")
    <3>1. w'.pc = "after" /\ cp' = cp /\ j' = j
      BY <2>0, <2>3, GotoWorker DEF Shape
    <3>2. cp.round = j.settled - 1
      BY <2>0, <2>3 DEF CkptOK, CkptFits, JournalOK
    <3> QED BY <1>0, <2>0, <3>1, <3>2 DEF DecidedOK
  <2> QED BY <1>38, <2>1, <2>2, <2>3 DEF SettleFlat
<1>39. CASE AfterSettleFlat
  <2>0. /\ job = "live" /\ w.pc = "after"
        /\ UNCHANGED <<j, body, wf, cp, probe, job, api, changed, sent, blame, count>>
    BY <1>39 DEF AfterSettleFlat
  <2>1. CASE /\ Decision # None
             /\ Checkpoint([cp EXCEPT !.node = "synthesize", !.reason = Decision])
    <3>1. PICK c : c = [cp EXCEPT !.node = "synthesize", !.reason = Decision]
      OBVIOUS
    <3>2. w'.pc = "ckpt" /\ w'.out = c /\ cp' = cp
      BY <2>0, <2>1, <3>1, CheckpointWorker DEF Shape
    <3>3. c.node = "synthesize" /\ c.reason = Decision
      BY <3>1 DEF Shape, CFields
    <3>4. j' = j
      BY <2>0, <2>1
    <3>5. j.status # "stopped" => j.term = Decision
      BY <2>0 DEF DecidedOK
    <3>6. Decision \in Natural \cup {None}
      BY DecisionKind DEF Decision
    <3>7. j.status = "stopped" => j.term = None
      BY DEF JournalOK
    <3> QED BY <1>0, <2>0, <2>1, <3>2, <3>3, <3>4, <3>5, <3>6, <3>7 DEF DecidedOK
  <2>2. CASE /\ Decision = None /\ j.status # "running"
             /\ Raise(IF j.status = "stopped" THEN "cancel" ELSE "pause")
    BY <2>0, <2>2, RaiseWorker, <1>0
       DEF DecidedOK, Shape
  <2>3. CASE /\ Decision = None /\ j.status = "running"
             /\ Checkpoint([cp EXCEPT !.node = "orient", !.red = None,
                                      !.before = None, !.n = 0, !.spent = FALSE])
    <3>1. PICK c : c = [cp EXCEPT !.node = "orient", !.red = None, !.before = None, !.n = 0,
                     !.spent = FALSE]
      OBVIOUS
    <3>2. w'.pc = "ckpt" /\ w'.out = c /\ cp' = cp
      BY <2>0, <2>3, <3>1, CheckpointWorker DEF Shape
    <3>3. c.node = "orient"
      BY <3>1 DEF Shape, CFields
    <3>4. j' = j
      BY <2>0, <2>3
    <3>5. j.status # "stopped" => j.term = Decision
      BY <2>0 DEF DecidedOK
    <3>6. Decision \in Natural \cup {None}
      BY DecisionKind DEF Decision
    <3>7. j.status = "stopped" => j.term = None
      BY DEF JournalOK
    <3> QED BY <1>0, <2>0, <2>3, <3>2, <3>3, <3>4, <3>5, <3>6, <3>7 DEF DecidedOK
  <2> QED BY <1>39, <2>1, <2>2, <2>3 DEF AfterSettleFlat
<1>40. CASE SynthesizeFlat
  BY <1>40, RaiseWorker, StopWorker, <1>0
     DEF SynthesizeFlat, DecidedOK, Shape
<1>41. CASE StopFlat
  BY <1>41, RaiseWorker, OffWorker, FreshWorker, BareWorker, StoppedFields, <1>0
     DEF StopFlat, DecidedOK, Shape
<1>42. CASE HandlePauseFlat
  BY <1>42, HandlePauseMoves, <1>0
     DEF DecidedOK, Shape
<1>43. CASE HandleCancelFlat
  BY <1>43, FreshWorker, <1>0
     DEF HandleCancelFlat, DecidedOK, Shape
<1>44. CASE HandleStopFlat
  <2>0. /\ job = "live" /\ w.pc = "raised" /\ w.exc \in {"witness", "budget", "error"}
        /\ UNCHANGED <<j, body, wf, cp, probe, job, api, changed, sent, blame, count>>
    BY <1>44 DEF HandleStopFlat
  <2>1. CASE j.status # "running" /\ Raise(IF j.status = "stopped" THEN "cancel" ELSE "pause")
    BY <2>0, <2>1, RaiseWorker, <1>0
       DEF DecidedOK, Shape
  <2>2. CASE /\ j.status = "running"
             /\ \E r, why :
                   /\ ToStop(why, r)
                   /\ why = CASE w.exc = "witness" -> "state_witness_changed"
                             [] w.exc = "budget" -> "budget_exhausted"
                             [] OTHER -> "failed"
                   /\ /\ w.exc = "budget" /\ ~w.bare /\ j.settled > 0
                      /\ j.redn = body[Red(j.settled - 1)]
                      => r
    BY <2>0, <2>2, StopWorker, <1>0
       DEF DecidedOK, Shape
  <2> QED BY <1>44, <2>1, <2>2 DEF HandleStopFlat
<1>45. CASE CrashFlat
  BY <1>45, OffWorker, <1>0
     DEF CrashFlat, DecidedOK, Shape
<1>46. CASE PauseFlat
  BY <1>46, PauseMoves, <1>0
     DEF DecidedOK, Shape
<1>47. CASE ResumeFlat
  <2>0. /\ j.status = "paused" /\ api = "idle"
        /\ UNCHANGED <<body, wf, cp, probe, w, job, changed, sent, blame, count>>
    BY <1>47 DEF ResumeFlat
  <2>1. CASE changed /\ j' = Stopped("state_witness_changed", FALSE) /\ api' = api
    BY <2>0, <2>1, StoppedFields, <1>0
       DEF DecidedOK, Shape
  <2>2. CASE /\ job \notin {"queued", "live"} /\ j' = [j EXCEPT !.status = "running"]
             /\ api' = "launching"
    BY <2>0, <2>2, StatusFields, <1>0
       DEF DecidedOK, Shape
  <2> QED BY <1>47, <2>1, <2>2 DEF ResumeFlat
<1>48. CASE LaunchFlat
  <2>0. /\ api = "launching"
        /\ api' = "idle"
        /\ UNCHANGED <<body, wf, cp, probe, w, changed, sent>>
    BY <1>48 DEF LaunchFlat
  <2>1. CASE job' = "queued" /\ UNCHANGED <<j, blame, count>>
    BY <2>0, <2>1, <1>0
       DEF DecidedOK, Shape
  <2>2. CASE /\ j.status = "stopped" /\ j' = j
             /\ blame' = blame \cup {"launch"} /\ UNCHANGED <<job, count>>
    BY <2>0, <2>2, <1>0
       DEF DecidedOK, Shape
  <2>3. CASE /\ j.status # "stopped" /\ j' = Stopped("failed", FALSE)
             /\ blame' = blame \cup {"launch"} /\ UNCHANGED <<job, count>>
    BY <2>0, <2>3, StoppedFields, <1>0
       DEF DecidedOK, Shape
  <2>4. CASE /\ Room /\ count' = [count EXCEPT !.crashes = @ + 1]
             /\ blame' = blame \cup {"api"} /\ UNCHANGED <<j, job>>
    BY <2>0, <2>4, <1>0
       DEF DecidedOK, Shape
  <2> QED BY <1>48, <2>1, <2>2, <2>3, <2>4 DEF LaunchFlat
<1>49. CASE CancelFlat
  BY <1>49, CancelMoves, <1>0
     DEF DecidedOK, Shape
<1>50. CASE CancelJobFlat
  BY <1>50, OffWorker, <1>0
     DEF CancelJobFlat, DecidedOK, Shape
<1>51. CASE ExtendBudgetFlat
  BY <1>51, ExtendBudgetMoves, <1>0
     DEF DecidedOK, Shape
<1>52. CASE UNCHANGED <<j, w, cp>>
  BY <1>52, <1>0 DEF DecidedOK, Shape
<1>53. QED
  BY NextIsFlat, <1>1, <1>2, <1>3, <1>4, <1>5, <1>6, <1>7, <1>8, <1>9, <1>10, <1>11, <1>12,
         <1>13, <1>14, <1>15, <1>16, <1>17, <1>18, <1>19, <1>20, <1>21, <1>22, <1>23, <1>24,
         <1>25, <1>26, <1>27, <1>28, <1>29, <1>30, <1>31, <1>32, <1>33, <1>34, <1>35, <1>36,
         <1>37, <1>38, <1>39, <1>40, <1>41, <1>42, <1>43, <1>44, <1>45, <1>46, <1>47, <1>48,
         <1>49, <1>50, <1>51, <1>52
     DEF NextFlat, vars, RerunFlat, ChangeDataFlat

\* An exception whose cause is known leaves the attempt with a known end.
LEMMA RaisedAfter ==
    ASSUME NEW e \in {"pause", "cancel"} \cup Handled, Raise(e),
           e = "budget" => cp'.node \in {"orient", "generate"},
           e = "cancel" => j'.status = "stopped",
           e \in Handled /\ j'.status = "running" => j'.term = None
    PROVE  RaisedOK'
<1>1. w'.pc = "raised" /\ w'.exc = e /\ ~w'.bare
  BY RaiseWorker
<1>2. e # None
  BY NoneAssumption DEF Handled
<1> QED BY <1>1, <1>2 DEF RaisedOK

\* How an attempt ends.
LEMMA RaisedStep ==
    ASSUME Shape, JournalOK, CkptOK(cp), PlaceOK, PendingOK, Kept, DecidedOK, RaisedOK,
           [Next]_vars
    PROVE  RaisedOK'
<1>1. CASE ClaimFlat
  BY <1>1, FreshWorker, NoneAssumption
     DEF ClaimFlat, RaisedOK, Shape, Handled
<1>2. CASE VerifyFlat
  BY <1>2, GotoWorker, OffWorker, RecoverWorker, NoneAssumption
     DEF VerifyFlat, RaisedOK, Shape, Handled
<1>3. CASE RecoverCallFlat
  <2>1. cp' = cp /\ w'.pc \in {"off", "recover"} /\ w'.exc = None /\ (w'.bare => w.bare)
    BY <1>3, OffWorker, SettleRestWorker DEF RecoverCallFlat, Shape, RaisedOK
  <2>2. ~w.bare
    BY <1>3, NoneAssumption DEF RecoverCallFlat, RaisedOK
  <2> QED BY <2>1, <2>2, NoneAssumption DEF RaisedOK
<1>4. CASE RecoverToolFlat
  <2>1. cp' = cp /\ w'.pc \in {"off", "recover"} /\ w'.exc = None /\ (w'.bare => w.bare)
    BY <1>4, OffWorker, SettleRestWorker DEF RecoverToolFlat, Shape, RaisedOK
  <2>2. ~w.bare
    BY <1>4, NoneAssumption DEF RecoverToolFlat, RaisedOK
  <2> QED BY <2>1, <2>2, NoneAssumption DEF RaisedOK
<1>5. CASE RecoveredFlat
  BY <1>5, EnterWorker, NoneAssumption
     DEF RecoveredFlat, RaisedOK, Shape, Handled
<1>6. CASE EnterFlat
  <2>0. /\ job = "live" /\ w.pc = "enter"
        /\ UNCHANGED <<body, wf, cp, probe, job, api, changed, sent, blame, count>>
    BY <1>6 DEF EnterFlat
  <2>1. CASE /\ j.status = "pause_requested" /\ j' = [j EXCEPT !.status = "paused"]
             /\ ToFresh("ending")
    BY <2>0, <2>1, FreshWorker, StatusFields, NoneAssumption
       DEF RaisedOK, Shape, Handled
  <2>2. CASE j.status \in {"stopped", "paused"} /\ j' = j /\ ToFresh("ending")
    BY <2>0, <2>2, FreshWorker, NoneAssumption
       DEF RaisedOK, Shape, Handled
  <2>3. CASE /\ j.status = "running" /\ j' = Stopped("state_witness_changed", FALSE)
             /\ ToFresh("ending")
    <3>1. w'.pc = "ending" /\ w'.exc = None /\ ~w'.bare
      BY <2>3, FreshWorker
    <3>2. j'.status = "stopped"
      BY <2>3, StoppedFields DEF Shape
    <3> QED BY <3>1, <3>2, NoneAssumption DEF RaisedOK
  <2>4. CASE j.status \notin {"pause_requested", "stopped", "paused"} /\ j' = j /\ Goto("node")
    BY <2>0, <2>4, GotoWorker, NoneAssumption
       DEF RaisedOK, Shape, Handled
  <2> QED BY <1>6, <2>1, <2>2, <2>3, <2>4 DEF EnterFlat
<1>7. CASE WriteCheckpointFlat
  BY <1>7, NodeWorker, NoneAssumption
     DEF WriteCheckpointFlat, RaisedOK, Shape, Handled
<1>8. CASE EndAttemptFlat
  BY <1>8, OffWorker, NoneAssumption
     DEF EndAttemptFlat, RaisedOK, Shape, Handled
<1>9. CASE OrientFlat
  <2>0. /\ job = "live" /\ w.pc = "node" /\ cp.node = "orient"
        /\ UNCHANGED <<j, body, wf, cp, probe, job, api, changed, sent, blame, count>>
    BY <1>9 DEF OrientFlat
  <2>1. CASE j.status # "running" /\ Raise(IF j.status = "stopped" THEN "cancel" ELSE "pause")
    BY <2>0, <2>1, RaiseWorker, NoneAssumption
       DEF RaisedOK, Shape, Handled
  <2>2. CASE j.status = "running" /\ Raise("budget")
    <3>1. j' = j
      BY <2>0, <2>2
    <3>2. j.status = "running" => j.term = None
      BY <2>0, <2>2 DEF DecidedOK, PlaceOK, Asking, Tooling, Reducing
    <3>3. cp' = cp /\ "budget" \in Handled
      BY <2>0 DEF Handled
    <3> QED BY <2>0, <2>2, <3>1, <3>2, <3>3, RaisedAfter
  <2>3. CASE j.status = "running" /\ changed /\ Raise("witness")
    <3>1. j' = j
      BY <2>0, <2>3
    <3>2. j.status = "running" => j.term = None
      BY <2>0, <2>3 DEF DecidedOK, PlaceOK, Asking, Tooling, Reducing
    <3>3. cp' = cp /\ "witness" \in Handled
      BY <2>0 DEF Handled
    <3> QED BY <2>0, <2>3, <3>1, <3>2, <3>3, RaisedAfter
  <2>4. CASE /\ j.status = "running" /\ j.open
             /\ Checkpoint([cp EXCEPT !.node = "generate", !.round = j.settled])
    BY <2>0, <2>4, CheckpointWorker, NoneAssumption
       DEF RaisedOK, Shape, Handled
  <2>5. CASE j.status = "running" /\ ~j.open /\ ~(j.rounds <= 0) /\ Goto("open")
    BY <2>0, <2>5, GotoWorker, NoneAssumption
       DEF RaisedOK, Shape, Handled
  <2> QED BY <1>9, <2>1, <2>2, <2>3, <2>4, <2>5 DEF OrientFlat
<1>10. CASE OpenRoundFlat
  <2>0. /\ job = "live" /\ w.pc = "open"
        /\ UNCHANGED <<body, wf, cp, probe, job, api, changed, sent, blame, count>>
    BY <1>10 DEF OpenRoundFlat
  <2>1. CASE /\ CanStartRound /\ j' = RoundStarted
             /\ Checkpoint([cp EXCEPT !.node = "generate", !.round = j.settled])
    BY <2>0, <2>1, CheckpointWorker, RoundStartedFields, NoneAssumption
       DEF RaisedOK, Shape, Handled
  <2>2. CASE ~(j.status # "stopped" /\ CanStartRound) /\ j' = j /\ Raise("error")
    <3>1. j' = j
      BY <2>0, <2>2
    <3>2. j.status = "running" => j.term = None
      BY <2>0, <2>2 DEF DecidedOK, PlaceOK, Asking, Tooling, Reducing
    <3>3. cp' = cp /\ "error" \in Handled
      BY <2>0 DEF Handled
    <3> QED BY <2>0, <2>2, <3>1, <3>2, <3>3, RaisedAfter
  <2> QED BY <1>10, <2>1, <2>2 DEF OpenRoundFlat
<1>11. CASE GenerateFlat
  <2>0. /\ job = "live" /\ w.pc = "node" /\ cp.node = "generate"
        /\ UNCHANGED <<j, body, wf, cp, probe, job, api, changed, sent, blame, count>>
    BY <1>11 DEF GenerateFlat
  <2>1. CASE j.status # "running" /\ Raise(IF j.status = "stopped" THEN "cancel" ELSE "pause")
    BY <2>0, <2>1, RaiseWorker, NoneAssumption
       DEF RaisedOK, Shape, Handled
  <2>2. CASE /\ j.status = "running" /\ Done(Call) /\ j.dig[Call] = body[Call]
             /\ Checkpoint([cp EXCEPT !.node = "schedule"])
    BY <2>0, <2>2, CheckpointWorker, NoneAssumption
       DEF RaisedOK, Shape, Handled
  <2>3. CASE j.status = "running" /\ Done(Call) /\ j.dig[Call] # body[Call] /\ Raise("error")
    <3>1. j' = j
      BY <2>0, <2>3
    <3>2. j.status = "running" => j.term = None
      BY <2>0, <2>3 DEF DecidedOK, PlaceOK, Asking, Tooling, Reducing
    <3>3. cp' = cp /\ "error" \in Handled
      BY <2>0 DEF Handled
    <3> QED BY <2>0, <2>3, <3>1, <3>2, <3>3, RaisedAfter
  <2>4. CASE j.status = "running" /\ ~Done(Call) /\ Call \in j.unsure /\ Raise("error")
    <3>1. j' = j
      BY <2>0, <2>4
    <3>2. j.status = "running" => j.term = None
      BY <2>0, <2>4 DEF DecidedOK, PlaceOK, Asking, Tooling, Reducing
    <3>3. cp' = cp /\ "error" \in Handled
      BY <2>0 DEF Handled
    <3> QED BY <2>0, <2>4, <3>1, <3>2, <3>3, RaisedAfter
  <2>5. CASE j.status = "running" /\ Raise("budget")
    <3>1. j' = j
      BY <2>0, <2>5
    <3>2. j.status = "running" => j.term = None
      BY <2>0, <2>5 DEF DecidedOK, PlaceOK, Asking, Tooling, Reducing
    <3>3. cp' = cp /\ "budget" \in Handled
      BY <2>0 DEF Handled
    <3> QED BY <2>0, <2>5, <3>1, <3>2, <3>3, RaisedAfter
  <2>6. CASE /\ j.status = "running" /\ ~Done(Call) /\ Call \notin j.unsure /\ CanSend
             /\ ToStart(1)
    BY <2>0, <2>6, StartWorker, NoneAssumption
       DEF RaisedOK, Shape, Handled
  <2> QED BY <1>11, <2>1, <2>2, <2>3, <2>4, <2>5, <2>6 DEF GenerateFlat
<1>12. CASE StartCallFlat
  <2>0. /\ job = "live" /\ w.pc = "start"
        /\ UNCHANGED <<body, wf, cp, probe, job, api, changed, sent, blame, count>>
    BY <1>12 DEF StartCallFlat
  <2>1. CASE CanStartCall(Call) /\ j' = CallStarted(Call) /\ Goto("send")
    BY <2>0, <2>1, GotoWorker, CallStartedFields, NoneAssumption
       DEF RaisedOK, Shape, Handled
  <2>2. CASE ~(j.status # "stopped" /\ CanStartCall(Call)) /\ j' = j /\ Raise("error")
    <3>1. j' = j
      BY <2>0, <2>2
    <3>2. j.status = "running" => j.term = None
      BY <2>0, <2>2 DEF DecidedOK, PlaceOK, Asking, Tooling, Reducing
    <3>3. cp' = cp /\ "error" \in Handled
      BY <2>0 DEF Handled
    <3> QED BY <2>0, <2>2, <3>1, <3>2, <3>3, RaisedAfter
  <2> QED BY <1>12, <2>1, <2>2 DEF StartCallFlat
<1>13. CASE SendFlat
  BY <1>13, GotoWorker, NoneAssumption
     DEF SendFlat, RaisedOK, Shape, Handled
<1>14. CASE SendRefusedFlat
  <2>0. /\ job = "live" /\ w.pc = "send"
        /\ blame' = blame \cup {"refused"}
        /\ UNCHANGED <<body, wf, cp, job, api, changed, sent, count>>
    BY <1>14 DEF SendRefusedFlat
  <2>1. CASE j.status = "stopped" /\ Raise("error") /\ UNCHANGED <<j, probe>>
    <3>1. j' = j
      BY <2>0, <2>1
    <3>2. j.status = "running" => j.term = None
      BY <2>0, <2>1 DEF JournalOK
    <3>3. cp' = cp /\ "error" \in Handled
      BY <2>0 DEF Handled
    <3> QED BY <2>0, <2>1, <3>1, <3>2, <3>3, RaisedAfter
  <2>2. CASE /\ j.status # "stopped" /\ j' = CallRejected(Call) /\ cp.node = "generate"
             /\ Raise("budget") /\ probe' = probe
    <3>1. j'.status = j.status /\ j'.term = j.term
      BY <2>2, CallRejectedFields DEF Shape
    <3>2. j.status = "running" => j.term = None
      BY <2>0, <2>2 DEF DecidedOK, PlaceOK, Asking, Tooling, Reducing
    <3>3. cp' = cp /\ "budget" \in Handled
      BY <2>0 DEF Handled
    <3> QED BY <2>0, <2>2, <3>1, <3>2, <3>3, RaisedAfter
  <2>3. CASE /\ j.status # "stopped" /\ j' = CallRejected(Call) /\ cp.node # "generate"
             /\ probe' = [probe EXCEPT ![Here] = "spent"] /\ ProbeLoop
    BY <2>0, <2>3, ProbeLoopWorker, CallRejectedFields, NoneAssumption
       DEF RaisedOK, Shape, Handled
  <2> QED BY <1>14, <2>1, <2>2, <2>3 DEF SendRefusedFlat
<1>15. CASE AnsweredFlat
  BY <1>15, KeepWorker, NoneAssumption
     DEF AnsweredFlat, RaisedOK, Shape, Handled
<1>16. CASE AnswerUnknownFlat
  <2>0. /\ job = "live" /\ w.pc = "answer"
        /\ blame' = blame \cup {"provider"}
        /\ UNCHANGED <<body, wf, cp, job, api, changed, sent, count>>
    BY <1>16 DEF AnswerUnknownFlat
  <2>1. CASE j.status = "stopped" /\ Raise("error") /\ UNCHANGED <<j, probe>>
    <3>1. j' = j
      BY <2>0, <2>1
    <3>2. j.status = "running" => j.term = None
      BY <2>0, <2>1 DEF JournalOK
    <3>3. cp' = cp /\ "error" \in Handled
      BY <2>0 DEF Handled
    <3> QED BY <2>0, <2>1, <3>1, <3>2, <3>3, RaisedAfter
  <2>2. CASE /\ j.status # "stopped" /\ j' = CallUncertain(Call) /\ cp.node = "generate"
             /\ Raise("error") /\ probe' = probe
    <3>1. j'.status = j.status /\ j'.term = j.term
      BY <2>2, CallUncertainFields DEF Shape
    <3>2. j.status = "running" => j.term = None
      BY <2>0, <2>2 DEF DecidedOK, PlaceOK, Asking, Tooling, Reducing
    <3>3. cp' = cp /\ "error" \in Handled
      BY <2>0 DEF Handled
    <3> QED BY <2>0, <2>2, <3>1, <3>2, <3>3, RaisedAfter
  <2>3. CASE /\ j.status # "stopped" /\ j' = CallUncertain(Call) /\ cp.node # "generate"
             /\ probe' = [probe EXCEPT ![Here] = "bad"] /\ ProbeLoop
    BY <2>0, <2>3, ProbeLoopWorker, CallUncertainFields, NoneAssumption
       DEF RaisedOK, Shape, Handled
  <2> QED BY <1>16, <2>1, <2>2, <2>3 DEF AnswerUnknownFlat
<1>17. CASE AnswerMalformedFlat
  <2>0. /\ job = "live" /\ w.pc = "answer"
        /\ sent' = [sent EXCEPT ![Call] = 0]
        /\ UNCHANGED <<body, wf, cp, job, api, changed, blame, count>>
    BY <1>17 DEF AnswerMalformedFlat
  <2>1. CASE j.status = "stopped" /\ Raise("error") /\ UNCHANGED <<j, probe>>
    <3>1. j' = j
      BY <2>0, <2>1
    <3>2. j.status = "running" => j.term = None
      BY <2>0, <2>1 DEF JournalOK
    <3>3. cp' = cp /\ "error" \in Handled
      BY <2>0 DEF Handled
    <3> QED BY <2>0, <2>1, <3>1, <3>2, <3>3, RaisedAfter
  <2>2. CASE /\ j.status # "stopped" /\ j' = CallRejected(Call) /\ cp.node = "generate"
             /\ ToStart(2) /\ probe' = probe
    BY <2>0, <2>2, StartWorker, CallRejectedFields, NoneAssumption
       DEF RaisedOK, Shape, Handled
  <2>3. CASE /\ j.status # "stopped" /\ j' = CallRejected(Call) /\ cp.node # "generate"
             /\ probe' = [probe EXCEPT ![Here] = "end"] /\ ProbeLoop
    BY <2>0, <2>3, ProbeLoopWorker, CallRejectedFields, NoneAssumption
       DEF RaisedOK, Shape, Handled
  <2> QED BY <1>17, <2>1, <2>2, <2>3 DEF AnswerMalformedFlat
<1>18. CASE AnswerUnavailableFlat
  <2>0. /\ job = "live" /\ w.pc = "answer"
        /\ sent' = [sent EXCEPT ![Call] = 0]
        /\ blame' = blame \cup {"provider"}
        /\ UNCHANGED <<body, wf, cp, job, api, changed, count>>
    BY <1>18 DEF AnswerUnavailableFlat
  <2>1. CASE j.status = "stopped" /\ Raise("error") /\ UNCHANGED <<j, probe>>
    <3>1. j' = j
      BY <2>0, <2>1
    <3>2. j.status = "running" => j.term = None
      BY <2>0, <2>1 DEF JournalOK
    <3>3. cp' = cp /\ "error" \in Handled
      BY <2>0 DEF Handled
    <3> QED BY <2>0, <2>1, <3>1, <3>2, <3>3, RaisedAfter
  <2>2. CASE /\ j.status # "stopped" /\ j' = CallRejected(Call) /\ cp.node = "generate"
             /\ Raise("error") /\ probe' = probe
    <3>1. j'.status = j.status /\ j'.term = j.term
      BY <2>2, CallRejectedFields DEF Shape
    <3>2. j.status = "running" => j.term = None
      BY <2>0, <2>2 DEF DecidedOK, PlaceOK, Asking, Tooling, Reducing
    <3>3. cp' = cp /\ "error" \in Handled
      BY <2>0 DEF Handled
    <3> QED BY <2>0, <2>2, <3>1, <3>2, <3>3, RaisedAfter
  <2>3. CASE /\ j.status # "stopped" /\ j' = CallRejected(Call) /\ cp.node # "generate"
             /\ probe' = [probe EXCEPT ![Here] = "end"] /\ ProbeLoop
    BY <2>0, <2>3, ProbeLoopWorker, CallRejectedFields, NoneAssumption
       DEF RaisedOK, Shape, Handled
  <2> QED BY <1>18, <2>1, <2>2, <2>3 DEF AnswerUnavailableFlat
<1>19. CASE KeepAnswerFlat
  BY <1>19, GotoWorker, NoneAssumption
     DEF KeepAnswerFlat, RaisedOK, Shape, Handled
<1>20. CASE CompleteCallFlat
  <2>0. /\ job = "live" /\ w.pc = "complete"
        /\ UNCHANGED <<body, wf, cp, probe, job, api, changed, sent, blame, count>>
    BY <1>20 DEF CompleteCallFlat
  <2>1. CASE /\ j.status # "stopped" /\ Call \in j.calls
             /\ j' = CallCompleted(Call, w.val) /\ cp.node = "generate"
             /\ Checkpoint([cp EXCEPT !.node = "schedule"])
    BY <2>0, <2>1, CheckpointWorker, CallCompletedFields, NoneAssumption
       DEF RaisedOK, Shape, Handled
  <2>2. CASE /\ j.status # "stopped" /\ Call \in j.calls
             /\ j' = CallCompleted(Call, w.val) /\ cp.node # "generate" /\ ProbeLoop
    BY <2>0, <2>2, ProbeLoopWorker, CallCompletedFields, NoneAssumption
       DEF RaisedOK, Shape, Handled
  <2>3. CASE ~(j.status # "stopped" /\ Call \in j.calls) /\ j' = j /\ Raise("error")
    <3>1. j' = j
      BY <2>0, <2>3
    <3>2. j.status = "running" => j.term = None
      BY <2>0, <2>3 DEF DecidedOK, PlaceOK, Asking, Tooling, Reducing
    <3>3. cp' = cp /\ "error" \in Handled
      BY <2>0 DEF Handled
    <3> QED BY <2>0, <2>3, <3>1, <3>2, <3>3, RaisedAfter
  <2> QED BY <1>20, <2>1, <2>2, <2>3 DEF CompleteCallFlat
<1>21. CASE ScheduleFlat
  <2>0. /\ job = "live" /\ w.pc = "node" /\ cp.node = "schedule"
        /\ UNCHANGED <<j, body, cp, probe, job, api, changed, sent, blame, count>>
    BY <1>21 DEF ScheduleFlat
  <2>1. CASE /\ j.status # "running" /\ wf' = wf
             /\ Raise(IF j.status = "stopped" THEN "cancel" ELSE "pause")
    BY <2>0, <2>1, RaiseWorker, NoneAssumption
       DEF RaisedOK, Shape, Handled
  <2>2. CASE j.status = "running" /\ cp.round \in wf.sched /\ wf' = wf /\ Raise("error")
    <3>1. j' = j
      BY <2>0, <2>2
    <3>2. j.status = "running" => j.term = None
      BY <2>0, <2>2 DEF DecidedOK, PlaceOK, Asking, Tooling, Reducing
    <3>3. cp' = cp /\ "error" \in Handled
      BY <2>0 DEF Handled
    <3> QED BY <2>0, <2>2, <3>1, <3>2, <3>3, RaisedAfter
  <2>3. CASE /\ j.status = "running"
             /\ wf' = wf \/ wf' = [wf EXCEPT !.sched = @ \cup {cp.round}]
             /\ Checkpoint([cp EXCEPT !.node = IF body[Gen(cp.round)] > 0 THEN "select" ELSE "reduce",
                                      !.n = body[Gen(cp.round)]])
    BY <2>0, <2>3, CheckpointWorker, NoneAssumption
       DEF RaisedOK, Shape, Handled
  <2> QED BY <1>21, <2>1, <2>2, <2>3 DEF ScheduleFlat
<1>22. CASE PassNodeFlat
  BY <1>22, RaiseWorker, CheckpointWorker, NoneAssumption
     DEF PassNodeFlat, RaisedOK, Shape, Handled
<1>23. CASE ExecuteFlat
  <2>0. /\ job = "live" /\ w.pc = "node" /\ cp.node = "execute_probes"
        /\ UNCHANGED <<j, body, wf, cp, probe, job, api, changed, sent, blame, count>>
    BY <1>23 DEF ExecuteFlat
  <2>1. CASE j.status # "running" /\ Raise(IF j.status = "stopped" THEN "cancel" ELSE "pause")
    BY <2>0, <2>1, RaiseWorker, NoneAssumption
       DEF RaisedOK, Shape, Handled
  <2>2. CASE j.status = "running" /\ ToProbes
    BY <2>0, <2>2, ProbesWorker, NoneAssumption
       DEF RaisedOK, Shape, Handled
  <2> QED BY <1>23, <2>1, <2>2 DEF ExecuteFlat
<1>24. CASE NextProbeFlat
  <2>0. /\ job = "live" /\ w.pc = "probes"
        /\ UNCHANGED <<j, body, wf, cp, probe, job, api, changed, sent, blame, count>>
    BY <1>24 DEF NextProbeFlat
  <2>1. CASE \E spent : Checkpoint([cp EXCEPT !.node = "validate", !.spent = spent])
    BY <2>0, <2>1, CheckpointWorker, NoneAssumption
       DEF RaisedOK, Shape, Handled
  <2>2. CASE ~(w.p > cp.n) /\ probe[Here] = "bad" /\ Raise("error")
    <3>1. j' = j
      BY <2>0, <2>2
    <3>2. j.status = "running" => j.term = None
      BY <2>0, <2>2 DEF DecidedOK, PlaceOK, Asking, Tooling, Reducing
    <3>3. cp' = cp /\ "error" \in Handled
      BY <2>0 DEF Handled
    <3> QED BY <2>0, <2>2, <3>1, <3>2, <3>3, RaisedAfter
  <2>3. CASE ~(w.p > cp.n) /\ ToProbe(w.p + 1)
    BY <2>0, <2>3, ProbeWorker, NoneAssumption
       DEF RaisedOK, Shape, Handled
  <2> QED BY <1>24, <2>1, <2>2, <2>3 DEF NextProbeFlat
<1>25. CASE AskModelFlat
  <2>0. /\ job = "live" /\ w.pc = "probes" /\ w.p <= cp.n
        /\ UNCHANGED <<j, body, wf, cp, job, api, changed, sent, blame, count>>
    BY <1>25 DEF AskModelFlat
  <2>1. CASE Call \in j.unsure /\ probe' = [probe EXCEPT ![Here] = "bad"] /\ ProbeLoop
    BY <2>0, <2>1, ProbeLoopWorker, NoneAssumption
       DEF RaisedOK, Shape, Handled
  <2>2. CASE /\ Done(Call) /\ j.dig[Call] # body[Call]
             /\ probe' = [probe EXCEPT ![Here] = "bad"] /\ ProbeLoop
    BY <2>0, <2>2, ProbeLoopWorker, NoneAssumption
       DEF RaisedOK, Shape, Handled
  <2>3. CASE /\ \E x \in {"tools", "end", "spent"} : probe' = [probe EXCEPT ![Here] = x]
             /\ ProbeLoop
    BY <2>0, <2>3, ProbeLoopWorker, NoneAssumption
       DEF RaisedOK, Shape, Handled
  <2>4. CASE /\ ~Done(Call) /\ Call \notin j.unsure /\ CanSend
             /\ Goto("start") /\ probe' = probe
    BY <2>0, <2>4, GotoWorker, NoneAssumption
       DEF RaisedOK, Shape, Handled
  <2> QED BY <1>25, <2>1, <2>2, <2>3, <2>4 DEF AskModelFlat
<1>26. CASE UseToolFlat
  <2>0. /\ job = "live" /\ w.pc = "probes" /\ w.p <= cp.n
        /\ UNCHANGED <<j, body, wf, cp, job, api, changed, sent, blame, count>>
    BY <1>26 DEF UseToolFlat
  <2>1. CASE Done(Mine) /\ Mine \notin DOMAIN body /\ probe' = [probe EXCEPT ![Here] = "bad"] /\ ProbeLoop
    BY <2>0, <2>1, ProbeLoopWorker, NoneAssumption
       DEF RaisedOK, Shape, Handled
  <2>2. CASE /\ \E x \in {"end", "spent"} : probe' = [probe EXCEPT ![Here] = x]
             /\ ProbeLoop
    BY <2>0, <2>2, ProbeLoopWorker, NoneAssumption
       DEF RaisedOK, Shape, Handled
  <2>3. CASE ~Done(Mine) /\ ~(w.led <= 0) /\ Goto("tstart") /\ probe' = probe
    BY <2>0, <2>3, GotoWorker, NoneAssumption
       DEF RaisedOK, Shape, Handled
  <2> QED BY <1>26, <2>1, <2>2, <2>3 DEF UseToolFlat
<1>27. CASE StartToolFlat
  <2>0. /\ job = "live" /\ w.pc = "tstart"
        /\ UNCHANGED <<body, wf, cp, probe, job, api, changed, sent, blame, count>>
    BY <1>27 DEF StartToolFlat
  <2>1. CASE CanStartTool(Mine) /\ j' = ToolStarted(Mine) /\ Goto("run")
    BY <2>0, <2>1, GotoWorker, ToolStartedFields, NoneAssumption
       DEF RaisedOK, Shape, Handled
  <2>2. CASE ~(j.status # "stopped" /\ CanStartTool(Mine)) /\ j' = j /\ Raise("error")
    <3>1. j' = j
      BY <2>0, <2>2
    <3>2. j.status = "running" => j.term = None
      BY <2>0, <2>2 DEF DecidedOK, PlaceOK, Asking, Tooling, Reducing
    <3>3. cp' = cp /\ "error" \in Handled
      BY <2>0 DEF Handled
    <3> QED BY <2>0, <2>2, <3>1, <3>2, <3>3, RaisedAfter
  <2> QED BY <1>27, <2>1, <2>2 DEF StartToolFlat
<1>28. CASE RunToolFlat
  BY <1>28, ResultWorker, NoneAssumption
     DEF RunToolFlat, RaisedOK, Shape, Handled
<1>29. CASE FailToolFlat
  <2>0. /\ job = "live" /\ w.pc = "run"
        /\ UNCHANGED <<body, wf, cp, job, api, changed, sent, blame, count>>
    BY <1>29 DEF FailToolFlat
  <2>1. CASE j.status = "stopped" /\ Raise("error") /\ UNCHANGED <<j, probe>>
    <3>1. j' = j
      BY <2>0, <2>1
    <3>2. j.status = "running" => j.term = None
      BY <2>0, <2>1 DEF JournalOK
    <3>3. cp' = cp /\ "error" \in Handled
      BY <2>0 DEF Handled
    <3> QED BY <2>0, <2>1, <3>1, <3>2, <3>3, RaisedAfter
  <2>2. CASE /\ j.status # "stopped" /\ j' = ToolFailed(Mine)
             /\ probe' = [probe EXCEPT ![Here] = "end"] /\ ProbeLoop
    BY <2>0, <2>2, ProbeLoopWorker, ToolFailedFields, NoneAssumption
       DEF RaisedOK, Shape, Handled
  <2> QED BY <1>29, <2>1, <2>2 DEF FailToolFlat
<1>30. CASE KeepResultFlat
  BY <1>30, PrepareWorker, NoneAssumption
     DEF KeepResultFlat, RaisedOK, Shape, Handled
<1>31. CASE PrepareReceiptFlat
  <2>0. /\ job = "live" /\ w.pc = "prepare"
        /\ UNCHANGED <<body, wf, cp, probe, job, api, changed, sent, blame, count>>
    BY <1>31 DEF PrepareReceiptFlat
  <2>1. CASE /\ j.status # "stopped" /\ Mine \in j.slots
             /\ j' = ReceiptPrepared(Mine) /\ Goto("commit")
    BY <2>0, <2>1, GotoWorker, ReceiptPreparedFields, NoneAssumption
       DEF RaisedOK, Shape, Handled
  <2>2. CASE ~(j.status # "stopped" /\ Mine \in j.slots) /\ j' = j /\ Raise("error")
    <3>1. j' = j
      BY <2>0, <2>2
    <3>2. j.status = "running" => j.term = None
      BY <2>0, <2>2 DEF DecidedOK, PlaceOK, Asking, Tooling, Reducing
    <3>3. cp' = cp /\ "error" \in Handled
      BY <2>0 DEF Handled
    <3> QED BY <2>0, <2>2, <3>1, <3>2, <3>3, RaisedAfter
  <2> QED BY <1>31, <2>1, <2>2 DEF PrepareReceiptFlat
<1>32. CASE CommitReceiptFlat
  <2>0. /\ job = "live" /\ w.pc = "commit"
        /\ UNCHANGED <<body, wf, cp, probe, job, api, changed, sent, blame, count>>
    BY <1>32 DEF CommitReceiptFlat
  <2>1. CASE /\ j.status # "stopped" /\ Mine \in j.prep
             /\ j' = ReceiptCommitted(Mine, w.val) /\ ProbeLoop
    BY <2>0, <2>1, ProbeLoopWorker, ReceiptCommittedFields, NoneAssumption
       DEF RaisedOK, Shape, Handled
  <2>2. CASE ~(j.status # "stopped" /\ Mine \in j.prep) /\ j' = j /\ Raise("error")
    <3>1. j' = j
      BY <2>0, <2>2
    <3>2. j.status = "running" => j.term = None
      BY <2>0, <2>2 DEF DecidedOK, PlaceOK, Asking, Tooling, Reducing
    <3>3. cp' = cp /\ "error" \in Handled
      BY <2>0 DEF Handled
    <3> QED BY <2>0, <2>2, <3>1, <3>2, <3>3, RaisedAfter
  <2> QED BY <1>32, <2>1, <2>2 DEF CommitReceiptFlat
<1>33. CASE ReduceFlat
  <2>0. /\ job = "live" /\ w.pc = "node" /\ cp.node = "reduce"
        /\ UNCHANGED <<j, body, wf, cp, probe, job, api, changed, sent, blame, count>>
    BY <1>33 DEF ReduceFlat
  <2>1. CASE j.status # "running" /\ Raise(IF j.status = "stopped" THEN "cancel" ELSE "pause")
    BY <2>0, <2>1, RaiseWorker, NoneAssumption
       DEF RaisedOK, Shape, Handled
  <2>2. CASE /\ j.status = "running" /\ j.committed /\ j.redn = body[Red(cp.round)]
             /\ Checkpoint([cp EXCEPT !.node = "settle", !.red = j.redn, !.before = Snapshot])
    BY <2>0, <2>2, CheckpointWorker, NoneAssumption
       DEF RaisedOK, Shape, Handled
  <2>3. CASE /\ j.status = "running" /\ j.committed /\ j.redn # body[Red(cp.round)]
             /\ Raise("error")
    <3>1. j' = j
      BY <2>0, <2>3
    <3>2. j.status = "running" => j.term = None
      BY <2>0, <2>3 DEF DecidedOK, PlaceOK, Asking, Tooling, Reducing
    <3>3. cp' = cp /\ "error" \in Handled
      BY <2>0 DEF Handled
    <3> QED BY <2>0, <2>3, <3>1, <3>2, <3>3, RaisedAfter
  <2>4. CASE j.status = "running" /\ ~j.committed /\ Goto("gate")
    BY <2>0, <2>4, GotoWorker, NoneAssumption
       DEF RaisedOK, Shape, Handled
  <2>5. CASE /\ j.status = "running" /\ ~j.committed
             /\ ToOutcome([v |-> "dry", fresh |-> TRUE])
    BY <2>0, <2>5, OutcomeWorker, NoneAssumption
       DEF RaisedOK, Shape, Handled
  <2> QED BY <1>33, <2>1, <2>2, <2>3, <2>4, <2>5 DEF ReduceFlat
<1>34. CASE GateVerdictFlat
  <2>0. /\ job = "live" /\ w.pc = "gate"
        /\ UNCHANGED <<body, wf, cp, probe, job, api, changed, sent, blame, count>>
    BY <1>34 DEF GateVerdictFlat
  <2>1. CASE /\ j' = j \/ (j.status = "running" /\ j' = [j EXCEPT !.gated = @ \cup {cp.round}])
             /\ Goto("persist")
    BY <2>0, <2>1, GotoWorker, GatedFields, NoneAssumption
       DEF RaisedOK, Shape, Handled
  <2>2. CASE ~(j.status = "running" /\ NoPending /\ j.open) /\ j' = j /\ Raise("error")
    <3>1. j' = j
      BY <2>0, <2>2
    <3>2. j.status = "running" => j.term = None
      BY <2>0, <2>2 DEF DecidedOK, PlaceOK, Asking, Tooling, Reducing
    <3>3. cp' = cp /\ "error" \in Handled
      BY <2>0 DEF Handled
    <3> QED BY <2>0, <2>2, <3>1, <3>2, <3>3, RaisedAfter
  <2> QED BY <1>34, <2>1, <2>2 DEF GateVerdictFlat
<1>35. CASE PersistReductionFlat
  BY <1>35, OutcomeWorker, NoneAssumption
     DEF PersistReductionFlat, RaisedOK, Shape, Handled
<1>36. CASE KeepReductionFlat
  <2>0. /\ job = "live" /\ w.pc = "rkeep"
        /\ UNCHANGED <<j, wf, cp, probe, job, api, changed, sent, blame, count>>
    BY <1>36 DEF KeepReductionFlat
  <2>1. CASE j.committed /\ j.redn # w.val /\ body' = body /\ Raise("error")
    <3>1. j' = j
      BY <2>0, <2>1
    <3>2. j.status = "running" => j.term = None
      BY <2>0, <2>1 DEF DecidedOK, PlaceOK, Asking, Tooling, Reducing
    <3>3. cp' = cp /\ "error" \in Handled
      BY <2>0 DEF Handled
    <3> QED BY <2>0, <2>1, <3>1, <3>2, <3>3, RaisedAfter
  <2>2. CASE body' = Put(body, Red(cp.round), w.val) /\ Goto("reduce")
    BY <2>0, <2>2, GotoWorker, NoneAssumption
       DEF RaisedOK, Shape, Handled
  <2> QED BY <1>36, <2>1, <2>2 DEF KeepReductionFlat
<1>37. CASE CommitReductionFlat
  <2>0. /\ job = "live" /\ w.pc = "reduce"
        /\ UNCHANGED <<body, wf, cp, probe, job, api, changed, sent, blame, count>>
    BY <1>37 DEF CommitReductionFlat
  <2>1. CASE /\ j.status = "running" /\ NoPending /\ j.open /\ j' = ReductionCommitted(w.val)
             /\ Checkpoint([cp EXCEPT !.node = "settle", !.red = w.val, !.before = Snapshot])
    BY <2>0, <2>1, CheckpointWorker, ReductionCommittedFields, NoneAssumption
       DEF RaisedOK, Shape, Handled
  <2>2. CASE ~(j.status = "running" /\ NoPending /\ j.open) /\ j' = j /\ Raise("error")
    <3>1. j' = j
      BY <2>0, <2>2
    <3>2. j.status = "running" => j.term = None
      BY <2>0, <2>2 DEF DecidedOK, PlaceOK, Asking, Tooling, Reducing
    <3>3. cp' = cp /\ "error" \in Handled
      BY <2>0 DEF Handled
    <3> QED BY <2>0, <2>2, <3>1, <3>2, <3>3, RaisedAfter
  <2> QED BY <1>37, <2>1, <2>2 DEF CommitReductionFlat
<1>38. CASE SettleFlat
  <2>0. /\ job = "live" /\ w.pc = "node" /\ cp.node = "settle"
        /\ UNCHANGED <<body, wf, cp, probe, job, api, changed, sent, blame, count>>
    BY <1>38 DEF SettleFlat
  <2>1. CASE /\ j.settled <= cp.round /\ j.status # "stopped" /\ NoPending /\ j.open
             /\ j' = RoundSettled(cp.red, Decision) /\ Goto("after")
    BY <2>0, <2>1, GotoWorker, RoundSettledFields, NoneAssumption
       DEF RaisedOK, Shape, Handled
  <2>2. CASE /\ j.settled <= cp.round /\ ~(j.status # "stopped" /\ NoPending /\ j.open)
             /\ j' = j /\ Raise("error")
    <3>1. j' = j
      BY <2>0, <2>2
    <3>2. j.status = "running" => j.term = None
      BY <2>0, <2>2 DEF CkptOK, CkptFits, JournalOK, NoPending, PendingOK, CallPending,
         ToolPending, Asking, Tooling, Waiting
    <3>3. cp' = cp /\ "error" \in Handled
      BY <2>0 DEF Handled
    <3> QED BY <2>0, <2>2, <3>1, <3>2, <3>3, RaisedAfter
  <2>3. CASE ~(j.settled <= cp.round) /\ j' = j /\ Goto("after")
    BY <2>0, <2>3, GotoWorker, NoneAssumption
       DEF RaisedOK, Shape, Handled
  <2> QED BY <1>38, <2>1, <2>2, <2>3 DEF SettleFlat
<1>39. CASE AfterSettleFlat
  BY <1>39, RaiseWorker, CheckpointWorker, NoneAssumption
     DEF AfterSettleFlat, RaisedOK, Shape, Handled
<1>40. CASE SynthesizeFlat
  <2>0. /\ job = "live" /\ w.pc = "node" /\ cp.node = "synthesize"
        /\ UNCHANGED <<j, body, wf, cp, probe, job, api, changed, sent, blame, count>>
    BY <1>40 DEF SynthesizeFlat
  <2>1. CASE j.status # "running" /\ Raise(IF j.status = "stopped" THEN "cancel" ELSE "pause")
    BY <2>0, <2>1, RaiseWorker, NoneAssumption
       DEF RaisedOK, Shape, Handled
  <2>2. CASE j.status = "running" /\ ToStop(cp.reason, TRUE)
    BY <2>0, <2>2, StopWorker, NoneAssumption, ZenonT(60)
       DEF RaisedOK, Shape, Handled
  <2> QED BY <1>40, <2>1, <2>2 DEF SynthesizeFlat
<1>41. CASE StopFlat
  <2>0. /\ job = "live" /\ w.pc = "stop"
        /\ UNCHANGED <<body, wf, cp, probe, api, changed, sent, count>>
    BY <1>41 DEF StopFlat
  <2>1. CASE /\ CanStop(w.reason) /\ j' = Stopped(w.reason, w.report)
             /\ ToFresh("ending") /\ UNCHANGED <<job, blame>>
    BY <2>0, <2>1, FreshWorker, StoppedFields, NoneAssumption
       DEF RaisedOK, Shape, Handled
  <2>2. CASE ~CanStop(w.reason) /\ w.exc = None /\ UNCHANGED <<j, job, blame>> /\ Raise("error")
    <3>1. j' = j
      BY <2>0, <2>2
    <3>2. j.status = "running" => j.term = None
      BY <2>0, <2>2 DEF CanStop, RaisedOK, DecidedOK, NoPending, PendingOK, CallPending,
         ToolPending, Asking, Tooling, Waiting
    <3>3. cp' = cp /\ "error" \in Handled
      BY <2>0 DEF Handled
    <3> QED BY <2>0, <2>2, <3>1, <3>2, <3>3, RaisedAfter
  <2>3. CASE /\ ~CanStop(w.reason) /\ w.exc = "budget" /\ UNCHANGED <<j, job, blame>>
             /\ ToBare
    <3>1. /\ w'.pc = "raised" /\ w'.exc = "budget" /\ w'.bare
          /\ j' = j /\ cp' = cp
      BY <2>0, <2>3, BareWorker DEF Shape
    <3>2. w.reason = "budget_exhausted" /\ j.term = None
      BY <2>0, <2>3, NoneAssumption DEF RaisedOK, ReasonOf, Handled
    <3>3. NoPending
      BY <2>0 DEF NoPending, PendingOK, CallPending, ToolPending, Asking, Tooling, Waiting
    <3>4. j.status # "running"
      BY <2>3, <3>2, <3>3 DEF CanStop
    <3> QED BY <2>0, <2>3, <3>1, <3>4, NoneAssumption DEF RaisedOK, Handled
  <2>4. CASE j' = j /\ w' = Off /\ job' = "failed" /\ blame' = blame \cup {"race"}
    BY <2>0, <2>4, OffWorker, NoneAssumption
       DEF RaisedOK, Shape, Handled
  <2> QED BY <1>41, <2>1, <2>2, <2>3, <2>4 DEF StopFlat
<1>42. CASE HandlePauseFlat
  BY <1>42, HandlePauseMoves, NoneAssumption
     DEF RaisedOK, Shape, Handled
<1>43. CASE HandleCancelFlat
  BY <1>43, FreshWorker, NoneAssumption
     DEF HandleCancelFlat, RaisedOK, Shape, Handled
<1>44. CASE HandleStopFlat
  <2>0. /\ job = "live" /\ w.pc = "raised" /\ w.exc \in {"witness", "budget", "error"}
        /\ UNCHANGED <<j, body, wf, cp, probe, job, api, changed, sent, blame, count>>
    BY <1>44 DEF HandleStopFlat
  <2>1. CASE j.status # "running" /\ Raise(IF j.status = "stopped" THEN "cancel" ELSE "pause")
    BY <2>0, <2>1, RaiseWorker, NoneAssumption
       DEF RaisedOK, Shape, Handled
  <2>2. CASE /\ j.status = "running"
             /\ \E r, why :
                   /\ ToStop(why, r)
                   /\ why = CASE w.exc = "witness" -> "state_witness_changed"
                             [] w.exc = "budget" -> "budget_exhausted"
                             [] OTHER -> "failed"
                   /\ /\ w.exc = "budget" /\ ~w.bare /\ j.settled > 0
                      /\ j.redn = body[Red(j.settled - 1)]
                      => r
    <3>1. PICK r : ToStop(ReasonOf(w.exc), r) /\ (w.exc = "budget" /\ ~w.bare /\ j.settled > 0
                      /\ j.redn = body[Red(j.settled - 1)] => r)
      BY <2>2 DEF ReasonOf
    <3>2. /\ w'.pc = "stop" /\ w'.exc = w.exc /\ w'.bare = w.bare
          /\ w'.reason = ReasonOf(w.exc) /\ w'.report = r
      BY <3>1, StopWorker DEF Shape
    <3>3. w.exc = "budget" /\ j.settled > 0 => j.redn = body[Red(j.settled - 1)]
      BY DEF RaisedOK, CkptOK, CkptFits, Kept, ReductionStands
    <3>4. w.exc \in Handled /\ w.exc # None /\ cp' = cp /\ j' = j
      BY <2>0, NoneAssumption DEF Handled
    <3>5. w.exc = "budget" /\ j.settled > 0 => r \/ w.bare
      BY <3>1, <3>3
    <3>6. j.term = None /\ ~w.bare
      BY <2>0, <2>2, <3>4 DEF RaisedOK
    <3> QED BY <2>0, <3>2, <3>4, <3>5, <3>6, NoneAssumption DEF RaisedOK, Handled
  <2> QED BY <1>44, <2>1, <2>2 DEF HandleStopFlat
<1>45. CASE CrashFlat
  BY <1>45, OffWorker, NoneAssumption
     DEF CrashFlat, RaisedOK, Shape, Handled
<1>46. CASE PauseFlat
  BY <1>46, PauseMoves, NoneAssumption
     DEF RaisedOK, Shape, Handled
<1>47. CASE ResumeFlat
  <2>0. /\ j.status = "paused" /\ api = "idle"
        /\ UNCHANGED <<body, wf, cp, probe, w, job, changed, sent, blame, count>>
    BY <1>47 DEF ResumeFlat
  <2>1. CASE changed /\ j' = Stopped("state_witness_changed", FALSE) /\ api' = api
    BY <2>0, <2>1, StoppedFields, NoneAssumption
       DEF RaisedOK, Shape, Handled
  <2>2. CASE /\ job \notin {"queued", "live"} /\ j' = [j EXCEPT !.status = "running"]
             /\ api' = "launching"
    <3>1. w.pc = "off" /\ w' = w /\ cp' = cp
      BY <2>0, <2>2 DEF PlaceOK
    <3>2. w.exc = None /\ ~w.bare
      BY <3>1, NoneAssumption DEF RaisedOK
    <3> QED BY <3>1, <3>2, NoneAssumption DEF RaisedOK
  <2> QED BY <1>47, <2>1, <2>2 DEF ResumeFlat
<1>48. CASE LaunchFlat
  <2>0. /\ api = "launching"
        /\ api' = "idle"
        /\ UNCHANGED <<body, wf, cp, probe, w, changed, sent>>
    BY <1>48 DEF LaunchFlat
  <2>1. CASE job' = "queued" /\ UNCHANGED <<j, blame, count>>
    BY <2>0, <2>1, NoneAssumption
       DEF RaisedOK, Shape, Handled
  <2>2. CASE /\ j.status = "stopped" /\ j' = j
             /\ blame' = blame \cup {"launch"} /\ UNCHANGED <<job, count>>
    BY <2>0, <2>2, NoneAssumption
       DEF RaisedOK, Shape, Handled
  <2>3. CASE /\ j.status # "stopped" /\ j' = Stopped("failed", FALSE)
             /\ blame' = blame \cup {"launch"} /\ UNCHANGED <<job, count>>
    BY <2>0, <2>3, StoppedFields, NoneAssumption
       DEF RaisedOK, Shape, Handled
  <2>4. CASE /\ Room /\ count' = [count EXCEPT !.crashes = @ + 1]
             /\ blame' = blame \cup {"api"} /\ UNCHANGED <<j, job>>
    BY <2>0, <2>4, NoneAssumption
       DEF RaisedOK, Shape, Handled
  <2> QED BY <1>48, <2>1, <2>2, <2>3, <2>4 DEF LaunchFlat
<1>49. CASE CancelFlat
  BY <1>49, CancelMoves, NoneAssumption
     DEF RaisedOK, Shape, Handled
<1>50. CASE CancelJobFlat
  BY <1>50, OffWorker, NoneAssumption
     DEF CancelJobFlat, RaisedOK, Shape, Handled
<1>51. CASE ExtendBudgetFlat
  BY <1>51, ExtendBudgetMoves, NoneAssumption
     DEF RaisedOK, Shape, Handled
<1>52. CASE UNCHANGED <<j, w, cp>>
  BY <1>52, NoneAssumption, SMTT(60) DEF RaisedOK, Shape, Handled
<1>53. QED
  BY NextIsFlat, <1>1, <1>2, <1>3, <1>4, <1>5, <1>6, <1>7, <1>8, <1>9, <1>10, <1>11, <1>12,
         <1>13, <1>14, <1>15, <1>16, <1>17, <1>18, <1>19, <1>20, <1>21, <1>22, <1>23, <1>24,
         <1>25, <1>26, <1>27, <1>28, <1>29, <1>30, <1>31, <1>32, <1>33, <1>34, <1>35, <1>36,
         <1>37, <1>38, <1>39, <1>40, <1>41, <1>42, <1>43, <1>44, <1>45, <1>46, <1>47, <1>48,
         <1>49, <1>50, <1>51, <1>52
     DEF NextFlat, vars, RerunFlat, ChangeDataFlat

\* A run that ends by its own decision or by its budget keeps its report.
LEMMA EndStep ==
    ASSUME Shape, JournalOK, RaisedOK, EndOK, [Next]_vars
    PROVE  EndOK'
<1>1. CASE RecoverCallFlat
  <2>1. EndStays
    BY <1>1, SettlingKeepsEnd DEF RecoverCallFlat, CallSettles, EndStays, Shape
  <2> QED BY <2>1 DEF EndOK, ReportKept, EndStays
<1>2. CASE RecoverToolFlat
  <2>1. EndStays
    BY <1>2, SlotsKeepEnd DEF RecoverToolFlat, SlotMoves, EndStays, Shape
  <2> QED BY <2>1 DEF EndOK, ReportKept, EndStays
<1>3. CASE EnterFlat
  <2>0. /\ job = "live" /\ w.pc = "enter"
        /\ UNCHANGED <<body, wf, cp, probe, job, api, changed, sent, blame, count>>
    BY <1>3 DEF EnterFlat
  <2>1. CASE /\ j.status = "pause_requested" /\ j' = [j EXCEPT !.status = "paused"]
             /\ ToFresh("ending")
    BY <2>0, <2>1, StatusFields, NoneAssumption
       DEF EndOK, ReportKept, Shape
  <2>2. CASE j.status \in {"stopped", "paused"} /\ j' = j /\ ToFresh("ending")
    BY <2>0, <2>2, NoneAssumption
       DEF EndOK, ReportKept, Shape
  <2>3. CASE /\ j.status = "running" /\ j' = Stopped("state_witness_changed", FALSE)
             /\ ToFresh("ending")
    <3>1. j'.status = "stopped" /\ j'.reason = "state_witness_changed"
      BY <2>0, <2>3, StoppedFields DEF Shape
    <3> QED BY <3>1 DEF EndOK, ReportKept, Natural
  <2>4. CASE j.status \notin {"pause_requested", "stopped", "paused"} /\ j' = j /\ Goto("node")
    BY <2>0, <2>4, NoneAssumption
       DEF EndOK, ReportKept, Shape
  <2> QED BY <1>3, <2>1, <2>2, <2>3, <2>4 DEF EnterFlat
<1>4. CASE OpenRoundFlat
  BY <1>4, RoundStartedFields, NoneAssumption
     DEF OpenRoundFlat, EndOK, ReportKept, Shape
<1>5. CASE StartCallFlat
  BY <1>5, CallStartedFields, NoneAssumption
     DEF StartCallFlat, EndOK, ReportKept, Shape
<1>6. CASE SendRefusedFlat
  BY <1>6, CallRejectedFields, NoneAssumption
     DEF SendRefusedFlat, EndOK, ReportKept, Shape
<1>7. CASE AnswerUnknownFlat
  BY <1>7, CallUncertainFields, NoneAssumption
     DEF AnswerUnknownFlat, EndOK, ReportKept, Shape
<1>8. CASE AnswerMalformedFlat
  BY <1>8, CallRejectedFields, NoneAssumption
     DEF AnswerMalformedFlat, EndOK, ReportKept, Shape
<1>9. CASE AnswerUnavailableFlat
  BY <1>9, CallRejectedFields, NoneAssumption
     DEF AnswerUnavailableFlat, EndOK, ReportKept, Shape
<1>10. CASE CompleteCallFlat
  BY <1>10, CallCompletedFields, NoneAssumption
     DEF CompleteCallFlat, EndOK, ReportKept, Shape
<1>11. CASE StartToolFlat
  BY <1>11, ToolStartedFields, NoneAssumption
     DEF StartToolFlat, EndOK, ReportKept, Shape
<1>12. CASE FailToolFlat
  BY <1>12, ToolFailedFields, NoneAssumption
     DEF FailToolFlat, EndOK, ReportKept, Shape
<1>13. CASE PrepareReceiptFlat
  BY <1>13, ReceiptPreparedFields, NoneAssumption
     DEF PrepareReceiptFlat, EndOK, ReportKept, Shape
<1>14. CASE CommitReceiptFlat
  BY <1>14, ReceiptCommittedFields, NoneAssumption
     DEF CommitReceiptFlat, EndOK, ReportKept, Shape
<1>15. CASE GateVerdictFlat
  <2>0. /\ job = "live" /\ w.pc = "gate"
        /\ UNCHANGED <<body, wf, cp, probe, job, api, changed, sent, blame, count>>
    BY <1>15 DEF GateVerdictFlat
  <2>1. CASE /\ j' = j \/ (j.status = "running" /\ j' = [j EXCEPT !.gated = @ \cup {cp.round}])
             /\ Goto("persist")
    BY <2>0, <2>1, GatedFields, NoneAssumption
       DEF EndOK, ReportKept, Shape
  <2>2. CASE ~(j.status = "running" /\ NoPending /\ j.open) /\ j' = j /\ Raise("error")
    BY <2>0, <2>2, NoneAssumption
       DEF EndOK, ReportKept, Shape
  <2> QED BY <1>15, <2>1, <2>2 DEF GateVerdictFlat
<1>16. CASE CommitReductionFlat
  BY <1>16, ReductionCommittedFields, NoneAssumption
     DEF CommitReductionFlat, EndOK, ReportKept, Shape
<1>17. CASE SettleFlat
  <2>0. /\ job = "live" /\ w.pc = "node" /\ cp.node = "settle"
        /\ UNCHANGED <<body, wf, cp, probe, job, api, changed, sent, blame, count>>
    BY <1>17 DEF SettleFlat
  <2>1. CASE /\ j.settled <= cp.round /\ j.status # "stopped" /\ NoPending /\ j.open
             /\ j' = RoundSettled(cp.red, Decision) /\ Goto("after")
    BY <2>0, <2>1, RoundSettledFields, NoneAssumption
       DEF EndOK, ReportKept, Shape, NoPending
  <2>2. CASE /\ j.settled <= cp.round /\ ~(j.status # "stopped" /\ NoPending /\ j.open)
             /\ j' = j /\ Raise("error")
    BY <2>0, <2>2, NoneAssumption
       DEF EndOK, ReportKept, Shape
  <2>3. CASE ~(j.settled <= cp.round) /\ j' = j /\ Goto("after")
    BY <2>0, <2>3, NoneAssumption
       DEF EndOK, ReportKept, Shape
  <2> QED BY <1>17, <2>1, <2>2, <2>3 DEF SettleFlat
<1>18. CASE StopFlat
  <2>0. /\ job = "live" /\ w.pc = "stop"
        /\ UNCHANGED <<body, wf, cp, probe, api, changed, sent, count>>
    BY <1>18 DEF StopFlat
  <2>1. CASE /\ CanStop(w.reason) /\ j' = Stopped(w.reason, w.report)
             /\ ToFresh("ending") /\ UNCHANGED <<job, blame>>
    <3>1. /\ j'.status = "stopped" /\ j'.reason = w.reason
          /\ j'.report = w.report /\ j'.settled = j.settled
      BY <2>1, StoppedFields DEF Shape
    <3>2. CASE w.exc = None
      BY <2>0, <3>1, <3>2 DEF EndOK, ReportKept, RaisedOK
    <3>3. CASE w.exc # None
      <4>1. w.exc \in Handled /\ w.reason = ReasonOf(w.exc)
        BY <2>0, <3>3 DEF RaisedOK
      <4>2. w.reason \in Natural => w.exc = "budget" /\ j.status = "running"
        BY <2>1, <4>1 DEF ReasonOf, Natural, Handled, CanStop
      <4>3. w.reason \in Natural /\ j.settled > 0 => w.report
        BY <2>0, <3>3, <4>2 DEF RaisedOK
      <4> QED BY <3>1, <4>3 DEF EndOK, ReportKept
    <3> QED BY <3>2, <3>3
  <2>2. CASE ~CanStop(w.reason) /\ w.exc = None /\ UNCHANGED <<j, job, blame>> /\ Raise("error")
    BY <2>0, <2>2, NoneAssumption
       DEF EndOK, ReportKept, Shape
  <2>3. CASE /\ ~CanStop(w.reason) /\ w.exc = "budget" /\ UNCHANGED <<j, job, blame>>
             /\ ToBare
    BY <2>0, <2>3, NoneAssumption
       DEF EndOK, ReportKept, Shape
  <2>4. CASE j' = j /\ w' = Off /\ job' = "failed" /\ blame' = blame \cup {"race"}
    BY <2>0, <2>4, NoneAssumption
       DEF EndOK, ReportKept, Shape
  <2> QED BY <1>18, <2>1, <2>2, <2>3, <2>4 DEF StopFlat
<1>19. CASE HandlePauseFlat
  BY <1>19, HandlePauseMoves, NoneAssumption
     DEF EndOK, ReportKept, Shape
<1>20. CASE PauseFlat
  BY <1>20, PauseMoves, NoneAssumption
     DEF EndOK, ReportKept, Shape
<1>21. CASE ResumeFlat
  <2>0. /\ j.status = "paused" /\ api = "idle"
        /\ UNCHANGED <<body, wf, cp, probe, w, job, changed, sent, blame, count>>
    BY <1>21 DEF ResumeFlat
  <2>1. CASE changed /\ j' = Stopped("state_witness_changed", FALSE) /\ api' = api
    <3>1. j'.status = "stopped" /\ j'.reason = "state_witness_changed"
      BY <2>0, <2>1, StoppedFields DEF Shape
    <3> QED BY <3>1 DEF EndOK, ReportKept, Natural
  <2>2. CASE /\ job \notin {"queued", "live"} /\ j' = [j EXCEPT !.status = "running"]
             /\ api' = "launching"
    BY <2>0, <2>2, StatusFields, NoneAssumption
       DEF EndOK, ReportKept, Shape
  <2> QED BY <1>21, <2>1, <2>2 DEF ResumeFlat
<1>22. CASE LaunchFlat
  <2>0. /\ api = "launching"
        /\ api' = "idle"
        /\ UNCHANGED <<body, wf, cp, probe, w, changed, sent>>
    BY <1>22 DEF LaunchFlat
  <2>1. CASE job' = "queued" /\ UNCHANGED <<j, blame, count>>
    BY <2>0, <2>1, NoneAssumption
       DEF EndOK, ReportKept, Shape
  <2>2. CASE /\ j.status = "stopped" /\ j' = j
             /\ blame' = blame \cup {"launch"} /\ UNCHANGED <<job, count>>
    BY <2>0, <2>2, NoneAssumption
       DEF EndOK, ReportKept, Shape
  <2>3. CASE /\ j.status # "stopped" /\ j' = Stopped("failed", FALSE)
             /\ blame' = blame \cup {"launch"} /\ UNCHANGED <<job, count>>
    <3>1. j'.status = "stopped" /\ j'.reason = "failed"
      BY <2>0, <2>3, StoppedFields DEF Shape
    <3> QED BY <3>1 DEF EndOK, ReportKept, Natural
  <2>4. CASE /\ Room /\ count' = [count EXCEPT !.crashes = @ + 1]
             /\ blame' = blame \cup {"api"} /\ UNCHANGED <<j, job>>
    BY <2>0, <2>4, NoneAssumption
       DEF EndOK, ReportKept, Shape
  <2> QED BY <1>22, <2>1, <2>2, <2>3, <2>4 DEF LaunchFlat
<1>23. CASE CancelFlat
  <2>1. j'.status = "stopped" /\ j'.reason = "cancelled"
    BY <1>23, StoppedFields DEF CancelFlat, Shape
  <2> QED BY <2>1 DEF EndOK, ReportKept, Natural
<1>24. CASE ExtendBudgetFlat
  BY <1>24, ExtendBudgetMoves, NoneAssumption
     DEF EndOK, ReportKept, Shape
<1>25. CASE UNCHANGED <<j>>
  BY <1>25, NoneAssumption, SMTT(60) DEF EndOK, ReportKept, Shape
<1>26. QED
  BY NextIsFlat, <1>1, <1>2, <1>3, <1>4, <1>5, <1>6, <1>7, <1>8, <1>9, <1>10, <1>11, <1>12,
         <1>13, <1>14, <1>15, <1>16, <1>17, <1>18, <1>19, <1>20, <1>21, <1>22, <1>23, <1>24,
         <1>25, ZenonT(60)
     DEF NextFlat, vars, ClaimFlat, VerifyFlat, RecoveredFlat, WriteCheckpointFlat,
         EndAttemptFlat, OrientFlat, GenerateFlat, SendFlat, AnsweredFlat, KeepAnswerFlat,
         ScheduleFlat, PassNodeFlat, ExecuteFlat, NextProbeFlat, AskModelFlat, UseToolFlat,
         RunToolFlat, KeepResultFlat, ReduceFlat, PersistReductionFlat, KeepReductionFlat,
         AfterSettleFlat, SynthesizeFlat, HandleCancelFlat, HandleStopFlat, CrashFlat,
         RerunFlat, CancelJobFlat, ChangeDataFlat

\* A run that stands still has a job to move it, or a fault stopped it.
LEMMA JobStep ==
    ASSUME Shape, PlaceOK, RaisedOK, JobOK, [Next]_vars
    PROVE  JobOK'
<1>1. CASE ClaimFlat
  BY <1>1
     DEF ClaimFlat, JobOK, Shape
<1>2. CASE VerifyFlat
  BY <1>2
     DEF VerifyFlat, JobOK, Shape
<1>3. CASE RecoverCallFlat
  <2>1. /\ api' = api /\ blame \subseteq blame'
        /\ \/ job' = job
           \/ job' = "failed" /\ "race" \in blame'
    BY <1>3 DEF RecoverCallFlat
  <2>2. EndStays
    BY <1>3, SettlingKeepsEnd DEF RecoverCallFlat, CallSettles, EndStays, Shape
  <2> QED BY <1>3, <2>1, <2>2 DEF JobOK, EndStays, RecoverCallFlat
<1>4. CASE RecoverToolFlat
  <2>1. /\ api' = api /\ blame \subseteq blame'
        /\ \/ job' = job
           \/ job' = "failed" /\ "race" \in blame'
    BY <1>4 DEF RecoverToolFlat
  <2>2. EndStays
    BY <1>4, SlotsKeepEnd DEF RecoverToolFlat, SlotMoves, EndStays, Shape
  <2> QED BY <1>4, <2>1, <2>2 DEF JobOK, EndStays, RecoverToolFlat
<1>5. CASE EnterFlat
  <2>0. /\ job = "live" /\ w.pc = "enter"
        /\ UNCHANGED <<body, wf, cp, probe, job, api, changed, sent, blame, count>>
    BY <1>5 DEF EnterFlat
  <2>1. CASE /\ j.status = "pause_requested" /\ j' = [j EXCEPT !.status = "paused"]
             /\ ToFresh("ending")
    BY <2>0, <2>1, StatusFields
       DEF JobOK, Shape
  <2>2. CASE j.status \in {"stopped", "paused"} /\ j' = j /\ ToFresh("ending")
    BY <2>0, <2>2
       DEF JobOK, Shape
  <2>3. CASE /\ j.status = "running" /\ j' = Stopped("state_witness_changed", FALSE)
             /\ ToFresh("ending")
    <3>1. j'.status = "stopped"
      BY <2>0, <2>3, StoppedFields DEF Shape
    <3> QED BY <2>0, <2>3, <3>1 DEF JobOK
  <2>4. CASE j.status \notin {"pause_requested", "stopped", "paused"} /\ j' = j /\ Goto("node")
    BY <2>0, <2>4
       DEF JobOK, Shape
  <2> QED BY <1>5, <2>1, <2>2, <2>3, <2>4 DEF EnterFlat
<1>6. CASE EndAttemptFlat
  BY <1>6
     DEF EndAttemptFlat, JobOK, Shape, RaisedOK
<1>7. CASE OpenRoundFlat
  BY <1>7, RoundStartedFields
     DEF OpenRoundFlat, JobOK, Shape
<1>8. CASE StartCallFlat
  BY <1>8, CallStartedFields
     DEF StartCallFlat, JobOK, Shape
<1>9. CASE SendRefusedFlat
  BY <1>9, CallRejectedFields
     DEF SendRefusedFlat, JobOK, Shape
<1>10. CASE AnswerUnknownFlat
  BY <1>10, CallUncertainFields
     DEF AnswerUnknownFlat, JobOK, Shape
<1>11. CASE AnswerMalformedFlat
  BY <1>11, CallRejectedFields
     DEF AnswerMalformedFlat, JobOK, Shape
<1>12. CASE AnswerUnavailableFlat
  BY <1>12, CallRejectedFields
     DEF AnswerUnavailableFlat, JobOK, Shape
<1>13. CASE CompleteCallFlat
  BY <1>13, CallCompletedFields
     DEF CompleteCallFlat, JobOK, Shape
<1>14. CASE StartToolFlat
  BY <1>14, ToolStartedFields
     DEF StartToolFlat, JobOK, Shape
<1>15. CASE FailToolFlat
  BY <1>15, ToolFailedFields
     DEF FailToolFlat, JobOK, Shape
<1>16. CASE PrepareReceiptFlat
  BY <1>16, ReceiptPreparedFields
     DEF PrepareReceiptFlat, JobOK, Shape
<1>17. CASE CommitReceiptFlat
  BY <1>17, ReceiptCommittedFields
     DEF CommitReceiptFlat, JobOK, Shape
<1>18. CASE GateVerdictFlat
  BY <1>18, GatedFields
     DEF GateVerdictFlat, JobOK, Shape
<1>19. CASE CommitReductionFlat
  BY <1>19, ReductionCommittedFields
     DEF CommitReductionFlat, JobOK, Shape
<1>20. CASE SettleFlat
  <2>0. /\ job = "live" /\ w.pc = "node" /\ cp.node = "settle"
        /\ UNCHANGED <<body, wf, cp, probe, job, api, changed, sent, blame, count>>
    BY <1>20 DEF SettleFlat
  <2>1. CASE /\ j.settled <= cp.round /\ j.status # "stopped" /\ NoPending /\ j.open
             /\ j' = RoundSettled(cp.red, Decision) /\ Goto("after")
    BY <2>0, <2>1, RoundSettledFields
       DEF JobOK, Shape
  <2>2. CASE /\ j.settled <= cp.round /\ ~(j.status # "stopped" /\ NoPending /\ j.open)
             /\ j' = j /\ Raise("error")
    BY <2>0, <2>2
       DEF JobOK, Shape
  <2>3. CASE ~(j.settled <= cp.round) /\ j' = j /\ Goto("after")
    BY <2>0, <2>3
       DEF JobOK, Shape
  <2> QED BY <1>20, <2>1, <2>2, <2>3 DEF SettleFlat
<1>21. CASE StopFlat
  <2>0. /\ job = "live" /\ w.pc = "stop"
        /\ UNCHANGED <<body, wf, cp, probe, api, changed, sent, count>>
    BY <1>21 DEF StopFlat
  <2>1. CASE /\ CanStop(w.reason) /\ j' = Stopped(w.reason, w.report)
             /\ ToFresh("ending") /\ UNCHANGED <<job, blame>>
    <3>1. j'.status = "stopped"
      BY <2>0, <2>1, StoppedFields DEF Shape
    <3> QED BY <2>0, <2>1, <3>1 DEF JobOK
  <2>2. CASE ~CanStop(w.reason) /\ w.exc = None /\ UNCHANGED <<j, job, blame>> /\ Raise("error")
    BY <2>0, <2>2
       DEF JobOK, Shape
  <2>3. CASE /\ ~CanStop(w.reason) /\ w.exc = "budget" /\ UNCHANGED <<j, job, blame>>
             /\ ToBare
    BY <2>0, <2>3
       DEF JobOK, Shape
  <2>4. CASE j' = j /\ w' = Off /\ job' = "failed" /\ blame' = blame \cup {"race"}
    BY <2>0, <2>4
       DEF JobOK, Shape
  <2> QED BY <1>21, <2>1, <2>2, <2>3, <2>4 DEF StopFlat
<1>22. CASE HandlePauseFlat
  BY <1>22, HandlePauseMoves
     DEF JobOK, Shape
<1>23. CASE CrashFlat
  BY <1>23
     DEF CrashFlat, JobOK, Shape
<1>24. CASE RerunFlat
  BY <1>24
     DEF RerunFlat, JobOK, Shape
<1>25. CASE PauseFlat
  BY <1>25, PauseMoves
     DEF JobOK, Shape
<1>26. CASE ResumeFlat
  <2>0. /\ j.status = "paused" /\ api = "idle"
        /\ UNCHANGED <<body, wf, cp, probe, w, job, changed, sent, blame, count>>
    BY <1>26 DEF ResumeFlat
  <2>1. CASE changed /\ j' = Stopped("state_witness_changed", FALSE) /\ api' = api
    <3>1. j'.status = "stopped"
      BY <2>0, <2>1, StoppedFields DEF Shape
    <3> QED BY <2>0, <2>1, <3>1 DEF JobOK
  <2>2. CASE /\ job \notin {"queued", "live"} /\ j' = [j EXCEPT !.status = "running"]
             /\ api' = "launching"
    BY <2>0, <2>2, StatusFields
       DEF JobOK, Shape
  <2> QED BY <1>26, <2>1, <2>2 DEF ResumeFlat
<1>27. CASE LaunchFlat
  <2>0. /\ api = "launching"
        /\ api' = "idle"
        /\ UNCHANGED <<body, wf, cp, probe, w, changed, sent>>
    BY <1>27 DEF LaunchFlat
  <2>1. CASE job' = "queued" /\ UNCHANGED <<j, blame, count>>
    BY <2>0, <2>1
       DEF JobOK, Shape
  <2>2. CASE /\ j.status = "stopped" /\ j' = j
             /\ blame' = blame \cup {"launch"} /\ UNCHANGED <<job, count>>
    BY <2>0, <2>2
       DEF JobOK, Shape
  <2>3. CASE /\ j.status # "stopped" /\ j' = Stopped("failed", FALSE)
             /\ blame' = blame \cup {"launch"} /\ UNCHANGED <<job, count>>
    <3>1. j'.status = "stopped"
      BY <2>0, <2>3, StoppedFields DEF Shape
    <3> QED BY <2>0, <2>3, <3>1 DEF JobOK
  <2>4. CASE /\ Room /\ count' = [count EXCEPT !.crashes = @ + 1]
             /\ blame' = blame \cup {"api"} /\ UNCHANGED <<j, job>>
    BY <2>0, <2>4
       DEF JobOK, Shape
  <2> QED BY <1>27, <2>1, <2>2, <2>3, <2>4 DEF LaunchFlat
<1>28. CASE CancelFlat
  BY <1>28, CancelMoves
     DEF JobOK, Shape
<1>29. CASE CancelJobFlat
  BY <1>29
     DEF CancelJobFlat, JobOK, Shape
<1>30. CASE ExtendBudgetFlat
  BY <1>30, ExtendBudgetMoves
     DEF JobOK, Shape
<1>31. CASE UNCHANGED <<j, job, api, blame>>
  BY <1>31, SMTT(60) DEF JobOK, Shape
<1>32. QED
  BY NextIsFlat, <1>1, <1>2, <1>3, <1>4, <1>5, <1>6, <1>7, <1>8, <1>9, <1>10, <1>11, <1>12,
         <1>13, <1>14, <1>15, <1>16, <1>17, <1>18, <1>19, <1>20, <1>21, <1>22, <1>23, <1>24,
         <1>25, <1>26, <1>27, <1>28, <1>29, <1>30, <1>31, ZenonT(60)
     DEF NextFlat, vars, RecoveredFlat, WriteCheckpointFlat, OrientFlat, GenerateFlat,
         SendFlat, AnsweredFlat, KeepAnswerFlat, ScheduleFlat, PassNodeFlat, ExecuteFlat,
         NextProbeFlat, AskModelFlat, UseToolFlat, RunToolFlat, KeepResultFlat, ReduceFlat,
         PersistReductionFlat, KeepReductionFlat, AfterSettleFlat, SynthesizeFlat,
         HandleCancelFlat, HandleStopFlat, ChangeDataFlat

-----------------------------------------------------------------------------
(* What makes a run fail *)

\* No fault is forgotten.
LEMMA BlameGrows ==
    ASSUME [Next]_vars
    PROVE  blame \subseteq blame' /\ (Cause => Cause')
<1>1. CASE VerifyFlat
  BY <1>1
     DEF VerifyFlat, Cause
<1>2. CASE RecoverCallFlat
  BY <1>2
     DEF RecoverCallFlat, Cause
<1>3. CASE RecoverToolFlat
  BY <1>3
     DEF RecoverToolFlat, Cause
<1>4. CASE SendRefusedFlat
  BY <1>4
     DEF SendRefusedFlat, Cause
<1>5. CASE AnswerUnknownFlat
  BY <1>5
     DEF AnswerUnknownFlat, Cause
<1>6. CASE AnswerUnavailableFlat
  BY <1>6
     DEF AnswerUnavailableFlat, Cause
<1>7. CASE StopFlat
  BY <1>7
     DEF StopFlat, Cause
<1>8. CASE HandlePauseFlat
  BY <1>8
     DEF HandlePauseFlat, Cause
<1>9. CASE CrashFlat
  BY <1>9
     DEF CrashFlat, Cause
<1>10. CASE LaunchFlat
  BY <1>10
     DEF LaunchFlat, Cause
<1>11. CASE UNCHANGED <<blame>>
  BY <1>11 DEF Cause
<1>12. QED
  BY NextIsFlat, <1>1, <1>2, <1>3, <1>4, <1>5, <1>6, <1>7, <1>8, <1>9, <1>10, <1>11
     DEF NextFlat, vars, ClaimFlat, RecoveredFlat, EnterFlat, WriteCheckpointFlat,
         EndAttemptFlat, OrientFlat, OpenRoundFlat, GenerateFlat, StartCallFlat, SendFlat,
         AnsweredFlat, AnswerMalformedFlat, KeepAnswerFlat, CompleteCallFlat, ScheduleFlat,
         PassNodeFlat, ExecuteFlat, NextProbeFlat, AskModelFlat, UseToolFlat, StartToolFlat,
         RunToolFlat, FailToolFlat, KeepResultFlat, PrepareReceiptFlat, CommitReceiptFlat,
         ReduceFlat, GateVerdictFlat, PersistReductionFlat, KeepReductionFlat,
         CommitReductionFlat, SettleFlat, AfterSettleFlat, SynthesizeFlat, HandleCancelFlat,
         HandleStopFlat, RerunFlat, PauseFlat, ResumeFlat, CancelFlat, CancelJobFlat,
         ExtendBudgetFlat, ChangeDataFlat

\* The round a worker is about to open can be opened.
LEMMA OpenStep ==
    ASSUME Shape, JournalOK, CountOK, PlaceOK, OpenOK, [Next]_vars
    PROVE  OpenOK'
<1>1. CASE ClaimFlat
  BY <1>1, FreshWorker
     DEF ClaimFlat, OpenOK, Shape, CountOK, RoundsOK, JournalOK
<1>2. CASE VerifyFlat
  BY <1>2, GotoWorker, OffWorker, RecoverWorker
     DEF VerifyFlat, OpenOK, Shape, CountOK, RoundsOK, JournalOK
<1>3. CASE RecoverCallFlat
  <2>1. w'.pc \in {"off", "recover"}
    BY <1>3, OffWorker, SettleRestWorker DEF RecoverCallFlat, Shape
  <2> QED BY <2>1 DEF OpenOK
<1>4. CASE RecoverToolFlat
  <2>1. w'.pc \in {"off", "recover"}
    BY <1>4, OffWorker, SettleRestWorker DEF RecoverToolFlat, Shape
  <2> QED BY <2>1 DEF OpenOK
<1>5. CASE RecoveredFlat
  BY <1>5, EnterWorker
     DEF RecoveredFlat, OpenOK, Shape, CountOK, RoundsOK, JournalOK
<1>6. CASE EnterFlat
  <2>0. /\ job = "live" /\ w.pc = "enter"
        /\ UNCHANGED <<body, wf, cp, probe, job, api, changed, sent, blame, count>>
    BY <1>6 DEF EnterFlat
  <2>1. CASE /\ j.status = "pause_requested" /\ j' = [j EXCEPT !.status = "paused"]
             /\ ToFresh("ending")
    BY <2>0, <2>1, FreshWorker, StatusFields
       DEF OpenOK, Shape, CountOK, RoundsOK, JournalOK
  <2>2. CASE j.status \in {"stopped", "paused"} /\ j' = j /\ ToFresh("ending")
    BY <2>0, <2>2, FreshWorker
       DEF OpenOK, Shape, CountOK, RoundsOK, JournalOK
  <2>3. CASE /\ j.status = "running" /\ j' = Stopped("state_witness_changed", FALSE)
             /\ ToFresh("ending")
    <3>1. w'.pc = "ending"
      BY <2>3, FreshWorker
    <3> QED BY <3>1 DEF OpenOK
  <2>4. CASE j.status \notin {"pause_requested", "stopped", "paused"} /\ j' = j /\ Goto("node")
    BY <2>0, <2>4, GotoWorker
       DEF OpenOK, Shape, CountOK, RoundsOK, JournalOK
  <2> QED BY <1>6, <2>1, <2>2, <2>3, <2>4 DEF EnterFlat
<1>7. CASE WriteCheckpointFlat
  BY <1>7, NodeWorker
     DEF WriteCheckpointFlat, OpenOK, Shape, CountOK, RoundsOK, JournalOK
<1>8. CASE EndAttemptFlat
  BY <1>8, OffWorker
     DEF EndAttemptFlat, OpenOK, Shape, CountOK, RoundsOK, JournalOK
<1>9. CASE OrientFlat
  BY <1>9, GotoWorker, RaiseWorker, CheckpointWorker
     DEF OrientFlat, OpenOK, Shape, CountOK, RoundsOK, JournalOK
<1>10. CASE OpenRoundFlat
  BY <1>10, RaiseWorker, CheckpointWorker, RoundStartedFields
     DEF OpenRoundFlat, OpenOK, Shape, CountOK, RoundsOK, JournalOK
<1>11. CASE GenerateFlat
  BY <1>11, RaiseWorker, CheckpointWorker, StartWorker
     DEF GenerateFlat, OpenOK, Shape, CountOK, RoundsOK, JournalOK
<1>12. CASE StartCallFlat
  BY <1>12, GotoWorker, RaiseWorker, CallStartedFields
     DEF StartCallFlat, OpenOK, Shape, CountOK, RoundsOK, JournalOK
<1>13. CASE SendFlat
  BY <1>13, GotoWorker
     DEF SendFlat, OpenOK, Shape, CountOK, RoundsOK, JournalOK
<1>14. CASE SendRefusedFlat
  BY <1>14, RaiseWorker, ProbeLoopWorker, CallRejectedFields
     DEF SendRefusedFlat, OpenOK, Shape, CountOK, RoundsOK, JournalOK
<1>15. CASE AnsweredFlat
  BY <1>15, KeepWorker
     DEF AnsweredFlat, OpenOK, Shape, CountOK, RoundsOK, JournalOK
<1>16. CASE AnswerUnknownFlat
  BY <1>16, RaiseWorker, ProbeLoopWorker, CallUncertainFields
     DEF AnswerUnknownFlat, OpenOK, Shape, CountOK, RoundsOK, JournalOK
<1>17. CASE AnswerMalformedFlat
  BY <1>17, RaiseWorker, ProbeLoopWorker, StartWorker, CallRejectedFields
     DEF AnswerMalformedFlat, OpenOK, Shape, CountOK, RoundsOK, JournalOK
<1>18. CASE AnswerUnavailableFlat
  BY <1>18, RaiseWorker, ProbeLoopWorker, CallRejectedFields
     DEF AnswerUnavailableFlat, OpenOK, Shape, CountOK, RoundsOK, JournalOK
<1>19. CASE KeepAnswerFlat
  BY <1>19, GotoWorker
     DEF KeepAnswerFlat, OpenOK, Shape, CountOK, RoundsOK, JournalOK
<1>20. CASE CompleteCallFlat
  BY <1>20, RaiseWorker, CheckpointWorker, ProbeLoopWorker, CallCompletedFields
     DEF CompleteCallFlat, OpenOK, Shape, CountOK, RoundsOK, JournalOK
<1>21. CASE ScheduleFlat
  BY <1>21, RaiseWorker, CheckpointWorker
     DEF ScheduleFlat, OpenOK, Shape, CountOK, RoundsOK, JournalOK
<1>22. CASE PassNodeFlat
  BY <1>22, RaiseWorker, CheckpointWorker
     DEF PassNodeFlat, OpenOK, Shape, CountOK, RoundsOK, JournalOK
<1>23. CASE ExecuteFlat
  <2>0. /\ job = "live" /\ w.pc = "node" /\ cp.node = "execute_probes"
        /\ UNCHANGED <<j, body, wf, cp, probe, job, api, changed, sent, blame, count>>
    BY <1>23 DEF ExecuteFlat
  <2>1. CASE j.status # "running" /\ Raise(IF j.status = "stopped" THEN "cancel" ELSE "pause")
    BY <2>0, <2>1, RaiseWorker
       DEF OpenOK, Shape, CountOK, RoundsOK, JournalOK
  <2>2. CASE j.status = "running" /\ ToProbes
    BY <2>0, <2>2, ProbesWorker
       DEF OpenOK, Shape, CountOK, RoundsOK, JournalOK
  <2> QED BY <1>23, <2>1, <2>2 DEF ExecuteFlat
<1>24. CASE NextProbeFlat
  BY <1>24, RaiseWorker, CheckpointWorker, ProbeWorker
     DEF NextProbeFlat, OpenOK, Shape, CountOK, RoundsOK, JournalOK
<1>25. CASE AskModelFlat
  BY <1>25, GotoWorker, ProbeLoopWorker
     DEF AskModelFlat, OpenOK, Shape, CountOK, RoundsOK, JournalOK
<1>26. CASE UseToolFlat
  BY <1>26, GotoWorker, ProbeLoopWorker
     DEF UseToolFlat, OpenOK, Shape, CountOK, RoundsOK, JournalOK
<1>27. CASE StartToolFlat
  BY <1>27, GotoWorker, RaiseWorker, ToolStartedFields
     DEF StartToolFlat, OpenOK, Shape, CountOK, RoundsOK, JournalOK
<1>28. CASE RunToolFlat
  BY <1>28, ResultWorker
     DEF RunToolFlat, OpenOK, Shape, CountOK, RoundsOK, JournalOK
<1>29. CASE FailToolFlat
  BY <1>29, RaiseWorker, ProbeLoopWorker, ToolFailedFields
     DEF FailToolFlat, OpenOK, Shape, CountOK, RoundsOK, JournalOK
<1>30. CASE KeepResultFlat
  BY <1>30, PrepareWorker
     DEF KeepResultFlat, OpenOK, Shape, CountOK, RoundsOK, JournalOK
<1>31. CASE PrepareReceiptFlat
  BY <1>31, GotoWorker, RaiseWorker, ReceiptPreparedFields
     DEF PrepareReceiptFlat, OpenOK, Shape, CountOK, RoundsOK, JournalOK
<1>32. CASE CommitReceiptFlat
  BY <1>32, RaiseWorker, ProbeLoopWorker, ReceiptCommittedFields
     DEF CommitReceiptFlat, OpenOK, Shape, CountOK, RoundsOK, JournalOK
<1>33. CASE ReduceFlat
  BY <1>33, GotoWorker, RaiseWorker, CheckpointWorker, OutcomeWorker
     DEF ReduceFlat, OpenOK, Shape, CountOK, RoundsOK, JournalOK
<1>34. CASE GateVerdictFlat
  BY <1>34, GotoWorker, RaiseWorker, GatedFields
     DEF GateVerdictFlat, OpenOK, Shape, CountOK, RoundsOK, JournalOK
<1>35. CASE PersistReductionFlat
  BY <1>35, OutcomeWorker
     DEF PersistReductionFlat, OpenOK, Shape, CountOK, RoundsOK, JournalOK
<1>36. CASE KeepReductionFlat
  BY <1>36, GotoWorker, RaiseWorker
     DEF KeepReductionFlat, OpenOK, Shape, CountOK, RoundsOK, JournalOK
<1>37. CASE CommitReductionFlat
  BY <1>37, RaiseWorker, CheckpointWorker, ReductionCommittedFields
     DEF CommitReductionFlat, OpenOK, Shape, CountOK, RoundsOK, JournalOK
<1>38. CASE SettleFlat
  BY <1>38, GotoWorker, RaiseWorker, RoundSettledFields
     DEF SettleFlat, OpenOK, Shape, CountOK, RoundsOK, JournalOK
<1>39. CASE AfterSettleFlat
  BY <1>39, RaiseWorker, CheckpointWorker
     DEF AfterSettleFlat, OpenOK, Shape, CountOK, RoundsOK, JournalOK
<1>40. CASE SynthesizeFlat
  BY <1>40, RaiseWorker, StopWorker
     DEF SynthesizeFlat, OpenOK, Shape, CountOK, RoundsOK, JournalOK
<1>41. CASE StopFlat
  BY <1>41, RaiseWorker, OffWorker, FreshWorker, BareWorker, StoppedFields
     DEF StopFlat, OpenOK, Shape, CountOK, RoundsOK, JournalOK
<1>42. CASE HandlePauseFlat
  BY <1>42, HandlePauseMoves
     DEF OpenOK, Shape, CountOK, RoundsOK, JournalOK
<1>43. CASE HandleCancelFlat
  BY <1>43, FreshWorker
     DEF HandleCancelFlat, OpenOK, Shape, CountOK, RoundsOK, JournalOK
<1>44. CASE HandleStopFlat
  BY <1>44, RaiseWorker, StopWorker
     DEF HandleStopFlat, OpenOK, Shape, CountOK, RoundsOK, JournalOK
<1>45. CASE CrashFlat
  BY <1>45, OffWorker
     DEF CrashFlat, OpenOK, Shape, CountOK, RoundsOK, JournalOK
<1>46. CASE PauseFlat
  BY <1>46, PauseMoves
     DEF OpenOK, Shape, CountOK, RoundsOK, JournalOK
<1>47. CASE ResumeFlat
  <2>0. /\ j.status = "paused" /\ api = "idle"
        /\ UNCHANGED <<body, wf, cp, probe, w, job, changed, sent, blame, count>>
    BY <1>47 DEF ResumeFlat
  <2>1. CASE changed /\ j' = Stopped("state_witness_changed", FALSE) /\ api' = api
    BY <2>0, <2>1, StoppedFields
       DEF OpenOK, Shape, CountOK, RoundsOK, JournalOK
  <2>2. CASE /\ job \notin {"queued", "live"} /\ j' = [j EXCEPT !.status = "running"]
             /\ api' = "launching"
    BY <2>0, <2>2, StatusFields
       DEF OpenOK, Shape, CountOK, RoundsOK, JournalOK
  <2> QED BY <1>47, <2>1, <2>2 DEF ResumeFlat
<1>48. CASE LaunchFlat
  <2>0. /\ api = "launching"
        /\ api' = "idle"
        /\ UNCHANGED <<body, wf, cp, probe, w, changed, sent>>
    BY <1>48 DEF LaunchFlat
  <2>1. CASE job' = "queued" /\ UNCHANGED <<j, blame, count>>
    BY <2>0, <2>1
       DEF OpenOK, Shape, CountOK, RoundsOK, JournalOK
  <2>2. CASE /\ j.status = "stopped" /\ j' = j
             /\ blame' = blame \cup {"launch"} /\ UNCHANGED <<job, count>>
    BY <2>0, <2>2
       DEF OpenOK, Shape, CountOK, RoundsOK, JournalOK
  <2>3. CASE /\ j.status # "stopped" /\ j' = Stopped("failed", FALSE)
             /\ blame' = blame \cup {"launch"} /\ UNCHANGED <<job, count>>
    BY <2>0, <2>3, StoppedFields
       DEF OpenOK, Shape, CountOK, RoundsOK, JournalOK
  <2>4. CASE /\ Room /\ count' = [count EXCEPT !.crashes = @ + 1]
             /\ blame' = blame \cup {"api"} /\ UNCHANGED <<j, job>>
    BY <2>0, <2>4
       DEF OpenOK, Shape, CountOK, RoundsOK, JournalOK
  <2> QED BY <1>48, <2>1, <2>2, <2>3, <2>4 DEF LaunchFlat
<1>49. CASE CancelFlat
  BY <1>49, CancelMoves
     DEF OpenOK, Shape, CountOK, RoundsOK, JournalOK
<1>50. CASE CancelJobFlat
  BY <1>50, OffWorker
     DEF CancelJobFlat, OpenOK, Shape, CountOK, RoundsOK, JournalOK
<1>51. CASE ExtendBudgetFlat
  BY <1>51, ExtendBudgetMoves
     DEF OpenOK, Shape, CountOK, RoundsOK, JournalOK
<1>52. CASE UNCHANGED <<j, w>>
  BY <1>52 DEF OpenOK, Shape, CountOK, RoundsOK, JournalOK
<1>53. QED
  BY NextIsFlat, <1>1, <1>2, <1>3, <1>4, <1>5, <1>6, <1>7, <1>8, <1>9, <1>10, <1>11, <1>12,
         <1>13, <1>14, <1>15, <1>16, <1>17, <1>18, <1>19, <1>20, <1>21, <1>22, <1>23, <1>24,
         <1>25, <1>26, <1>27, <1>28, <1>29, <1>30, <1>31, <1>32, <1>33, <1>34, <1>35, <1>36,
         <1>37, <1>38, <1>39, <1>40, <1>41, <1>42, <1>43, <1>44, <1>45, <1>46, <1>47, <1>48,
         <1>49, <1>50, <1>51, <1>52
     DEF NextFlat, vars, RerunFlat, ChangeDataFlat

\* A round is scheduled once, unless a worker died before its checkpoint.
LEMMA SchedStep ==
    ASSUME Shape, JournalOK, CountOK, CkptOK(cp), PlaceOK, NextOK, PendingOK, SchedOK,
           [Next]_vars
    PROVE  SchedOK'
<1>0. blame \subseteq blame'
  BY BlameGrows
<1>1. CASE ClaimFlat
  BY <1>1, FreshWorker, <1>0
     DEF ClaimFlat, SchedOK, Shape, PlaceOK
<1>2. CASE VerifyFlat
  BY <1>2, GotoWorker, OffWorker, RecoverWorker, <1>0
     DEF VerifyFlat, SchedOK, Shape
<1>3. CASE RecoverCallFlat
  <2>1. cp' = cp /\ w.pc = "recover" /\ w'.pc \in {"off", "recover"} /\ wf' = wf
    BY <1>3, OffWorker, SettleRestWorker DEF RecoverCallFlat, Shape
  <2>2. EndStays
    BY <1>3, SettlingKeepsEnd DEF RecoverCallFlat, CallSettles, EndStays, Shape
  <2> QED BY <1>0, <2>1, <2>2 DEF SchedOK, EndStays
<1>4. CASE RecoverToolFlat
  <2>1. cp' = cp /\ w.pc = "recover" /\ w'.pc \in {"off", "recover"} /\ wf' = wf
    BY <1>4, OffWorker, SettleRestWorker DEF RecoverToolFlat, Shape
  <2>2. EndStays
    BY <1>4, SlotsKeepEnd DEF RecoverToolFlat, SlotMoves, EndStays, Shape
  <2> QED BY <1>0, <2>1, <2>2 DEF SchedOK, EndStays
<1>5. CASE RecoveredFlat
  BY <1>5, EnterWorker, <1>0
     DEF RecoveredFlat, SchedOK, Shape
<1>6. CASE EnterFlat
  <2>0. /\ job = "live" /\ w.pc = "enter"
        /\ UNCHANGED <<body, wf, cp, probe, job, api, changed, sent, blame, count>>
    BY <1>6 DEF EnterFlat
  <2>1. CASE /\ j.status = "pause_requested" /\ j' = [j EXCEPT !.status = "paused"]
             /\ ToFresh("ending")
    BY <2>0, <2>1, FreshWorker, StatusFields, <1>0
       DEF SchedOK, Shape
  <2>2. CASE j.status \in {"stopped", "paused"} /\ j' = j /\ ToFresh("ending")
    BY <2>0, <2>2, FreshWorker, <1>0
       DEF SchedOK, Shape
  <2>3. CASE /\ j.status = "running" /\ j' = Stopped("state_witness_changed", FALSE)
             /\ ToFresh("ending")
    <3>1. w'.pc = "ending"
      BY <2>3, FreshWorker
    <3>2. j'.status = "stopped" /\ j'.settled = j.settled /\ j'.open = j.open
      BY <2>3, StoppedFields DEF Shape
    <3> QED BY <1>0, <2>0, <3>1, <3>2 DEF SchedOK
  <2>4. CASE j.status \notin {"pause_requested", "stopped", "paused"} /\ j' = j /\ Goto("node")
    BY <2>0, <2>4, GotoWorker, <1>0
       DEF SchedOK, Shape
  <2> QED BY <1>6, <2>1, <2>2, <2>3, <2>4 DEF EnterFlat
<1>7. CASE WriteCheckpointFlat
  <2>1. cp' = w.out /\ j' = j /\ w.pc = "ckpt" /\ w'.pc = "node" /\ wf' = wf
    BY <1>7, NodeWorker DEF WriteCheckpointFlat, Shape
  <2>2. w.out.node = "schedule" => w.out.round = j.settled
    BY <2>1 DEF NextOK, CkptOK, CkptFits, InRound
  <2> QED BY <2>1, <2>2 DEF SchedOK
<1>8. CASE EndAttemptFlat
  BY <1>8, OffWorker, <1>0
     DEF EndAttemptFlat, SchedOK, Shape
<1>9. CASE OrientFlat
  <2>0. /\ job = "live" /\ w.pc = "node" /\ cp.node = "orient"
        /\ UNCHANGED <<j, body, wf, cp, probe, job, api, changed, sent, blame, count>>
    BY <1>9 DEF OrientFlat
  <2>1. CASE j.status # "running" /\ Raise(IF j.status = "stopped" THEN "cancel" ELSE "pause")
    BY <2>0, <2>1, RaiseWorker, <1>0
       DEF SchedOK, Shape
  <2>2. CASE j.status = "running" /\ Raise("budget")
    BY <2>0, <2>2, RaiseWorker, <1>0
       DEF SchedOK, Shape
  <2>3. CASE j.status = "running" /\ changed /\ Raise("witness")
    BY <2>0, <2>3, RaiseWorker, <1>0
       DEF SchedOK, Shape
  <2>4. CASE /\ j.status = "running" /\ j.open
             /\ Checkpoint([cp EXCEPT !.node = "generate", !.round = j.settled])
    <3>1. PICK c : c = [cp EXCEPT !.node = "generate", !.round = j.settled]
      OBVIOUS
    <3>2. w'.pc = "ckpt" /\ w'.out = c /\ cp' = cp
      BY <2>0, <2>4, <3>1, CheckpointWorker DEF Shape
    <3>3. c.node = "generate"
      BY <3>1 DEF Shape, CFields
    <3>4. j' = j
      BY <2>0, <2>4
    <3>5. cp.node \in {"orient"}
      BY <2>0, <2>4 DEF PlaceOK, Asking, Tooling, Reducing
    <3> QED BY <1>0, <2>0, <3>2, <3>3, <3>4, <3>5 DEF SchedOK, Scheduled, InRound
  <2>5. CASE j.status = "running" /\ ~j.open /\ ~(j.rounds <= 0) /\ Goto("open")
    BY <2>0, <2>5, GotoWorker, <1>0
       DEF SchedOK, Shape
  <2> QED BY <1>9, <2>1, <2>2, <2>3, <2>4, <2>5 DEF OrientFlat
<1>10. CASE OpenRoundFlat
  <2>0. /\ job = "live" /\ w.pc = "open"
        /\ UNCHANGED <<body, wf, cp, probe, job, api, changed, sent, blame, count>>
    BY <1>10 DEF OpenRoundFlat
  <2>1. CASE /\ CanStartRound /\ j' = RoundStarted
             /\ Checkpoint([cp EXCEPT !.node = "generate", !.round = j.settled])
    <3>1. PICK c : c = [cp EXCEPT !.node = "generate", !.round = j.settled]
      OBVIOUS
    <3>2. w'.pc = "ckpt" /\ w'.out = c /\ cp' = cp
      BY <2>0, <2>1, <3>1, CheckpointWorker DEF Shape
    <3>3. c.node = "generate"
      BY <3>1 DEF Shape, CFields
    <3>4. j'.status = j.status /\ j'.settled = j.settled /\ (j.open => j'.open)
      BY <2>1, RoundStartedFields DEF Shape
    <3>5. cp.node \in {"orient"}
      BY <2>0, <2>1 DEF PlaceOK, Asking, Tooling, Reducing
    <3> QED BY <1>0, <2>0, <3>2, <3>3, <3>4, <3>5 DEF SchedOK, Scheduled, InRound
  <2>2. CASE ~(j.status # "stopped" /\ CanStartRound) /\ j' = j /\ Raise("error")
    BY <2>0, <2>2, RaiseWorker, <1>0
       DEF SchedOK, Shape
  <2> QED BY <1>10, <2>1, <2>2 DEF OpenRoundFlat
<1>11. CASE GenerateFlat
  <2>0. /\ job = "live" /\ w.pc = "node" /\ cp.node = "generate"
        /\ UNCHANGED <<j, body, wf, cp, probe, job, api, changed, sent, blame, count>>
    BY <1>11 DEF GenerateFlat
  <2>1. CASE j.status # "running" /\ Raise(IF j.status = "stopped" THEN "cancel" ELSE "pause")
    BY <2>0, <2>1, RaiseWorker, <1>0
       DEF SchedOK, Shape
  <2>2. CASE /\ j.status = "running" /\ Done(Call) /\ j.dig[Call] = body[Call]
             /\ Checkpoint([cp EXCEPT !.node = "schedule"])
    <3>1. PICK c : c = [cp EXCEPT !.node = "schedule"]
      OBVIOUS
    <3>2. w'.pc = "ckpt" /\ w'.out = c /\ cp' = cp
      BY <2>0, <2>2, <3>1, CheckpointWorker DEF Shape
    <3>3. c.node = "schedule"
      BY <3>1 DEF Shape, CFields
    <3>4. j' = j
      BY <2>0, <2>2
    <3>5. cp.node \in {"generate"}
      BY <2>0, <2>2 DEF PlaceOK, Asking, Tooling, Reducing
    <3> QED BY <1>0, <2>0, <3>2, <3>3, <3>4, <3>5 DEF SchedOK, Scheduled, InRound
  <2>3. CASE j.status = "running" /\ Done(Call) /\ j.dig[Call] # body[Call] /\ Raise("error")
    BY <2>0, <2>3, RaiseWorker, <1>0
       DEF SchedOK, Shape
  <2>4. CASE j.status = "running" /\ ~Done(Call) /\ Call \in j.unsure /\ Raise("error")
    BY <2>0, <2>4, RaiseWorker, <1>0
       DEF SchedOK, Shape
  <2>5. CASE j.status = "running" /\ Raise("budget")
    BY <2>0, <2>5, RaiseWorker, <1>0
       DEF SchedOK, Shape
  <2>6. CASE /\ j.status = "running" /\ ~Done(Call) /\ Call \notin j.unsure /\ CanSend
             /\ ToStart(1)
    BY <2>0, <2>6, StartWorker, <1>0
       DEF SchedOK, Shape
  <2> QED BY <1>11, <2>1, <2>2, <2>3, <2>4, <2>5, <2>6 DEF GenerateFlat
<1>12. CASE StartCallFlat
  BY <1>12, GotoWorker, RaiseWorker, CallStartedFields, <1>0
     DEF StartCallFlat, SchedOK, Shape
<1>13. CASE SendFlat
  BY <1>13, GotoWorker, <1>0
     DEF SendFlat, SchedOK, Shape
<1>14. CASE SendRefusedFlat
  BY <1>14, RaiseWorker, ProbeLoopWorker, CallRejectedFields, <1>0
     DEF SendRefusedFlat, SchedOK, Shape
<1>15. CASE AnsweredFlat
  BY <1>15, KeepWorker, <1>0
     DEF AnsweredFlat, SchedOK, Shape
<1>16. CASE AnswerUnknownFlat
  BY <1>16, RaiseWorker, ProbeLoopWorker, CallUncertainFields, <1>0
     DEF AnswerUnknownFlat, SchedOK, Shape
<1>17. CASE AnswerMalformedFlat
  <2>0. /\ job = "live" /\ w.pc = "answer"
        /\ sent' = [sent EXCEPT ![Call] = 0]
        /\ UNCHANGED <<body, wf, cp, job, api, changed, blame, count>>
    BY <1>17 DEF AnswerMalformedFlat
  <2>1. CASE j.status = "stopped" /\ Raise("error") /\ UNCHANGED <<j, probe>>
    BY <2>0, <2>1, RaiseWorker, <1>0
       DEF SchedOK, Shape
  <2>2. CASE /\ j.status # "stopped" /\ j' = CallRejected(Call) /\ cp.node = "generate"
             /\ ToStart(2) /\ probe' = probe
    BY <2>0, <2>2, StartWorker, CallRejectedFields, <1>0
       DEF SchedOK, Shape
  <2>3. CASE /\ j.status # "stopped" /\ j' = CallRejected(Call) /\ cp.node # "generate"
             /\ probe' = [probe EXCEPT ![Here] = "end"] /\ ProbeLoop
    BY <2>0, <2>3, ProbeLoopWorker, CallRejectedFields, <1>0
       DEF SchedOK, Shape
  <2> QED BY <1>17, <2>1, <2>2, <2>3 DEF AnswerMalformedFlat
<1>18. CASE AnswerUnavailableFlat
  BY <1>18, RaiseWorker, ProbeLoopWorker, CallRejectedFields, <1>0
     DEF AnswerUnavailableFlat, SchedOK, Shape
<1>19. CASE KeepAnswerFlat
  BY <1>19, GotoWorker, <1>0
     DEF KeepAnswerFlat, SchedOK, Shape
<1>20. CASE CompleteCallFlat
  <2>0. /\ job = "live" /\ w.pc = "complete"
        /\ UNCHANGED <<body, wf, cp, probe, job, api, changed, sent, blame, count>>
    BY <1>20 DEF CompleteCallFlat
  <2>1. CASE /\ j.status # "stopped" /\ Call \in j.calls
             /\ j' = CallCompleted(Call, w.val) /\ cp.node = "generate"
             /\ Checkpoint([cp EXCEPT !.node = "schedule"])
    <3>1. PICK c : c = [cp EXCEPT !.node = "schedule"]
      OBVIOUS
    <3>2. w'.pc = "ckpt" /\ w'.out = c /\ cp' = cp
      BY <2>0, <2>1, <3>1, CheckpointWorker DEF Shape
    <3>3. c.node = "schedule"
      BY <3>1 DEF Shape, CFields
    <3>4. j'.status = j.status /\ j'.settled = j.settled /\ (j.open => j'.open)
      BY <2>1, CallCompletedFields DEF Shape
    <3>5. cp.node \in {"generate"}
      BY <2>0, <2>1 DEF PlaceOK, Asking, Tooling, Reducing
    <3> QED BY <1>0, <2>0, <3>2, <3>3, <3>4, <3>5 DEF SchedOK, Scheduled, InRound
  <2>2. CASE /\ j.status # "stopped" /\ Call \in j.calls
             /\ j' = CallCompleted(Call, w.val) /\ cp.node # "generate" /\ ProbeLoop
    BY <2>0, <2>2, ProbeLoopWorker, CallCompletedFields, <1>0
       DEF SchedOK, Shape
  <2>3. CASE ~(j.status # "stopped" /\ Call \in j.calls) /\ j' = j /\ Raise("error")
    BY <2>0, <2>3, RaiseWorker, <1>0
       DEF SchedOK, Shape
  <2> QED BY <1>20, <2>1, <2>2, <2>3 DEF CompleteCallFlat
<1>21. CASE ScheduleFlat
  <2>0. /\ job = "live" /\ w.pc = "node" /\ cp.node = "schedule"
        /\ UNCHANGED <<j, body, cp, probe, job, api, changed, sent, blame, count>>
    BY <1>21 DEF ScheduleFlat
  <2>1. CASE /\ j.status # "running" /\ wf' = wf
             /\ Raise(IF j.status = "stopped" THEN "cancel" ELSE "pause")
    BY <2>0, <2>1, RaiseWorker, <1>0
       DEF SchedOK, Shape
  <2>2. CASE j.status = "running" /\ cp.round \in wf.sched /\ wf' = wf /\ Raise("error")
    BY <2>0, <2>2, RaiseWorker, <1>0
       DEF SchedOK, Shape
  <2>3. CASE /\ j.status = "running"
             /\ wf' = wf \/ wf' = [wf EXCEPT !.sched = @ \cup {cp.round}]
             /\ Checkpoint([cp EXCEPT !.node = IF body[Gen(cp.round)] > 0 THEN "select" ELSE "reduce",
                                      !.n = body[Gen(cp.round)]])
    <3>1. PICK c : c = [cp EXCEPT !.node = IF body[Gen(cp.round)] > 0 THEN "select" ELSE "reduce", !.n = body[Gen(cp.round)]]
      OBVIOUS
    <3>2. w'.pc = "ckpt" /\ w'.out = c /\ cp' = cp
      BY <2>0, <2>3, <3>1, CheckpointWorker DEF Shape
    <3>3. c.node \in {"select", "reduce"}
      BY <3>1 DEF Shape, CFields
    <3>4. j' = j
      BY <2>0, <2>3
    <3>5. cp.round = j.settled /\ j.open /\ j.settled \in Nat
      BY <2>0 DEF CkptOK, CkptFits, InRound, JournalOK
    <3>6. wf'.sched = wf.sched \/ wf'.sched = wf.sched \cup {cp.round}
      BY <2>3 DEF Shape
    <3> QED BY <1>0, <2>0, <3>2, <3>3, <3>4, <3>5, <3>6 DEF SchedOK, Scheduled, InRound
  <2> QED BY <1>21, <2>1, <2>2, <2>3 DEF ScheduleFlat
<1>22. CASE PassNodeFlat
  <2>0. /\ job = "live" /\ w.pc = "node" /\ cp.node \in {"select", "validate"}
        /\ UNCHANGED <<j, body, wf, cp, probe, job, api, changed, sent, blame, count>>
    BY <1>22 DEF PassNodeFlat
  <2>1. CASE j.status # "running" /\ Raise(IF j.status = "stopped" THEN "cancel" ELSE "pause")
    BY <2>0, <2>1, RaiseWorker, <1>0
       DEF SchedOK, Shape
  <2>2. CASE /\ j.status = "running"
             /\ Checkpoint([cp EXCEPT !.node = IF cp.node = "select"
                                               THEN "execute_probes" ELSE "reduce"])
    <3>1. PICK c : c = [cp EXCEPT !.node = IF cp.node = "select" THEN "execute_probes" ELSE "reduce"]
      OBVIOUS
    <3>2. w'.pc = "ckpt" /\ w'.out = c /\ cp' = cp
      BY <2>0, <2>2, <3>1, CheckpointWorker DEF Shape
    <3>3. c.node \in {"execute_probes", "reduce"}
      BY <3>1 DEF Shape, CFields
    <3>4. j' = j
      BY <2>0, <2>2
    <3>5. cp.node \in {"select", "validate"}
      BY <2>0, <2>2 DEF PlaceOK, Asking, Tooling, Reducing
    <3> QED BY <1>0, <2>0, <3>2, <3>3, <3>4, <3>5 DEF SchedOK, Scheduled, InRound
  <2> QED BY <1>22, <2>1, <2>2 DEF PassNodeFlat
<1>23. CASE ExecuteFlat
  BY <1>23, RaiseWorker, ProbesWorker, <1>0
     DEF ExecuteFlat, SchedOK, Shape
<1>24. CASE NextProbeFlat
  <2>0. /\ job = "live" /\ w.pc = "probes"
        /\ UNCHANGED <<j, body, wf, cp, probe, job, api, changed, sent, blame, count>>
    BY <1>24 DEF NextProbeFlat
  <2>1. CASE \E spent : Checkpoint([cp EXCEPT !.node = "validate", !.spent = spent])
    <3>0. PICK s : Checkpoint([cp EXCEPT !.node = "validate", !.spent = s])
      BY <2>1
    <3>1. PICK c : c = [cp EXCEPT !.node = "validate", !.spent = s]
      OBVIOUS
    <3>2. w'.pc = "ckpt" /\ w'.out = c /\ cp' = cp
      BY <2>0, <3>0, <3>1, CheckpointWorker DEF Shape
    <3>3. c.node = "validate"
      BY <3>1 DEF Shape, CFields
    <3>4. j' = j
      BY <2>0, <2>1
    <3>5. cp.node \in {"execute_probes"}
      BY <2>0, <2>1 DEF PlaceOK, Asking, Tooling, Reducing
    <3> QED BY <1>0, <2>0, <3>2, <3>3, <3>4, <3>5 DEF SchedOK, Scheduled, InRound
  <2>2. CASE ~(w.p > cp.n) /\ probe[Here] = "bad" /\ Raise("error")
    BY <2>0, <2>2, RaiseWorker, <1>0
       DEF SchedOK, Shape
  <2>3. CASE ~(w.p > cp.n) /\ ToProbe(w.p + 1)
    BY <2>0, <2>3, ProbeWorker, <1>0
       DEF SchedOK, Shape
  <2> QED BY <1>24, <2>1, <2>2, <2>3 DEF NextProbeFlat
<1>25. CASE AskModelFlat
  BY <1>25, GotoWorker, ProbeLoopWorker, <1>0
     DEF AskModelFlat, SchedOK, Shape
<1>26. CASE UseToolFlat
  BY <1>26, GotoWorker, ProbeLoopWorker, <1>0
     DEF UseToolFlat, SchedOK, Shape
<1>27. CASE StartToolFlat
  BY <1>27, GotoWorker, RaiseWorker, ToolStartedFields, <1>0
     DEF StartToolFlat, SchedOK, Shape
<1>28. CASE RunToolFlat
  BY <1>28, ResultWorker, <1>0
     DEF RunToolFlat, SchedOK, Shape
<1>29. CASE FailToolFlat
  BY <1>29, RaiseWorker, ProbeLoopWorker, ToolFailedFields, <1>0
     DEF FailToolFlat, SchedOK, Shape
<1>30. CASE KeepResultFlat
  BY <1>30, PrepareWorker, <1>0
     DEF KeepResultFlat, SchedOK, Shape
<1>31. CASE PrepareReceiptFlat
  BY <1>31, GotoWorker, RaiseWorker, ReceiptPreparedFields, <1>0
     DEF PrepareReceiptFlat, SchedOK, Shape
<1>32. CASE CommitReceiptFlat
  <2>0. /\ job = "live" /\ w.pc = "commit"
        /\ UNCHANGED <<body, wf, cp, probe, job, api, changed, sent, blame, count>>
    BY <1>32 DEF CommitReceiptFlat
  <2>1. CASE /\ j.status # "stopped" /\ Mine \in j.prep
             /\ j' = ReceiptCommitted(Mine, w.val) /\ ProbeLoop
    BY <2>0, <2>1, ProbeLoopWorker, ReceiptCommittedFields, <1>0
       DEF SchedOK, Shape
  <2>2. CASE ~(j.status # "stopped" /\ Mine \in j.prep) /\ j' = j /\ Raise("error")
    BY <2>0, <2>2, RaiseWorker, <1>0
       DEF SchedOK, Shape
  <2> QED BY <1>32, <2>1, <2>2 DEF CommitReceiptFlat
<1>33. CASE ReduceFlat
  <2>0. /\ job = "live" /\ w.pc = "node" /\ cp.node = "reduce"
        /\ UNCHANGED <<j, body, wf, cp, probe, job, api, changed, sent, blame, count>>
    BY <1>33 DEF ReduceFlat
  <2>1. CASE j.status # "running" /\ Raise(IF j.status = "stopped" THEN "cancel" ELSE "pause")
    BY <2>0, <2>1, RaiseWorker, <1>0
       DEF SchedOK, Shape
  <2>2. CASE /\ j.status = "running" /\ j.committed /\ j.redn = body[Red(cp.round)]
             /\ Checkpoint([cp EXCEPT !.node = "settle", !.red = j.redn, !.before = Snapshot])
    <3>1. PICK c : c = [cp EXCEPT !.node = "settle", !.red = j.redn, !.before = Snapshot]
      OBVIOUS
    <3>2. w'.pc = "ckpt" /\ w'.out = c /\ cp' = cp
      BY <2>0, <2>2, <3>1, CheckpointWorker DEF Shape
    <3>3. c.node = "settle"
      BY <3>1 DEF Shape, CFields
    <3>4. j' = j
      BY <2>0, <2>2
    <3>5. cp.node \in {"reduce"}
      BY <2>0, <2>2 DEF PlaceOK, Asking, Tooling, Reducing
    <3> QED BY <1>0, <2>0, <3>2, <3>3, <3>4, <3>5 DEF SchedOK, Scheduled, InRound
  <2>3. CASE /\ j.status = "running" /\ j.committed /\ j.redn # body[Red(cp.round)]
             /\ Raise("error")
    BY <2>0, <2>3, RaiseWorker, <1>0
       DEF SchedOK, Shape
  <2>4. CASE j.status = "running" /\ ~j.committed /\ Goto("gate")
    BY <2>0, <2>4, GotoWorker, <1>0
       DEF SchedOK, Shape
  <2>5. CASE /\ j.status = "running" /\ ~j.committed
             /\ ToOutcome([v |-> "dry", fresh |-> TRUE])
    BY <2>0, <2>5, OutcomeWorker, <1>0
       DEF SchedOK, Shape
  <2> QED BY <1>33, <2>1, <2>2, <2>3, <2>4, <2>5 DEF ReduceFlat
<1>34. CASE GateVerdictFlat
  <2>0. /\ job = "live" /\ w.pc = "gate"
        /\ UNCHANGED <<body, wf, cp, probe, job, api, changed, sent, blame, count>>
    BY <1>34 DEF GateVerdictFlat
  <2>1. CASE /\ j' = j \/ (j.status = "running" /\ j' = [j EXCEPT !.gated = @ \cup {cp.round}])
             /\ Goto("persist")
    BY <2>0, <2>1, GotoWorker, GatedFields, <1>0
       DEF SchedOK, Shape
  <2>2. CASE ~(j.status = "running" /\ NoPending /\ j.open) /\ j' = j /\ Raise("error")
    BY <2>0, <2>2, RaiseWorker, <1>0
       DEF SchedOK, Shape
  <2> QED BY <1>34, <2>1, <2>2 DEF GateVerdictFlat
<1>35. CASE PersistReductionFlat
  <2>1. /\ w.pc = "persist" /\ w'.pc = "rkeep" /\ UNCHANGED <<cp, j>>
    BY <1>35, OutcomeWorker DEF PersistReductionFlat, Shape
  <2>2. wf'.sched = wf.sched
    BY <1>35 DEF PersistReductionFlat, Shape
  <2> QED BY <1>0, <2>1, <2>2 DEF SchedOK
<1>36. CASE KeepReductionFlat
  <2>0. /\ job = "live" /\ w.pc = "rkeep"
        /\ UNCHANGED <<j, wf, cp, probe, job, api, changed, sent, blame, count>>
    BY <1>36 DEF KeepReductionFlat
  <2>1. CASE j.committed /\ j.redn # w.val /\ body' = body /\ Raise("error")
    BY <2>0, <2>1, RaiseWorker, <1>0
       DEF SchedOK, Shape
  <2>2. CASE body' = Put(body, Red(cp.round), w.val) /\ Goto("reduce")
    BY <2>0, <2>2, GotoWorker, <1>0
       DEF SchedOK, Shape
  <2> QED BY <1>36, <2>1, <2>2 DEF KeepReductionFlat
<1>37. CASE CommitReductionFlat
  <2>0. /\ job = "live" /\ w.pc = "reduce"
        /\ UNCHANGED <<body, wf, cp, probe, job, api, changed, sent, blame, count>>
    BY <1>37 DEF CommitReductionFlat
  <2>1. CASE /\ j.status = "running" /\ NoPending /\ j.open /\ j' = ReductionCommitted(w.val)
             /\ Checkpoint([cp EXCEPT !.node = "settle", !.red = w.val, !.before = Snapshot])
    <3>1. PICK c : c = [cp EXCEPT !.node = "settle", !.red = w.val, !.before = Snapshot]
      OBVIOUS
    <3>2. w'.pc = "ckpt" /\ w'.out = c /\ cp' = cp
      BY <2>0, <2>1, <3>1, CheckpointWorker DEF Shape
    <3>3. c.node = "settle"
      BY <3>1 DEF Shape, CFields
    <3>4. j'.status = j.status /\ j'.settled = j.settled /\ (j.open => j'.open)
      BY <2>1, ReductionCommittedFields DEF Shape
    <3>5. cp.node \in {"reduce"}
      BY <2>0, <2>1 DEF PlaceOK, Asking, Tooling, Reducing
    <3> QED BY <1>0, <2>0, <3>2, <3>3, <3>4, <3>5 DEF SchedOK, Scheduled, InRound
  <2>2. CASE ~(j.status = "running" /\ NoPending /\ j.open) /\ j' = j /\ Raise("error")
    BY <2>0, <2>2, RaiseWorker, <1>0
       DEF SchedOK, Shape
  <2> QED BY <1>37, <2>1, <2>2 DEF CommitReductionFlat
<1>38. CASE SettleFlat
  <2>0. /\ job = "live" /\ w.pc = "node" /\ cp.node = "settle"
        /\ UNCHANGED <<body, wf, cp, probe, job, api, changed, sent, blame, count>>
    BY <1>38 DEF SettleFlat
  <2>1. CASE /\ j.settled <= cp.round /\ j.status # "stopped" /\ NoPending /\ j.open
             /\ j' = RoundSettled(cp.red, Decision) /\ Goto("after")
    <3>1. j'.settled = j.settled + 1 /\ j.settled \in Nat /\ cp' = cp /\ wf' = wf
      BY <2>0, <2>1, RoundSettledFields DEF Shape, JournalOK
    <3>2. j'.settled \notin wf.sched
      BY <3>1 DEF SchedOK
    <3> QED BY <2>0, <3>1, <3>2 DEF SchedOK
  <2>2. CASE /\ j.settled <= cp.round /\ ~(j.status # "stopped" /\ NoPending /\ j.open)
             /\ j' = j /\ Raise("error")
    BY <2>0, <2>2, RaiseWorker, <1>0
       DEF SchedOK, Shape
  <2>3. CASE ~(j.settled <= cp.round) /\ j' = j /\ Goto("after")
    BY <2>0, <2>3, GotoWorker, <1>0
       DEF SchedOK, Shape
  <2> QED BY <1>38, <2>1, <2>2, <2>3 DEF SettleFlat
<1>39. CASE AfterSettleFlat
  <2>0. /\ job = "live" /\ w.pc = "after"
        /\ UNCHANGED <<j, body, wf, cp, probe, job, api, changed, sent, blame, count>>
    BY <1>39 DEF AfterSettleFlat
  <2>1. CASE /\ Decision # None
             /\ Checkpoint([cp EXCEPT !.node = "synthesize", !.reason = Decision])
    <3>1. PICK c : c = [cp EXCEPT !.node = "synthesize", !.reason = Decision]
      OBVIOUS
    <3>2. w'.pc = "ckpt" /\ w'.out = c /\ cp' = cp
      BY <2>0, <2>1, <3>1, CheckpointWorker DEF Shape
    <3>3. c.node = "synthesize"
      BY <3>1 DEF Shape, CFields
    <3>4. j' = j
      BY <2>0, <2>1
    <3>5. cp.node \in {"settle"}
      BY <2>0, <2>1 DEF PlaceOK, Asking, Tooling, Reducing
    <3>6. ~j.open
      BY <2>0 DEF PlaceOK
    <3> QED BY <1>0, <2>0, <3>2, <3>3, <3>4, <3>5, <3>6 DEF SchedOK, Scheduled, InRound
  <2>2. CASE /\ Decision = None /\ j.status # "running"
             /\ Raise(IF j.status = "stopped" THEN "cancel" ELSE "pause")
    BY <2>0, <2>2, RaiseWorker, <1>0
       DEF SchedOK, Shape
  <2>3. CASE /\ Decision = None /\ j.status = "running"
             /\ Checkpoint([cp EXCEPT !.node = "orient", !.red = None,
                                      !.before = None, !.n = 0, !.spent = FALSE])
    <3>1. PICK c : c = [cp EXCEPT !.node = "orient", !.red = None, !.before = None, !.n = 0,
                     !.spent = FALSE]
      OBVIOUS
    <3>2. w'.pc = "ckpt" /\ w'.out = c /\ cp' = cp
      BY <2>0, <2>3, <3>1, CheckpointWorker DEF Shape
    <3>3. c.node = "orient"
      BY <3>1 DEF Shape, CFields
    <3>4. j' = j
      BY <2>0, <2>3
    <3>5. cp.node \in {"settle"}
      BY <2>0, <2>3 DEF PlaceOK, Asking, Tooling, Reducing
    <3>6. ~j.open
      BY <2>0 DEF PlaceOK
    <3> QED BY <1>0, <2>0, <3>2, <3>3, <3>4, <3>5, <3>6 DEF SchedOK, Scheduled, InRound
  <2> QED BY <1>39, <2>1, <2>2, <2>3 DEF AfterSettleFlat
<1>40. CASE SynthesizeFlat
  BY <1>40, RaiseWorker, StopWorker, <1>0
     DEF SynthesizeFlat, SchedOK, Shape
<1>41. CASE StopFlat
  BY <1>41, RaiseWorker, OffWorker, FreshWorker, BareWorker, StoppedFields, <1>0
     DEF StopFlat, SchedOK, Shape
<1>42. CASE HandlePauseFlat
  BY <1>42, HandlePauseMoves, <1>0
     DEF SchedOK, Shape
<1>43. CASE HandleCancelFlat
  BY <1>43, FreshWorker, <1>0
     DEF HandleCancelFlat, SchedOK, Shape
<1>44. CASE HandleStopFlat
  BY <1>44, RaiseWorker, StopWorker, <1>0
     DEF HandleStopFlat, SchedOK, Shape
<1>45. CASE CrashFlat
  <2>1. /\ w'.pc = "off" /\ UNCHANGED <<cp, j, wf>>
        /\ blame' = blame \cup {"crash", Window}
    BY <1>45, OffWorker DEF CrashFlat
  <2>2. w.pc = "ckpt" /\ cp.node = "schedule" => Window = "schedule"
    BY DEF Window
  <2> QED BY <2>1, <2>2 DEF SchedOK
<1>46. CASE PauseFlat
  BY <1>46, PauseMoves, <1>0
     DEF SchedOK, Shape
<1>47. CASE ResumeFlat
  <2>0. /\ j.status = "paused" /\ api = "idle"
        /\ UNCHANGED <<body, wf, cp, probe, w, job, changed, sent, blame, count>>
    BY <1>47 DEF ResumeFlat
  <2>1. CASE changed /\ j' = Stopped("state_witness_changed", FALSE) /\ api' = api
    BY <2>0, <2>1, StoppedFields, <1>0
       DEF SchedOK, Shape
  <2>2. CASE /\ job \notin {"queued", "live"} /\ j' = [j EXCEPT !.status = "running"]
             /\ api' = "launching"
    BY <2>0, <2>2, StatusFields, <1>0
       DEF SchedOK, Shape
  <2> QED BY <1>47, <2>1, <2>2 DEF ResumeFlat
<1>48. CASE LaunchFlat
  <2>0. /\ api = "launching"
        /\ api' = "idle"
        /\ UNCHANGED <<body, wf, cp, probe, w, changed, sent>>
    BY <1>48 DEF LaunchFlat
  <2>1. CASE job' = "queued" /\ UNCHANGED <<j, blame, count>>
    BY <2>0, <2>1, <1>0
       DEF SchedOK, Shape
  <2>2. CASE /\ j.status = "stopped" /\ j' = j
             /\ blame' = blame \cup {"launch"} /\ UNCHANGED <<job, count>>
    BY <2>0, <2>2, <1>0
       DEF SchedOK, Shape
  <2>3. CASE /\ j.status # "stopped" /\ j' = Stopped("failed", FALSE)
             /\ blame' = blame \cup {"launch"} /\ UNCHANGED <<job, count>>
    BY <2>0, <2>3, StoppedFields, <1>0
       DEF SchedOK, Shape
  <2>4. CASE /\ Room /\ count' = [count EXCEPT !.crashes = @ + 1]
             /\ blame' = blame \cup {"api"} /\ UNCHANGED <<j, job>>
    BY <2>0, <2>4, <1>0
       DEF SchedOK, Shape
  <2> QED BY <1>48, <2>1, <2>2, <2>3, <2>4 DEF LaunchFlat
<1>49. CASE CancelFlat
  BY <1>49, CancelMoves, <1>0
     DEF SchedOK, Shape
<1>50. CASE CancelJobFlat
  BY <1>50, OffWorker, <1>0
     DEF CancelJobFlat, SchedOK, Shape
<1>51. CASE ExtendBudgetFlat
  BY <1>51, ExtendBudgetMoves, <1>0
     DEF SchedOK, Shape
<1>52. CASE UNCHANGED <<j, w, cp, wf>>
  BY <1>52, <1>0 DEF SchedOK, Shape
<1>53. QED
  BY NextIsFlat, <1>1, <1>2, <1>3, <1>4, <1>5, <1>6, <1>7, <1>8, <1>9, <1>10, <1>11, <1>12,
         <1>13, <1>14, <1>15, <1>16, <1>17, <1>18, <1>19, <1>20, <1>21, <1>22, <1>23, <1>24,
         <1>25, <1>26, <1>27, <1>28, <1>29, <1>30, <1>31, <1>32, <1>33, <1>34, <1>35, <1>36,
         <1>37, <1>38, <1>39, <1>40, <1>41, <1>42, <1>43, <1>44, <1>45, <1>46, <1>47, <1>48,
         <1>49, <1>50, <1>51, <1>52
     DEF NextFlat, vars, RerunFlat, ChangeDataFlat

\* A move of a probe moves no other one.
LEMMA ProbeMoves ==
    ASSUME NEW x, probe' = [probe EXCEPT ![Here] = x]
    PROVE  /\ DOMAIN probe' = DOMAIN probe
           /\ \A y \in DOMAIN probe : probe'[y] = x \/ probe'[y] = probe[y]
  OBVIOUS

\* An outcome is unknown only for a cause.
LEMMA UnsureStep ==
    ASSUME Shape, JournalOK, CountOK, CkptOK(cp), PlaceOK, PendingOK, Kept, UnsureOK,
           [Next]_vars
    PROVE  UnsureOK'
<1>0. blame \subseteq blame' /\ (Cause => Cause')
  BY BlameGrows
<1>1. CASE ClaimFlat
  BY <1>1, FreshWorker, <1>0
     DEF ClaimFlat, UnsureOK, Shape, PlaceOK
<1>2. CASE VerifyFlat
  BY <1>2, GotoWorker, OffWorker, RecoverWorker, <1>0
     DEF VerifyFlat, UnsureOK, Shape
<1>3. CASE RecoverCallFlat
  <2>1. PICK c \in w.todo \cap Calls :
           \/ j' = j
           \/ c \notin DOMAIN body /\ j.status # "stopped" /\ j' = CallUncertain(c)
           \/ j' = CallCompleted(c, IF c[1] = "gen" THEN Foreign ELSE body[c])
    BY <1>3 DEF RecoverCallFlat
  <2>2. /\ UNCHANGED <<body, probe>> /\ w.pc = "recover"
        /\ w'.pc \in {"off", "recover"}
    BY <1>3, OffWorker, SettleRestWorker DEF RecoverCallFlat, Shape
  <2>3. CASE j' = j
    BY <1>0, <2>2, <2>3 DEF UnsureOK
  <2>4. CASE c \notin DOMAIN body /\ j.status # "stopped" /\ j' = CallUncertain(c)
    <3>1. c \in j.calls
      BY <2>2, <2>4, ToolsAreNoCalls DEF PendingOK, TodoOK, JournalOK
    <3>2. Cause
      BY <2>2, <2>4, <3>1 DEF UnsureOK, Cause, Causes
    <3>3. j'.calls \subseteq j.calls
      BY <2>4, CallUncertainFields DEF Shape
    <3> QED BY <1>0, <2>2, <3>2, <3>3 DEF UnsureOK
  <2>5. CASE j' = CallCompleted(c, IF c[1] = "gen" THEN Foreign ELSE body[c])
    <3>1. j'.calls \subseteq j.calls /\ j'.unsure = j.unsure /\ j'.status = j.status
      BY <2>5, CallCompletedFields DEF Shape
    <3> QED BY <1>0, <2>2, <3>1 DEF UnsureOK
  <2> QED BY <2>1, <2>3, <2>4, <2>5
<1>4. CASE RecoverToolFlat
  <2>1. UNCHANGED <<body, probe>> /\ w.pc = "recover" /\ w'.pc \in {"off", "recover"}
    BY <1>4, OffWorker, SettleRestWorker DEF RecoverToolFlat, Shape
  <2>2. j' = j \/ \E t : SlotMoves(t)
    BY <1>4 DEF RecoverToolFlat, SlotMoves
  <2>3. j'.calls = j.calls /\ j'.unsure = j.unsure /\ j'.status = j.status
    BY <2>2, SlotsKeepCalls, SlotsKeepEnd DEF Shape, EndStays
  <2> QED BY <1>0, <2>1, <2>3 DEF UnsureOK
<1>5. CASE RecoveredFlat
  BY <1>5, EnterWorker, <1>0
     DEF RecoveredFlat, UnsureOK, Shape
<1>6. CASE EnterFlat
  <2>0. /\ job = "live" /\ w.pc = "enter"
        /\ UNCHANGED <<body, wf, cp, probe, job, api, changed, sent, blame, count>>
    BY <1>6 DEF EnterFlat
  <2>1. CASE /\ j.status = "pause_requested" /\ j' = [j EXCEPT !.status = "paused"]
             /\ ToFresh("ending")
    BY <2>0, <2>1, FreshWorker, StatusFields, <1>0
       DEF UnsureOK, Shape
  <2>2. CASE j.status \in {"stopped", "paused"} /\ j' = j /\ ToFresh("ending")
    BY <2>0, <2>2, FreshWorker, <1>0
       DEF UnsureOK, Shape
  <2>3. CASE /\ j.status = "running" /\ j' = Stopped("state_witness_changed", FALSE)
             /\ ToFresh("ending")
    <3>1. j'.status = "stopped" /\ j'.calls = {}
      BY <2>0, <2>3, StoppedFields DEF Shape
    <3> QED BY <3>1 DEF UnsureOK
  <2>4. CASE j.status \notin {"pause_requested", "stopped", "paused"} /\ j' = j /\ Goto("node")
    BY <2>0, <2>4, GotoWorker, <1>0
       DEF UnsureOK, Shape
  <2> QED BY <1>6, <2>1, <2>2, <2>3, <2>4 DEF EnterFlat
<1>7. CASE WriteCheckpointFlat
  BY <1>7, NodeWorker, <1>0
     DEF WriteCheckpointFlat, UnsureOK, Shape
<1>8. CASE EndAttemptFlat
  BY <1>8, OffWorker, <1>0
     DEF EndAttemptFlat, UnsureOK, Shape
<1>9. CASE OrientFlat
  BY <1>9, GotoWorker, RaiseWorker, CheckpointWorker, <1>0
     DEF OrientFlat, UnsureOK, Shape
<1>10. CASE OpenRoundFlat
  <2>0. /\ job = "live" /\ w.pc = "open"
        /\ UNCHANGED <<body, wf, cp, probe, job, api, changed, sent, blame, count>>
    BY <1>10 DEF OpenRoundFlat
  <2>1. CASE /\ CanStartRound /\ j' = RoundStarted
             /\ Checkpoint([cp EXCEPT !.node = "generate", !.round = j.settled])
    BY <2>0, <2>1, CheckpointWorker, RoundStartedFields, <1>0
       DEF UnsureOK, Shape
  <2>2. CASE ~(j.status # "stopped" /\ CanStartRound) /\ j' = j /\ Raise("error")
    BY <2>0, <2>2, RaiseWorker, <1>0
       DEF UnsureOK, Shape
  <2> QED BY <1>10, <2>1, <2>2 DEF OpenRoundFlat
<1>11. CASE GenerateFlat
  BY <1>11, RaiseWorker, CheckpointWorker, StartWorker, <1>0
     DEF GenerateFlat, UnsureOK, Shape
<1>12. CASE StartCallFlat
  <2>0. /\ job = "live" /\ w.pc = "start"
        /\ UNCHANGED <<body, wf, cp, probe, job, api, changed, sent, blame, count>>
    BY <1>12 DEF StartCallFlat
  <2>1. CASE CanStartCall(Call) /\ j' = CallStarted(Call) /\ Goto("send")
    <3>1. w'.pc = "send" /\ j'.unsure = j.unsure /\ j'.status = j.status
      BY <2>1, GotoWorker, CallStartedFields DEF Shape
    <3> QED BY <1>0, <2>0, <3>1 DEF UnsureOK
  <2>2. CASE ~(j.status # "stopped" /\ CanStartCall(Call)) /\ j' = j /\ Raise("error")
    BY <2>0, <2>2, RaiseWorker, <1>0
       DEF UnsureOK, Shape
  <2> QED BY <1>12, <2>1, <2>2 DEF StartCallFlat
<1>13. CASE SendFlat
  BY <1>13, GotoWorker, <1>0
     DEF SendFlat, UnsureOK, Shape
<1>14. CASE SendRefusedFlat
  <2>0. /\ job = "live" /\ w.pc = "send"
        /\ blame' = blame \cup {"refused"}
        /\ UNCHANGED <<body, wf, cp, job, api, changed, sent, count>>
    BY <1>14 DEF SendRefusedFlat
  <2>1. CASE j.status = "stopped" /\ Raise("error") /\ UNCHANGED <<j, probe>>
    <3>1. j.calls = {} /\ j' = j /\ probe' = probe /\ j.status = "stopped"
      BY <2>0, <2>1 DEF JournalOK
    <3> QED BY <3>1 DEF UnsureOK
  <2>2. CASE /\ j.status # "stopped" /\ j' = CallRejected(Call) /\ cp.node = "generate"
             /\ Raise("budget") /\ probe' = probe
    <3>1. j'.calls = {} /\ j'.unsure = j.unsure /\ j'.status = j.status
      BY <2>0, <2>2, CallRejectedFields DEF Shape, PendingOK, CallPending, Asking
    <3>2. probe' = probe
      BY <2>0, <2>2
    <3> QED BY <1>0, <2>0, <3>1, <3>2 DEF UnsureOK
  <2>3. CASE /\ j.status # "stopped" /\ j' = CallRejected(Call) /\ cp.node # "generate"
             /\ probe' = [probe EXCEPT ![Here] = "spent"] /\ ProbeLoop
    <3>1. j'.calls = {} /\ j'.unsure = j.unsure /\ j'.status = j.status
      BY <2>0, <2>3, CallRejectedFields DEF Shape, PendingOK, CallPending, Asking
    <3>2. /\ DOMAIN probe' = DOMAIN probe
          /\ \A y \in DOMAIN probe : probe'[y] = "spent" \/ probe'[y] = probe[y]
      BY <2>3, ProbeMoves
    <3> QED BY <1>0, <2>0, <3>1, <3>2 DEF UnsureOK
  <2> QED BY <1>14, <2>1, <2>2, <2>3 DEF SendRefusedFlat
<1>15. CASE AnsweredFlat
  BY <1>15, KeepWorker, <1>0
     DEF AnsweredFlat, UnsureOK, Shape
<1>16. CASE AnswerUnknownFlat
  <2>0. /\ job = "live" /\ w.pc = "answer"
        /\ blame' = blame \cup {"provider"}
        /\ UNCHANGED <<body, wf, cp, job, api, changed, sent, count>>
    BY <1>16 DEF AnswerUnknownFlat
  <2>1. CASE j.status = "stopped" /\ Raise("error") /\ UNCHANGED <<j, probe>>
    <3>1. j.calls = {} /\ j' = j /\ probe' = probe /\ j.status = "stopped"
      BY <2>0, <2>1 DEF JournalOK
    <3> QED BY <3>1 DEF UnsureOK
  <2>2. CASE /\ j.status # "stopped" /\ j' = CallUncertain(Call) /\ cp.node = "generate"
             /\ Raise("error") /\ probe' = probe
    <3>1. j'.calls = {} /\ body' = body
      BY <2>0, <2>2, CallUncertainFields DEF Shape, PendingOK, CallPending, Asking
    <3>2. Cause'
      BY <2>0 DEF Cause, Causes
    <3> QED BY <3>1, <3>2 DEF UnsureOK
  <2>3. CASE /\ j.status # "stopped" /\ j' = CallUncertain(Call) /\ cp.node # "generate"
             /\ probe' = [probe EXCEPT ![Here] = "bad"] /\ ProbeLoop
    <3>1. j'.calls = {} /\ body' = body
      BY <2>0, <2>3, CallUncertainFields DEF Shape, PendingOK, CallPending, Asking
    <3>2. Cause'
      BY <2>0 DEF Cause, Causes
    <3> QED BY <3>1, <3>2 DEF UnsureOK
  <2> QED BY <1>16, <2>1, <2>2, <2>3 DEF AnswerUnknownFlat
<1>17. CASE AnswerMalformedFlat
  <2>0. /\ job = "live" /\ w.pc = "answer"
        /\ sent' = [sent EXCEPT ![Call] = 0]
        /\ UNCHANGED <<body, wf, cp, job, api, changed, blame, count>>
    BY <1>17 DEF AnswerMalformedFlat
  <2>1. CASE j.status = "stopped" /\ Raise("error") /\ UNCHANGED <<j, probe>>
    <3>1. j.calls = {} /\ j' = j /\ probe' = probe /\ j.status = "stopped"
      BY <2>0, <2>1 DEF JournalOK
    <3> QED BY <3>1 DEF UnsureOK
  <2>2. CASE /\ j.status # "stopped" /\ j' = CallRejected(Call) /\ cp.node = "generate"
             /\ ToStart(2) /\ probe' = probe
    <3>1. j'.calls = {} /\ j'.unsure = j.unsure /\ j'.status = j.status
      BY <2>0, <2>2, CallRejectedFields DEF Shape, PendingOK, CallPending, Asking
    <3>2. probe' = probe
      BY <2>0, <2>2
    <3> QED BY <1>0, <2>0, <3>1, <3>2 DEF UnsureOK
  <2>3. CASE /\ j.status # "stopped" /\ j' = CallRejected(Call) /\ cp.node # "generate"
             /\ probe' = [probe EXCEPT ![Here] = "end"] /\ ProbeLoop
    <3>1. j'.calls = {} /\ j'.unsure = j.unsure /\ j'.status = j.status
      BY <2>0, <2>3, CallRejectedFields DEF Shape, PendingOK, CallPending, Asking
    <3>2. /\ DOMAIN probe' = DOMAIN probe
          /\ \A y \in DOMAIN probe : probe'[y] = "end" \/ probe'[y] = probe[y]
      BY <2>3, ProbeMoves
    <3> QED BY <1>0, <2>0, <3>1, <3>2 DEF UnsureOK
  <2> QED BY <1>17, <2>1, <2>2, <2>3 DEF AnswerMalformedFlat
<1>18. CASE AnswerUnavailableFlat
  <2>0. /\ job = "live" /\ w.pc = "answer"
        /\ sent' = [sent EXCEPT ![Call] = 0]
        /\ blame' = blame \cup {"provider"}
        /\ UNCHANGED <<body, wf, cp, job, api, changed, count>>
    BY <1>18 DEF AnswerUnavailableFlat
  <2>1. CASE j.status = "stopped" /\ Raise("error") /\ UNCHANGED <<j, probe>>
    <3>1. j.calls = {} /\ j' = j /\ probe' = probe /\ j.status = "stopped"
      BY <2>0, <2>1 DEF JournalOK
    <3> QED BY <3>1 DEF UnsureOK
  <2>2. CASE /\ j.status # "stopped" /\ j' = CallRejected(Call) /\ cp.node = "generate"
             /\ Raise("error") /\ probe' = probe
    <3>1. j'.calls = {} /\ body' = body
      BY <2>0, <2>2, CallRejectedFields DEF Shape, PendingOK, CallPending, Asking
    <3>2. Cause'
      BY <2>0 DEF Cause, Causes
    <3> QED BY <3>1, <3>2 DEF UnsureOK
  <2>3. CASE /\ j.status # "stopped" /\ j' = CallRejected(Call) /\ cp.node # "generate"
             /\ probe' = [probe EXCEPT ![Here] = "end"] /\ ProbeLoop
    <3>1. j'.calls = {} /\ body' = body
      BY <2>0, <2>3, CallRejectedFields DEF Shape, PendingOK, CallPending, Asking
    <3>2. Cause'
      BY <2>0 DEF Cause, Causes
    <3> QED BY <3>1, <3>2 DEF UnsureOK
  <2> QED BY <1>18, <2>1, <2>2, <2>3 DEF AnswerUnavailableFlat
<1>19. CASE KeepAnswerFlat
  <2>1. w.pc = "keep" /\ j' = j /\ probe' = probe /\ DOMAIN body' = DOMAIN body \cup {Call}
    BY <1>19 DEF KeepAnswerFlat, Put
  <2>2. j.calls \subseteq {Call}
    BY <2>1 DEF PendingOK, CallPending, Asking
  <2> QED BY <1>0, <2>1, <2>2 DEF UnsureOK
<1>20. CASE CompleteCallFlat
  <2>0. /\ job = "live" /\ w.pc = "complete"
        /\ UNCHANGED <<body, wf, cp, probe, job, api, changed, sent, blame, count>>
    BY <1>20 DEF CompleteCallFlat
  <2>1. CASE /\ j.status # "stopped" /\ Call \in j.calls
             /\ j' = CallCompleted(Call, w.val) /\ cp.node = "generate"
             /\ Checkpoint([cp EXCEPT !.node = "schedule"])
    <3>1. j'.calls = {} /\ j'.unsure = j.unsure /\ j'.status = j.status
      BY <2>0, <2>1, CallCompletedFields DEF Shape, PendingOK, CallPending, Asking
    <3>2. probe' = probe
      BY <2>0, <2>1
    <3> QED BY <1>0, <2>0, <3>1, <3>2 DEF UnsureOK
  <2>2. CASE /\ j.status # "stopped" /\ Call \in j.calls
             /\ j' = CallCompleted(Call, w.val) /\ cp.node # "generate" /\ ProbeLoop
    <3>1. j'.calls = {} /\ j'.unsure = j.unsure /\ j'.status = j.status
      BY <2>0, <2>2, CallCompletedFields DEF Shape, PendingOK, CallPending, Asking
    <3>2. probe' = probe
      BY <2>0, <2>2
    <3> QED BY <1>0, <2>0, <3>1, <3>2 DEF UnsureOK
  <2>3. CASE ~(j.status # "stopped" /\ Call \in j.calls) /\ j' = j /\ Raise("error")
    <3>1. j.calls = {} /\ j' = j /\ probe' = probe
      BY <2>0, <2>3 DEF JournalOK, PendingOK, CallPending, Asking
    <3> QED BY <1>0, <3>1 DEF UnsureOK
  <2> QED BY <1>20, <2>1, <2>2, <2>3 DEF CompleteCallFlat
<1>21. CASE ScheduleFlat
  BY <1>21, RaiseWorker, CheckpointWorker, <1>0
     DEF ScheduleFlat, UnsureOK, Shape
<1>22. CASE PassNodeFlat
  BY <1>22, RaiseWorker, CheckpointWorker, <1>0
     DEF PassNodeFlat, UnsureOK, Shape
<1>23. CASE ExecuteFlat
  <2>0. /\ job = "live" /\ w.pc = "node" /\ cp.node = "execute_probes"
        /\ UNCHANGED <<j, body, wf, cp, probe, job, api, changed, sent, blame, count>>
    BY <1>23 DEF ExecuteFlat
  <2>1. CASE j.status # "running" /\ Raise(IF j.status = "stopped" THEN "cancel" ELSE "pause")
    BY <2>0, <2>1, RaiseWorker, <1>0
       DEF UnsureOK, Shape
  <2>2. CASE j.status = "running" /\ ToProbes
    BY <2>0, <2>2, ProbesWorker, <1>0, SMTT(60)
       DEF UnsureOK, Shape
  <2> QED BY <1>23, <2>1, <2>2 DEF ExecuteFlat
<1>24. CASE NextProbeFlat
  BY <1>24, RaiseWorker, CheckpointWorker, ProbeWorker, <1>0
     DEF NextProbeFlat, UnsureOK, Shape
<1>25. CASE AskModelFlat
  <2>0. /\ job = "live" /\ w.pc = "probes" /\ w.p <= cp.n
        /\ UNCHANGED <<j, body, wf, cp, job, api, changed, sent, blame, count>>
    BY <1>25 DEF AskModelFlat
  <2>1. CASE Call \in j.unsure /\ probe' = [probe EXCEPT ![Here] = "bad"] /\ ProbeLoop
    <3>1. Cause \/ j.status = "stopped"
      BY <2>1 DEF UnsureOK
    <3> QED BY <1>0, <2>0, <3>1 DEF UnsureOK, PendingOK, CallPending, Asking, Waiting
  <2>2. CASE /\ Done(Call) /\ j.dig[Call] # body[Call]
             /\ probe' = [probe EXCEPT ![Here] = "bad"] /\ ProbeLoop
    <3>1. Call[1] = "ask"
      BY <2>0 DEF PlaceOK, Tooling, Call, Ask
    <3> QED BY <2>2, <3>1 DEF Kept, DigestsStand, Done
  <2>3. CASE /\ \E x \in {"tools", "end", "spent"} : probe' = [probe EXCEPT ![Here] = x]
             /\ ProbeLoop
    <3>1. PICK x \in {"tools", "end", "spent"} : probe' = [probe EXCEPT ![Here] = x]
      BY <2>3
    <3>2. /\ DOMAIN probe' = DOMAIN probe
          /\ \A y \in DOMAIN probe : probe'[y] = x \/ probe'[y] = probe[y]
      BY <3>1, ProbeMoves
    <3> QED BY <1>0, <2>0, <3>2 DEF UnsureOK
  <2>4. CASE /\ ~Done(Call) /\ Call \notin j.unsure /\ CanSend
             /\ Goto("start") /\ probe' = probe
    BY <2>0, <2>4, GotoWorker, <1>0
       DEF UnsureOK, Shape
  <2> QED BY <1>25, <2>1, <2>2, <2>3, <2>4 DEF AskModelFlat
<1>26. CASE UseToolFlat
  <2>0. /\ job = "live" /\ w.pc = "probes" /\ w.p <= cp.n
        /\ UNCHANGED <<j, body, wf, cp, job, api, changed, sent, blame, count>>
    BY <1>26 DEF UseToolFlat
  <2>1. CASE Done(Mine) /\ Mine \notin DOMAIN body /\ probe' = [probe EXCEPT ![Here] = "bad"] /\ ProbeLoop
    <3> QED BY <2>1 DEF Kept, DigestsStand, Done
  <2>2. CASE /\ \E x \in {"end", "spent"} : probe' = [probe EXCEPT ![Here] = x]
             /\ ProbeLoop
    <3>1. PICK x \in {"end", "spent"} : probe' = [probe EXCEPT ![Here] = x]
      BY <2>2
    <3>2. /\ DOMAIN probe' = DOMAIN probe
          /\ \A y \in DOMAIN probe : probe'[y] = x \/ probe'[y] = probe[y]
      BY <3>1, ProbeMoves
    <3> QED BY <1>0, <2>0, <3>2 DEF UnsureOK
  <2>3. CASE ~Done(Mine) /\ ~(w.led <= 0) /\ Goto("tstart") /\ probe' = probe
    BY <2>0, <2>3, GotoWorker, <1>0
       DEF UnsureOK, Shape
  <2> QED BY <1>26, <2>1, <2>2, <2>3 DEF UseToolFlat
<1>27. CASE StartToolFlat
  BY <1>27, GotoWorker, RaiseWorker, ToolStartedFields, <1>0
     DEF StartToolFlat, UnsureOK, Shape
<1>28. CASE RunToolFlat
  BY <1>28, ResultWorker, <1>0
     DEF RunToolFlat, UnsureOK, Shape
<1>29. CASE FailToolFlat
  <2>0. /\ job = "live" /\ w.pc = "run"
        /\ UNCHANGED <<body, wf, cp, job, api, changed, sent, blame, count>>
    BY <1>29 DEF FailToolFlat
  <2>1. CASE j.status = "stopped" /\ Raise("error") /\ UNCHANGED <<j, probe>>
    BY <2>0, <2>1, RaiseWorker, <1>0
       DEF UnsureOK, Shape
  <2>2. CASE /\ j.status # "stopped" /\ j' = ToolFailed(Mine)
             /\ probe' = [probe EXCEPT ![Here] = "end"] /\ ProbeLoop
    <3>1. j'.calls = j.calls /\ j'.unsure = j.unsure /\ j'.status = j.status
      BY <2>2, ToolFailedFields DEF Shape
    <3>2. /\ DOMAIN probe' = DOMAIN probe
          /\ \A y \in DOMAIN probe : probe'[y] = "end" \/ probe'[y] = probe[y]
      BY <2>2, ProbeMoves
    <3> QED BY <1>0, <2>0, <3>1, <3>2 DEF UnsureOK
  <2> QED BY <1>29, <2>1, <2>2 DEF FailToolFlat
<1>30. CASE KeepResultFlat
  <2>1. w.pc = "tkeep" /\ j' = j /\ probe' = probe /\ DOMAIN body \subseteq DOMAIN body'
    BY <1>30 DEF KeepResultFlat, Put
  <2> QED BY <1>0, <2>1 DEF UnsureOK
<1>31. CASE PrepareReceiptFlat
  <2>0. /\ job = "live" /\ w.pc = "prepare"
        /\ UNCHANGED <<body, wf, cp, probe, job, api, changed, sent, blame, count>>
    BY <1>31 DEF PrepareReceiptFlat
  <2>1. CASE /\ j.status # "stopped" /\ Mine \in j.slots
             /\ j' = ReceiptPrepared(Mine) /\ Goto("commit")
    BY <2>0, <2>1, GotoWorker, ReceiptPreparedFields, <1>0
       DEF UnsureOK, Shape
  <2>2. CASE ~(j.status # "stopped" /\ Mine \in j.slots) /\ j' = j /\ Raise("error")
    BY <2>0, <2>2, RaiseWorker, <1>0
       DEF UnsureOK, Shape
  <2> QED BY <1>31, <2>1, <2>2 DEF PrepareReceiptFlat
<1>32. CASE CommitReceiptFlat
  <2>0. /\ job = "live" /\ w.pc = "commit"
        /\ UNCHANGED <<body, wf, cp, probe, job, api, changed, sent, blame, count>>
    BY <1>32 DEF CommitReceiptFlat
  <2>1. CASE /\ j.status # "stopped" /\ Mine \in j.prep
             /\ j' = ReceiptCommitted(Mine, w.val) /\ ProbeLoop
    BY <2>0, <2>1, ProbeLoopWorker, ReceiptCommittedFields, <1>0
       DEF UnsureOK, Shape
  <2>2. CASE ~(j.status # "stopped" /\ Mine \in j.prep) /\ j' = j /\ Raise("error")
    BY <2>0, <2>2, RaiseWorker, <1>0
       DEF UnsureOK, Shape
  <2> QED BY <1>32, <2>1, <2>2 DEF CommitReceiptFlat
<1>33. CASE ReduceFlat
  BY <1>33, GotoWorker, RaiseWorker, CheckpointWorker, OutcomeWorker, <1>0
     DEF ReduceFlat, UnsureOK, Shape
<1>34. CASE GateVerdictFlat
  BY <1>34, GotoWorker, RaiseWorker, GatedFields, <1>0
     DEF GateVerdictFlat, UnsureOK, Shape
<1>35. CASE PersistReductionFlat
  BY <1>35, OutcomeWorker, <1>0
     DEF PersistReductionFlat, UnsureOK, Shape
<1>36. CASE KeepReductionFlat
  <2>1. w.pc = "rkeep" /\ j' = j /\ probe' = probe /\ DOMAIN body \subseteq DOMAIN body'
    BY <1>36 DEF KeepReductionFlat, Put
  <2> QED BY <1>0, <2>1 DEF UnsureOK
<1>37. CASE CommitReductionFlat
  <2>0. /\ job = "live" /\ w.pc = "reduce"
        /\ UNCHANGED <<body, wf, cp, probe, job, api, changed, sent, blame, count>>
    BY <1>37 DEF CommitReductionFlat
  <2>1. CASE /\ j.status = "running" /\ NoPending /\ j.open /\ j' = ReductionCommitted(w.val)
             /\ Checkpoint([cp EXCEPT !.node = "settle", !.red = w.val, !.before = Snapshot])
    BY <2>0, <2>1, CheckpointWorker, ReductionCommittedFields, <1>0
       DEF UnsureOK, Shape
  <2>2. CASE ~(j.status = "running" /\ NoPending /\ j.open) /\ j' = j /\ Raise("error")
    BY <2>0, <2>2, RaiseWorker, <1>0
       DEF UnsureOK, Shape
  <2> QED BY <1>37, <2>1, <2>2 DEF CommitReductionFlat
<1>38. CASE SettleFlat
  BY <1>38, GotoWorker, RaiseWorker, RoundSettledFields, <1>0
     DEF SettleFlat, UnsureOK, Shape
<1>39. CASE AfterSettleFlat
  BY <1>39, RaiseWorker, CheckpointWorker, <1>0
     DEF AfterSettleFlat, UnsureOK, Shape
<1>40. CASE SynthesizeFlat
  BY <1>40, RaiseWorker, StopWorker, <1>0
     DEF SynthesizeFlat, UnsureOK, Shape
<1>41. CASE StopFlat
  <2>0. /\ job = "live" /\ w.pc = "stop"
        /\ UNCHANGED <<body, wf, cp, probe, api, changed, sent, count>>
    BY <1>41 DEF StopFlat
  <2>1. CASE /\ CanStop(w.reason) /\ j' = Stopped(w.reason, w.report)
             /\ ToFresh("ending") /\ UNCHANGED <<job, blame>>
    <3>1. j'.status = "stopped" /\ j'.calls = {}
      BY <2>0, <2>1, StoppedFields DEF Shape
    <3> QED BY <3>1 DEF UnsureOK
  <2>2. CASE ~CanStop(w.reason) /\ w.exc = None /\ UNCHANGED <<j, job, blame>> /\ Raise("error")
    BY <2>0, <2>2, RaiseWorker, <1>0
       DEF UnsureOK, Shape
  <2>3. CASE /\ ~CanStop(w.reason) /\ w.exc = "budget" /\ UNCHANGED <<j, job, blame>>
             /\ ToBare
    BY <2>0, <2>3, BareWorker, <1>0
       DEF UnsureOK, Shape
  <2>4. CASE j' = j /\ w' = Off /\ job' = "failed" /\ blame' = blame \cup {"race"}
    BY <2>0, <2>4, OffWorker, <1>0
       DEF UnsureOK, Shape
  <2> QED BY <1>41, <2>1, <2>2, <2>3, <2>4 DEF StopFlat
<1>42. CASE HandlePauseFlat
  BY <1>42, HandlePauseMoves, <1>0
     DEF UnsureOK, Shape
<1>43. CASE HandleCancelFlat
  BY <1>43, FreshWorker, <1>0
     DEF HandleCancelFlat, UnsureOK, Shape
<1>44. CASE HandleStopFlat
  BY <1>44, RaiseWorker, StopWorker, <1>0
     DEF HandleStopFlat, UnsureOK, Shape
<1>45. CASE CrashFlat
  <2>1. UNCHANGED <<j, body, probe>> /\ blame' = blame \cup {"crash", Window}
    BY <1>45 DEF CrashFlat
  <2>2. w.pc \in {"send", "answer", "keep"} => Window = "inflight"
    BY DEF Window
  <2> QED BY <1>0, <2>1, <2>2 DEF UnsureOK
<1>46. CASE PauseFlat
  BY <1>46, PauseMoves, <1>0
     DEF UnsureOK, Shape
<1>47. CASE ResumeFlat
  <2>0. /\ j.status = "paused" /\ api = "idle"
        /\ UNCHANGED <<body, wf, cp, probe, w, job, changed, sent, blame, count>>
    BY <1>47 DEF ResumeFlat
  <2>1. CASE changed /\ j' = Stopped("state_witness_changed", FALSE) /\ api' = api
    <3>1. j'.status = "stopped" /\ j'.calls = {}
      BY <2>0, <2>1, StoppedFields DEF Shape
    <3> QED BY <3>1 DEF UnsureOK
  <2>2. CASE /\ job \notin {"queued", "live"} /\ j' = [j EXCEPT !.status = "running"]
             /\ api' = "launching"
    BY <2>0, <2>2, StatusFields, <1>0
       DEF UnsureOK, Shape
  <2> QED BY <1>47, <2>1, <2>2 DEF ResumeFlat
<1>48. CASE LaunchFlat
  <2>0. /\ api = "launching"
        /\ api' = "idle"
        /\ UNCHANGED <<body, wf, cp, probe, w, changed, sent>>
    BY <1>48 DEF LaunchFlat
  <2>1. CASE job' = "queued" /\ UNCHANGED <<j, blame, count>>
    BY <2>0, <2>1, <1>0
       DEF UnsureOK, Shape
  <2>2. CASE /\ j.status = "stopped" /\ j' = j
             /\ blame' = blame \cup {"launch"} /\ UNCHANGED <<job, count>>
    BY <2>0, <2>2, <1>0
       DEF UnsureOK, Shape
  <2>3. CASE /\ j.status # "stopped" /\ j' = Stopped("failed", FALSE)
             /\ blame' = blame \cup {"launch"} /\ UNCHANGED <<job, count>>
    <3>1. j'.status = "stopped" /\ j'.calls = {}
      BY <2>0, <2>3, StoppedFields DEF Shape
    <3> QED BY <3>1 DEF UnsureOK
  <2>4. CASE /\ Room /\ count' = [count EXCEPT !.crashes = @ + 1]
             /\ blame' = blame \cup {"api"} /\ UNCHANGED <<j, job>>
    BY <2>0, <2>4, <1>0
       DEF UnsureOK, Shape
  <2> QED BY <1>48, <2>1, <2>2, <2>3, <2>4 DEF LaunchFlat
<1>49. CASE CancelFlat
  <2>1. j'.status = "stopped" /\ j'.calls = {}
    BY <1>49, StoppedFields DEF CancelFlat, Shape
  <2> QED BY <2>1 DEF UnsureOK
<1>50. CASE CancelJobFlat
  BY <1>50, OffWorker, <1>0
     DEF CancelJobFlat, UnsureOK, Shape, JournalOK
<1>51. CASE ExtendBudgetFlat
  BY <1>51, ExtendBudgetMoves, <1>0
     DEF UnsureOK, Shape
<1>52. CASE UNCHANGED <<j, w, body, probe, blame>>
  BY <1>52, <1>0 DEF UnsureOK, Shape
<1>53. QED
  BY NextIsFlat, <1>1, <1>2, <1>3, <1>4, <1>5, <1>6, <1>7, <1>8, <1>9, <1>10, <1>11, <1>12,
         <1>13, <1>14, <1>15, <1>16, <1>17, <1>18, <1>19, <1>20, <1>21, <1>22, <1>23, <1>24,
         <1>25, <1>26, <1>27, <1>28, <1>29, <1>30, <1>31, <1>32, <1>33, <1>34, <1>35, <1>36,
         <1>37, <1>38, <1>39, <1>40, <1>41, <1>42, <1>43, <1>44, <1>45, <1>46, <1>47, <1>48,
         <1>49, <1>50, <1>51, <1>52
     DEF NextFlat, vars, RerunFlat, ChangeDataFlat

\* A move of a tool slot charges no model call.
LEMMA SlotsKeepLlm ==
    ASSUME DOMAIN j = JFields, NEW t, SlotMoves(t)
    PROVE  j'.llm = j.llm
<1>1. CASE \E d : j' = ReceiptCommitted(t, d)
  BY <1>1, ReceiptCommittedFields
<1>2. CASE j' = ReceiptPrepared(t)
  BY <1>2, ReceiptPreparedFields
<1>3. CASE j' = ToolFailed(t)
  BY <1>3, ToolFailedFields
<1> QED BY <1>1, <1>2, <1>3 DEF SlotMoves

\* Every request the journal charged was sent.
LEMMA ChargedStep ==
    ASSUME Shape, JournalOK, CountOK, CkptOK(cp), PlaceOK, PendingOK, UnsureOK, ChargedOK,
           [Next]_vars
    PROVE  ChargedOK'
<1>0. /\ blame \subseteq blame' /\ (Cause => Cause')
      /\ j.llm \in Nat /\ count.reqs \in Nat /\ LlmCap \in Nat
  BY BlameGrows, BoundsAssumption DEF CountOK, LlmOK, Shape
<1>1. CASE ClaimFlat
  BY <1>1, FreshWorker, <1>0
     DEF ClaimFlat, ChargedOK, Shape, PlaceOK
<1>2. CASE VerifyFlat
  BY <1>2, GotoWorker, OffWorker, RecoverWorker, <1>0
     DEF VerifyFlat, ChargedOK, Shape
<1>3. CASE RecoverCallFlat
  <2>1. PICK c \in w.todo \cap Calls :
           \/ j' = j
           \/ c \notin DOMAIN body /\ j.status # "stopped" /\ j' = CallUncertain(c)
           \/ /\ j.status # "stopped"
              /\ j' = CallCompleted(c, IF c[1] = "gen" THEN Foreign ELSE body[c])
    BY <1>3 DEF RecoverCallFlat
  <2>2. count' = count /\ w.pc = "recover" /\ w'.pc \in {"off", "recover"}
    BY <1>3, OffWorker, SettleRestWorker DEF RecoverCallFlat, Shape
  <2>3. CASE j' = j
    BY <1>0, <2>2, <2>3 DEF ChargedOK
  <2>4. CASE c \notin DOMAIN body /\ j.status # "stopped" /\ j' = CallUncertain(c)
    <3>1. c \in j.calls
      BY <2>2, <2>4, ToolsAreNoCalls DEF PendingOK, TodoOK, JournalOK
    <3>2. Cause
      BY <2>2, <2>4, <3>1 DEF UnsureOK, Cause, Causes
    <3>3. j'.calls \subseteq j.calls
      BY <2>4, CallUncertainFields DEF Shape
    <3> QED BY <1>0, <3>2, <3>3 DEF ChargedOK
  <2>5. CASE /\ j.status # "stopped"
             /\ j' = CallCompleted(c, IF c[1] = "gen" THEN Foreign ELSE body[c])
    <3>1. c \in j.calls
      BY <2>2, <2>5, ToolsAreNoCalls DEF PendingOK, TodoOK, JournalOK
    <3>2. j'.calls = j.calls \ {c} /\ j'.llm = j.llm - 1 /\ j'.status = j.status
      BY <2>5, CallCompletedFields DEF Shape
    <3>3. j'.calls = {} /\ j.calls # {}
      BY <3>1, <3>2 DEF ChargedOK
    <3> QED BY <1>0, <2>2, <3>2, <3>3 DEF ChargedOK
  <2> QED BY <2>1, <2>3, <2>4, <2>5
<1>4. CASE RecoverToolFlat
  <2>1. count' = count /\ w.pc = "recover" /\ w'.pc \in {"off", "recover"}
    BY <1>4, OffWorker, SettleRestWorker DEF RecoverToolFlat, Shape
  <2>2. j' = j \/ \E t : SlotMoves(t)
    BY <1>4 DEF RecoverToolFlat, SlotMoves
  <2>3. j'.calls = j.calls /\ j'.llm = j.llm /\ j'.status = j.status
    BY <2>2, SlotsKeepLlm, SlotsKeepCalls, SlotsKeepEnd DEF Shape, EndStays
  <2> QED BY <1>0, <2>1, <2>3 DEF ChargedOK
<1>5. CASE RecoveredFlat
  BY <1>5, EnterWorker, <1>0
     DEF RecoveredFlat, ChargedOK, Shape
<1>6. CASE EnterFlat
  <2>0. /\ job = "live" /\ w.pc = "enter"
        /\ UNCHANGED <<body, wf, cp, probe, job, api, changed, sent, blame, count>>
    BY <1>6 DEF EnterFlat
  <2>1. CASE /\ j.status = "pause_requested" /\ j' = [j EXCEPT !.status = "paused"]
             /\ ToFresh("ending")
    BY <2>0, <2>1, FreshWorker, StatusFields, <1>0
       DEF ChargedOK, Shape
  <2>2. CASE j.status \in {"stopped", "paused"} /\ j' = j /\ ToFresh("ending")
    BY <2>0, <2>2, FreshWorker, <1>0
       DEF ChargedOK, Shape
  <2>3. CASE /\ j.status = "running" /\ j' = Stopped("state_witness_changed", FALSE)
             /\ ToFresh("ending")
    <3>1. j'.status = "stopped" /\ j'.calls = {}
      BY <2>0, <2>3, StoppedFields DEF Shape
    <3> QED BY <3>1 DEF ChargedOK
  <2>4. CASE j.status \notin {"pause_requested", "stopped", "paused"} /\ j' = j /\ Goto("node")
    BY <2>0, <2>4, GotoWorker, <1>0
       DEF ChargedOK, Shape
  <2> QED BY <1>6, <2>1, <2>2, <2>3, <2>4 DEF EnterFlat
<1>7. CASE WriteCheckpointFlat
  BY <1>7, NodeWorker, <1>0
     DEF WriteCheckpointFlat, ChargedOK, Shape
<1>8. CASE EndAttemptFlat
  BY <1>8, OffWorker, <1>0
     DEF EndAttemptFlat, ChargedOK, Shape
<1>9. CASE OrientFlat
  BY <1>9, GotoWorker, RaiseWorker, CheckpointWorker, <1>0
     DEF OrientFlat, ChargedOK, Shape
<1>10. CASE OpenRoundFlat
  <2>0. /\ job = "live" /\ w.pc = "open"
        /\ UNCHANGED <<body, wf, cp, probe, job, api, changed, sent, blame, count>>
    BY <1>10 DEF OpenRoundFlat
  <2>1. CASE /\ CanStartRound /\ j' = RoundStarted
             /\ Checkpoint([cp EXCEPT !.node = "generate", !.round = j.settled])
    BY <2>0, <2>1, CheckpointWorker, RoundStartedFields, <1>0
       DEF ChargedOK, Shape
  <2>2. CASE ~(j.status # "stopped" /\ CanStartRound) /\ j' = j /\ Raise("error")
    BY <2>0, <2>2, RaiseWorker, <1>0
       DEF ChargedOK, Shape
  <2> QED BY <1>10, <2>1, <2>2 DEF OpenRoundFlat
<1>11. CASE GenerateFlat
  BY <1>11, RaiseWorker, CheckpointWorker, StartWorker, <1>0
     DEF GenerateFlat, ChargedOK, Shape
<1>12. CASE StartCallFlat
  <2>0. /\ job = "live" /\ w.pc = "start"
        /\ UNCHANGED <<body, wf, cp, probe, job, api, changed, sent, blame, count>>
    BY <1>12 DEF StartCallFlat
  <2>1. CASE CanStartCall(Call) /\ j' = CallStarted(Call) /\ Goto("send")
    <3>1. /\ w'.pc = "send" /\ j.calls = {} /\ j'.calls = {Call}
          /\ j'.llm = j.llm /\ j'.status = j.status
      BY <2>0, <2>1, GotoWorker, CallStartedFields DEF Shape, PendingOK, CallPending, Asking,
         Waiting
    <3> QED BY <1>0, <2>0, <3>1 DEF ChargedOK
  <2>2. CASE ~(j.status # "stopped" /\ CanStartCall(Call)) /\ j' = j /\ Raise("error")
    BY <2>0, <2>2, RaiseWorker, <1>0
       DEF ChargedOK, Shape
  <2> QED BY <1>12, <2>1, <2>2 DEF StartCallFlat
<1>13. CASE SendFlat
  <2>1. w.pc = "send" /\ w'.pc = "answer" /\ j' = j /\ count'.reqs = count.reqs + 1
    BY <1>13, GotoWorker DEF SendFlat, Shape
  <2> QED BY <1>0, <2>1 DEF ChargedOK
<1>14. CASE SendRefusedFlat
  <2>0. /\ job = "live" /\ w.pc = "send"
        /\ blame' = blame \cup {"refused"}
        /\ UNCHANGED <<body, wf, cp, job, api, changed, sent, count>>
    BY <1>14 DEF SendRefusedFlat
  <2>1. CASE j.status = "stopped" /\ Raise("error") /\ UNCHANGED <<j, probe>>
    BY <2>0, <2>1, RaiseWorker, <1>0
       DEF ChargedOK, Shape
  <2>2. CASE /\ j.status # "stopped" /\ j' = CallRejected(Call) /\ cp.node = "generate"
             /\ Raise("budget") /\ probe' = probe
    <3>1. j'.calls \subseteq j.calls
      BY <2>0, <2>2, CallRejectedFields DEF Shape
    <3>2. Cause'
      BY <2>0 DEF Cause, Causes
    <3> QED BY <3>1, <3>2 DEF ChargedOK
  <2>3. CASE /\ j.status # "stopped" /\ j' = CallRejected(Call) /\ cp.node # "generate"
             /\ probe' = [probe EXCEPT ![Here] = "spent"] /\ ProbeLoop
    <3>1. j'.calls \subseteq j.calls
      BY <2>0, <2>3, CallRejectedFields DEF Shape
    <3>2. Cause'
      BY <2>0 DEF Cause, Causes
    <3> QED BY <3>1, <3>2 DEF ChargedOK
  <2> QED BY <1>14, <2>1, <2>2, <2>3 DEF SendRefusedFlat
<1>15. CASE AnsweredFlat
  BY <1>15, KeepWorker, <1>0
     DEF AnsweredFlat, ChargedOK, Shape
<1>16. CASE AnswerUnknownFlat
  <2>0. /\ job = "live" /\ w.pc = "answer"
        /\ blame' = blame \cup {"provider"}
        /\ UNCHANGED <<body, wf, cp, job, api, changed, sent, count>>
    BY <1>16 DEF AnswerUnknownFlat
  <2>1. CASE j.status = "stopped" /\ Raise("error") /\ UNCHANGED <<j, probe>>
    BY <2>0, <2>1, RaiseWorker, <1>0
       DEF ChargedOK, Shape
  <2>2. CASE /\ j.status # "stopped" /\ j' = CallUncertain(Call) /\ cp.node = "generate"
             /\ Raise("error") /\ probe' = probe
    <3>1. j'.calls \subseteq j.calls
      BY <2>0, <2>2, CallUncertainFields DEF Shape
    <3>2. Cause'
      BY <2>0 DEF Cause, Causes
    <3> QED BY <3>1, <3>2 DEF ChargedOK
  <2>3. CASE /\ j.status # "stopped" /\ j' = CallUncertain(Call) /\ cp.node # "generate"
             /\ probe' = [probe EXCEPT ![Here] = "bad"] /\ ProbeLoop
    <3>1. j'.calls \subseteq j.calls
      BY <2>0, <2>3, CallUncertainFields DEF Shape
    <3>2. Cause'
      BY <2>0 DEF Cause, Causes
    <3> QED BY <3>1, <3>2 DEF ChargedOK
  <2> QED BY <1>16, <2>1, <2>2, <2>3 DEF AnswerUnknownFlat
<1>17. CASE AnswerMalformedFlat
  <2>0. /\ job = "live" /\ w.pc = "answer"
        /\ sent' = [sent EXCEPT ![Call] = 0]
        /\ UNCHANGED <<body, wf, cp, job, api, changed, blame, count>>
    BY <1>17 DEF AnswerMalformedFlat
  <2>1. CASE j.status = "stopped" /\ Raise("error") /\ UNCHANGED <<j, probe>>
    BY <2>0, <2>1, RaiseWorker, <1>0
       DEF ChargedOK, Shape
  <2>2. CASE /\ j.status # "stopped" /\ j' = CallRejected(Call) /\ cp.node = "generate"
             /\ ToStart(2) /\ probe' = probe
    <3>1. j'.calls = {} /\ j'.llm = j.llm - 1 /\ j.calls # {} /\ j'.status = j.status
      BY <2>0, <2>2, CallRejectedFields DEF Shape, PendingOK, CallPending, Asking
    <3> QED BY <1>0, <2>0, <3>1 DEF ChargedOK
  <2>3. CASE /\ j.status # "stopped" /\ j' = CallRejected(Call) /\ cp.node # "generate"
             /\ probe' = [probe EXCEPT ![Here] = "end"] /\ ProbeLoop
    <3>1. j'.calls = {} /\ j'.llm = j.llm - 1 /\ j.calls # {} /\ j'.status = j.status
      BY <2>0, <2>3, CallRejectedFields DEF Shape, PendingOK, CallPending, Asking
    <3> QED BY <1>0, <2>0, <3>1 DEF ChargedOK
  <2> QED BY <1>17, <2>1, <2>2, <2>3 DEF AnswerMalformedFlat
<1>18. CASE AnswerUnavailableFlat
  <2>0. /\ job = "live" /\ w.pc = "answer"
        /\ sent' = [sent EXCEPT ![Call] = 0]
        /\ blame' = blame \cup {"provider"}
        /\ UNCHANGED <<body, wf, cp, job, api, changed, count>>
    BY <1>18 DEF AnswerUnavailableFlat
  <2>1. CASE j.status = "stopped" /\ Raise("error") /\ UNCHANGED <<j, probe>>
    BY <2>0, <2>1, RaiseWorker, <1>0
       DEF ChargedOK, Shape
  <2>2. CASE /\ j.status # "stopped" /\ j' = CallRejected(Call) /\ cp.node = "generate"
             /\ Raise("error") /\ probe' = probe
    <3>1. j'.calls \subseteq j.calls
      BY <2>0, <2>2, CallRejectedFields DEF Shape
    <3>2. Cause'
      BY <2>0 DEF Cause, Causes
    <3> QED BY <3>1, <3>2 DEF ChargedOK
  <2>3. CASE /\ j.status # "stopped" /\ j' = CallRejected(Call) /\ cp.node # "generate"
             /\ probe' = [probe EXCEPT ![Here] = "end"] /\ ProbeLoop
    <3>1. j'.calls \subseteq j.calls
      BY <2>0, <2>3, CallRejectedFields DEF Shape
    <3>2. Cause'
      BY <2>0 DEF Cause, Causes
    <3> QED BY <3>1, <3>2 DEF ChargedOK
  <2> QED BY <1>18, <2>1, <2>2, <2>3 DEF AnswerUnavailableFlat
<1>19. CASE KeepAnswerFlat
  BY <1>19, GotoWorker, <1>0
     DEF KeepAnswerFlat, ChargedOK, Shape
<1>20. CASE CompleteCallFlat
  <2>0. /\ job = "live" /\ w.pc = "complete"
        /\ UNCHANGED <<body, wf, cp, probe, job, api, changed, sent, blame, count>>
    BY <1>20 DEF CompleteCallFlat
  <2>1. CASE /\ j.status # "stopped" /\ Call \in j.calls
             /\ j' = CallCompleted(Call, w.val) /\ cp.node = "generate"
             /\ Checkpoint([cp EXCEPT !.node = "schedule"])
    <3>1. j'.calls = {} /\ j'.llm = j.llm - 1 /\ j.calls # {} /\ j'.status = j.status
      BY <2>0, <2>1, CallCompletedFields DEF Shape, PendingOK, CallPending, Asking
    <3> QED BY <1>0, <2>0, <3>1 DEF ChargedOK
  <2>2. CASE /\ j.status # "stopped" /\ Call \in j.calls
             /\ j' = CallCompleted(Call, w.val) /\ cp.node # "generate" /\ ProbeLoop
    <3>1. j'.calls = {} /\ j'.llm = j.llm - 1 /\ j.calls # {} /\ j'.status = j.status
      BY <2>0, <2>2, CallCompletedFields DEF Shape, PendingOK, CallPending, Asking
    <3> QED BY <1>0, <2>0, <3>1 DEF ChargedOK
  <2>3. CASE ~(j.status # "stopped" /\ Call \in j.calls) /\ j' = j /\ Raise("error")
    BY <2>0, <2>3, RaiseWorker, <1>0
       DEF ChargedOK, Shape
  <2> QED BY <1>20, <2>1, <2>2, <2>3 DEF CompleteCallFlat
<1>21. CASE ScheduleFlat
  BY <1>21, RaiseWorker, CheckpointWorker, <1>0
     DEF ScheduleFlat, ChargedOK, Shape
<1>22. CASE PassNodeFlat
  BY <1>22, RaiseWorker, CheckpointWorker, <1>0
     DEF PassNodeFlat, ChargedOK, Shape
<1>23. CASE ExecuteFlat
  <2>0. /\ job = "live" /\ w.pc = "node" /\ cp.node = "execute_probes"
        /\ UNCHANGED <<j, body, wf, cp, probe, job, api, changed, sent, blame, count>>
    BY <1>23 DEF ExecuteFlat
  <2>1. CASE j.status # "running" /\ Raise(IF j.status = "stopped" THEN "cancel" ELSE "pause")
    BY <2>0, <2>1, RaiseWorker, <1>0
       DEF ChargedOK, Shape
  <2>2. CASE j.status = "running" /\ ToProbes
    BY <2>0, <2>2, ProbesWorker, <1>0
       DEF ChargedOK, Shape
  <2> QED BY <1>23, <2>1, <2>2 DEF ExecuteFlat
<1>24. CASE NextProbeFlat
  <2>0. /\ job = "live" /\ w.pc = "probes"
        /\ UNCHANGED <<j, body, wf, cp, probe, job, api, changed, sent, blame, count>>
    BY <1>24 DEF NextProbeFlat
  <2>1. CASE \E spent : Checkpoint([cp EXCEPT !.node = "validate", !.spent = spent])
    BY <2>0, <2>1, CheckpointWorker, <1>0
       DEF ChargedOK, Shape
  <2>2. CASE ~(w.p > cp.n) /\ probe[Here] = "bad" /\ Raise("error")
    BY <2>0, <2>2, RaiseWorker, <1>0
       DEF ChargedOK, Shape
  <2>3. CASE ~(w.p > cp.n) /\ ToProbe(w.p + 1)
    BY <2>0, <2>3, ProbeWorker, <1>0
       DEF ChargedOK, Shape
  <2> QED BY <1>24, <2>1, <2>2, <2>3 DEF NextProbeFlat
<1>25. CASE AskModelFlat
  BY <1>25, GotoWorker, ProbeLoopWorker, <1>0
     DEF AskModelFlat, ChargedOK, Shape
<1>26. CASE UseToolFlat
  BY <1>26, GotoWorker, ProbeLoopWorker, <1>0
     DEF UseToolFlat, ChargedOK, Shape
<1>27. CASE StartToolFlat
  BY <1>27, GotoWorker, RaiseWorker, ToolStartedFields, <1>0
     DEF StartToolFlat, ChargedOK, Shape
<1>28. CASE RunToolFlat
  BY <1>28, ResultWorker, <1>0
     DEF RunToolFlat, ChargedOK, Shape
<1>29. CASE FailToolFlat
  BY <1>29, RaiseWorker, ProbeLoopWorker, ToolFailedFields, <1>0
     DEF FailToolFlat, ChargedOK, Shape
<1>30. CASE KeepResultFlat
  BY <1>30, PrepareWorker, <1>0
     DEF KeepResultFlat, ChargedOK, Shape
<1>31. CASE PrepareReceiptFlat
  BY <1>31, GotoWorker, RaiseWorker, ReceiptPreparedFields, <1>0
     DEF PrepareReceiptFlat, ChargedOK, Shape
<1>32. CASE CommitReceiptFlat
  <2>0. /\ job = "live" /\ w.pc = "commit"
        /\ UNCHANGED <<body, wf, cp, probe, job, api, changed, sent, blame, count>>
    BY <1>32 DEF CommitReceiptFlat
  <2>1. CASE /\ j.status # "stopped" /\ Mine \in j.prep
             /\ j' = ReceiptCommitted(Mine, w.val) /\ ProbeLoop
    BY <2>0, <2>1, ProbeLoopWorker, ReceiptCommittedFields, <1>0
       DEF ChargedOK, Shape
  <2>2. CASE ~(j.status # "stopped" /\ Mine \in j.prep) /\ j' = j /\ Raise("error")
    BY <2>0, <2>2, RaiseWorker, <1>0
       DEF ChargedOK, Shape
  <2> QED BY <1>32, <2>1, <2>2 DEF CommitReceiptFlat
<1>33. CASE ReduceFlat
  BY <1>33, GotoWorker, RaiseWorker, CheckpointWorker, OutcomeWorker, <1>0
     DEF ReduceFlat, ChargedOK, Shape
<1>34. CASE GateVerdictFlat
  <2>0. /\ job = "live" /\ w.pc = "gate"
        /\ UNCHANGED <<body, wf, cp, probe, job, api, changed, sent, blame, count>>
    BY <1>34 DEF GateVerdictFlat
  <2>1. CASE /\ j' = j \/ (j.status = "running" /\ j' = [j EXCEPT !.gated = @ \cup {cp.round}])
             /\ Goto("persist")
    BY <2>0, <2>1, GotoWorker, GatedFields, <1>0, SMTT(60)
       DEF ChargedOK, Shape
  <2>2. CASE ~(j.status = "running" /\ NoPending /\ j.open) /\ j' = j /\ Raise("error")
    BY <2>0, <2>2, RaiseWorker, <1>0
       DEF ChargedOK, Shape
  <2> QED BY <1>34, <2>1, <2>2 DEF GateVerdictFlat
<1>35. CASE PersistReductionFlat
  BY <1>35, OutcomeWorker, <1>0
     DEF PersistReductionFlat, ChargedOK, Shape
<1>36. CASE KeepReductionFlat
  BY <1>36, GotoWorker, RaiseWorker, <1>0
     DEF KeepReductionFlat, ChargedOK, Shape
<1>37. CASE CommitReductionFlat
  <2>0. /\ job = "live" /\ w.pc = "reduce"
        /\ UNCHANGED <<body, wf, cp, probe, job, api, changed, sent, blame, count>>
    BY <1>37 DEF CommitReductionFlat
  <2>1. CASE /\ j.status = "running" /\ NoPending /\ j.open /\ j' = ReductionCommitted(w.val)
             /\ Checkpoint([cp EXCEPT !.node = "settle", !.red = w.val, !.before = Snapshot])
    <3>1. /\ w'.pc = "ckpt" /\ j'.calls = j.calls
          /\ j'.llm = j.llm /\ j'.status = j.status
      BY <2>1, CheckpointWorker, ReductionCommittedFields DEF Shape
    <3> QED BY <1>0, <2>0, <3>1 DEF ChargedOK
  <2>2. CASE ~(j.status = "running" /\ NoPending /\ j.open) /\ j' = j /\ Raise("error")
    BY <2>0, <2>2, RaiseWorker, <1>0
       DEF ChargedOK, Shape
  <2> QED BY <1>37, <2>1, <2>2 DEF CommitReductionFlat
<1>38. CASE SettleFlat
  BY <1>38, GotoWorker, RaiseWorker, RoundSettledFields, <1>0
     DEF SettleFlat, ChargedOK, Shape
<1>39. CASE AfterSettleFlat
  BY <1>39, RaiseWorker, CheckpointWorker, <1>0
     DEF AfterSettleFlat, ChargedOK, Shape
<1>40. CASE SynthesizeFlat
  BY <1>40, RaiseWorker, StopWorker, <1>0
     DEF SynthesizeFlat, ChargedOK, Shape
<1>41. CASE StopFlat
  <2>0. /\ job = "live" /\ w.pc = "stop"
        /\ UNCHANGED <<body, wf, cp, probe, api, changed, sent, count>>
    BY <1>41 DEF StopFlat
  <2>1. CASE /\ CanStop(w.reason) /\ j' = Stopped(w.reason, w.report)
             /\ ToFresh("ending") /\ UNCHANGED <<job, blame>>
    <3>1. j'.status = "stopped" /\ j'.calls = {}
      BY <2>0, <2>1, StoppedFields DEF Shape
    <3> QED BY <3>1 DEF ChargedOK
  <2>2. CASE ~CanStop(w.reason) /\ w.exc = None /\ UNCHANGED <<j, job, blame>> /\ Raise("error")
    BY <2>0, <2>2, RaiseWorker, <1>0
       DEF ChargedOK, Shape
  <2>3. CASE /\ ~CanStop(w.reason) /\ w.exc = "budget" /\ UNCHANGED <<j, job, blame>>
             /\ ToBare
    BY <2>0, <2>3, BareWorker, <1>0
       DEF ChargedOK, Shape
  <2>4. CASE j' = j /\ w' = Off /\ job' = "failed" /\ blame' = blame \cup {"race"}
    BY <2>0, <2>4, OffWorker, <1>0
       DEF ChargedOK, Shape
  <2> QED BY <1>41, <2>1, <2>2, <2>3, <2>4 DEF StopFlat
<1>42. CASE HandlePauseFlat
  BY <1>42, HandlePauseMoves, <1>0
     DEF ChargedOK, Shape
<1>43. CASE HandleCancelFlat
  BY <1>43, FreshWorker, <1>0
     DEF HandleCancelFlat, ChargedOK, Shape
<1>44. CASE HandleStopFlat
  BY <1>44, RaiseWorker, StopWorker, <1>0
     DEF HandleStopFlat, ChargedOK, Shape
<1>45. CASE CrashFlat
  <2>1. /\ UNCHANGED j /\ blame' = blame \cup {"crash", Window}
        /\ count'.reqs = count.reqs /\ w'.pc = "off"
    BY <1>45, OffWorker DEF CrashFlat, Shape
  <2>2. w.pc = "send" => Window = "inflight"
    BY DEF Window
  <2>3. w.pc = "send" => Cause'
    BY <2>1, <2>2 DEF Cause, Causes
  <2> QED BY <1>0, <2>1, <2>3 DEF ChargedOK
<1>46. CASE PauseFlat
  BY <1>46, PauseMoves, <1>0
     DEF ChargedOK, Shape
<1>47. CASE ResumeFlat
  <2>0. /\ j.status = "paused" /\ api = "idle"
        /\ UNCHANGED <<body, wf, cp, probe, w, job, changed, sent, blame, count>>
    BY <1>47 DEF ResumeFlat
  <2>1. CASE changed /\ j' = Stopped("state_witness_changed", FALSE) /\ api' = api
    <3>1. j'.status = "stopped" /\ j'.calls = {}
      BY <2>0, <2>1, StoppedFields DEF Shape
    <3> QED BY <3>1 DEF ChargedOK
  <2>2. CASE /\ job \notin {"queued", "live"} /\ j' = [j EXCEPT !.status = "running"]
             /\ api' = "launching"
    BY <2>0, <2>2, StatusFields, <1>0
       DEF ChargedOK, Shape
  <2> QED BY <1>47, <2>1, <2>2 DEF ResumeFlat
<1>48. CASE LaunchFlat
  <2>0. /\ api = "launching"
        /\ api' = "idle"
        /\ UNCHANGED <<body, wf, cp, probe, w, changed, sent>>
    BY <1>48 DEF LaunchFlat
  <2>1. CASE job' = "queued" /\ UNCHANGED <<j, blame, count>>
    BY <2>0, <2>1, <1>0
       DEF ChargedOK, Shape
  <2>2. CASE /\ j.status = "stopped" /\ j' = j
             /\ blame' = blame \cup {"launch"} /\ UNCHANGED <<job, count>>
    BY <2>0, <2>2, <1>0
       DEF ChargedOK, Shape
  <2>3. CASE /\ j.status # "stopped" /\ j' = Stopped("failed", FALSE)
             /\ blame' = blame \cup {"launch"} /\ UNCHANGED <<job, count>>
    <3>1. j'.status = "stopped" /\ j'.calls = {}
      BY <2>0, <2>3, StoppedFields DEF Shape
    <3> QED BY <3>1 DEF ChargedOK
  <2>4. CASE /\ Room /\ count' = [count EXCEPT !.crashes = @ + 1]
             /\ blame' = blame \cup {"api"} /\ UNCHANGED <<j, job>>
    BY <2>0, <2>4, <1>0
       DEF ChargedOK, Shape
  <2> QED BY <1>48, <2>1, <2>2, <2>3, <2>4 DEF LaunchFlat
<1>49. CASE CancelFlat
  <2>1. j'.status = "stopped" /\ j'.calls = {}
    BY <1>49, StoppedFields DEF CancelFlat, Shape
  <2> QED BY <2>1 DEF ChargedOK
<1>50. CASE CancelJobFlat
  BY <1>50, OffWorker, <1>0
     DEF CancelJobFlat, ChargedOK, Shape, JournalOK
<1>51. CASE ExtendBudgetFlat
  BY <1>51, ExtendBudgetMoves, <1>0
     DEF ChargedOK, Shape
<1>52. CASE UNCHANGED <<j, w, blame, count>>
  BY <1>52, <1>0 DEF ChargedOK, Shape
<1>53. QED
  BY NextIsFlat, <1>1, <1>2, <1>3, <1>4, <1>5, <1>6, <1>7, <1>8, <1>9, <1>10, <1>11, <1>12,
         <1>13, <1>14, <1>15, <1>16, <1>17, <1>18, <1>19, <1>20, <1>21, <1>22, <1>23, <1>24,
         <1>25, <1>26, <1>27, <1>28, <1>29, <1>30, <1>31, <1>32, <1>33, <1>34, <1>35, <1>36,
         <1>37, <1>38, <1>39, <1>40, <1>41, <1>42, <1>43, <1>44, <1>45, <1>46, <1>47, <1>48,
         <1>49, <1>50, <1>51, <1>52
     DEF NextFlat, vars, RerunFlat, ChangeDataFlat

\* An error that has its cause leaves every failure with one.
LEMMA ErrorAfter ==
    ASSUME ErrorOK, Cause => Cause', NEW e, Raise(e), j'.reason = j.reason,
           e = "error" => Cause \/ j'.status # "running"
    PROVE  ErrorOK'
<1>1. w'.pc = "raised" /\ w'.exc = e
  BY RaiseWorker
<1> QED BY <1>1 DEF ErrorOK

\* A run fails only for a cause.
LEMMA ErrorStep ==
    ASSUME Shape, JournalOK, CountOK, CkptOK(cp), PlaceOK, PendingOK, Kept, BodyOK, LedOK,
           DecidedOK, RaisedOK, UnsureOK, ChargedOK, ReqsOK, SchedOK, OpenOK, ErrorOK,
         [Next]_vars
    PROVE  ErrorOK'
<1>0. /\ blame \subseteq blame' /\ (Cause => Cause')
  BY BlameGrows
<1>1. CASE ClaimFlat
  BY <1>1, FreshWorker, <1>0
     DEF ClaimFlat, ErrorOK, Shape
<1>2. CASE VerifyFlat
  BY <1>2, GotoWorker, OffWorker, RecoverWorker, <1>0
     DEF VerifyFlat, ErrorOK, Shape
<1>3. CASE RecoverCallFlat
  <2>1. w'.pc \in {"off", "recover"}
    BY <1>3, OffWorker, SettleRestWorker DEF RecoverCallFlat, Shape
  <2>2. EndStays
    BY <1>3, SettlingKeepsEnd DEF RecoverCallFlat, CallSettles, EndStays, Shape
  <2> QED BY <1>0, <2>1, <2>2 DEF ErrorOK, EndStays
<1>4. CASE RecoverToolFlat
  <2>1. w'.pc \in {"off", "recover"}
    BY <1>4, OffWorker, SettleRestWorker DEF RecoverToolFlat, Shape
  <2>2. EndStays
    BY <1>4, SlotsKeepEnd DEF RecoverToolFlat, SlotMoves, EndStays, Shape
  <2> QED BY <1>0, <2>1, <2>2 DEF ErrorOK, EndStays
<1>5. CASE RecoveredFlat
  BY <1>5, EnterWorker, <1>0
     DEF RecoveredFlat, ErrorOK, Shape
<1>6. CASE EnterFlat
  <2>0. /\ job = "live" /\ w.pc = "enter"
        /\ UNCHANGED <<body, wf, cp, probe, job, api, changed, sent, blame, count>>
    BY <1>6 DEF EnterFlat
  <2>1. CASE /\ j.status = "pause_requested" /\ j' = [j EXCEPT !.status = "paused"]
             /\ ToFresh("ending")
    BY <2>0, <2>1, FreshWorker, StatusFields, <1>0
       DEF ErrorOK, Shape
  <2>2. CASE j.status \in {"stopped", "paused"} /\ j' = j /\ ToFresh("ending")
    BY <2>0, <2>2, FreshWorker, <1>0
       DEF ErrorOK, Shape
  <2>3. CASE /\ j.status = "running" /\ j' = Stopped("state_witness_changed", FALSE)
             /\ ToFresh("ending")
    <3>1. /\ j'.status = "stopped" /\ j'.reason = "state_witness_changed"
          /\ (w' = w \/ w'.pc = "ending")
      BY <2>0, <2>3, StoppedFields, FreshWorker DEF Shape
    <3> QED BY <1>0, <3>1 DEF ErrorOK
  <2>4. CASE j.status \notin {"pause_requested", "stopped", "paused"} /\ j' = j /\ Goto("node")
    BY <2>0, <2>4, GotoWorker, <1>0
       DEF ErrorOK, Shape
  <2> QED BY <1>6, <2>1, <2>2, <2>3, <2>4 DEF EnterFlat
<1>7. CASE WriteCheckpointFlat
  BY <1>7, NodeWorker, <1>0
     DEF WriteCheckpointFlat, ErrorOK, Shape
<1>8. CASE EndAttemptFlat
  BY <1>8, OffWorker, <1>0
     DEF EndAttemptFlat, ErrorOK, Shape
<1>9. CASE OrientFlat
  <2>0. /\ job = "live" /\ w.pc = "node" /\ cp.node = "orient"
        /\ UNCHANGED <<j, body, wf, cp, probe, job, api, changed, sent, blame, count>>
    BY <1>9 DEF OrientFlat
  <2>1. CASE j.status # "running" /\ Raise(IF j.status = "stopped" THEN "cancel" ELSE "pause")
    <3> QED BY <1>0, <2>0, <2>1, ErrorAfter
  <2>2. CASE j.status = "running" /\ Raise("budget")
    <3> QED BY <1>0, <2>0, <2>2, ErrorAfter
  <2>3. CASE j.status = "running" /\ changed /\ Raise("witness")
    <3> QED BY <1>0, <2>0, <2>3, ErrorAfter
  <2>4. CASE /\ j.status = "running" /\ j.open
             /\ Checkpoint([cp EXCEPT !.node = "generate", !.round = j.settled])
    BY <2>0, <2>4, CheckpointWorker, <1>0
       DEF ErrorOK, Shape
  <2>5. CASE j.status = "running" /\ ~j.open /\ ~(j.rounds <= 0) /\ Goto("open")
    BY <2>0, <2>5, GotoWorker, <1>0
       DEF ErrorOK, Shape
  <2> QED BY <1>9, <2>1, <2>2, <2>3, <2>4, <2>5 DEF OrientFlat
<1>10. CASE OpenRoundFlat
  <2>0. /\ job = "live" /\ w.pc = "open"
        /\ UNCHANGED <<body, wf, cp, probe, job, api, changed, sent, blame, count>>
    BY <1>10 DEF OpenRoundFlat
  <2>1. CASE /\ CanStartRound /\ j' = RoundStarted
             /\ Checkpoint([cp EXCEPT !.node = "generate", !.round = j.settled])
    BY <2>0, <2>1, CheckpointWorker, RoundStartedFields, <1>0
       DEF ErrorOK, Shape
  <2>2. CASE ~(j.status # "stopped" /\ CanStartRound) /\ j' = j /\ Raise("error")
    <3>4. Cause \/ j.status # "running"
      BY <2>0, <2>2 DEF CanStartRound, OpenOK, DecidedOK, PlaceOK, NoPending, PendingOK,
         CallPending, ToolPending, Asking, Tooling, Waiting
    <3>5. j' = j
      BY <2>0, <2>2
    <3> QED BY <1>0, <2>2, <3>4, <3>5, ErrorAfter
  <2> QED BY <1>10, <2>1, <2>2 DEF OpenRoundFlat
<1>11. CASE GenerateFlat
  <2>0. /\ job = "live" /\ w.pc = "node" /\ cp.node = "generate"
        /\ UNCHANGED <<j, body, wf, cp, probe, job, api, changed, sent, blame, count>>
    BY <1>11 DEF GenerateFlat
  <2>1. CASE j.status # "running" /\ Raise(IF j.status = "stopped" THEN "cancel" ELSE "pause")
    <3> QED BY <1>0, <2>0, <2>1, ErrorAfter
  <2>2. CASE /\ j.status = "running" /\ Done(Call) /\ j.dig[Call] = body[Call]
             /\ Checkpoint([cp EXCEPT !.node = "schedule"])
    BY <2>0, <2>2, CheckpointWorker, <1>0
       DEF ErrorOK, Shape
  <2>3. CASE j.status = "running" /\ Done(Call) /\ j.dig[Call] # body[Call] /\ Raise("error")
    <3>4. Cause \/ j.status # "running"
      BY <2>0, <2>3 DEF Kept, DigestsStand, Done, Cause, Causes
    <3>5. j' = j
      BY <2>0, <2>3
    <3> QED BY <1>0, <2>3, <3>4, <3>5, ErrorAfter
  <2>4. CASE j.status = "running" /\ ~Done(Call) /\ Call \in j.unsure /\ Raise("error")
    <3>4. Cause \/ j.status # "running"
      BY <2>0, <2>4 DEF UnsureOK
    <3>5. j' = j
      BY <2>0, <2>4
    <3> QED BY <1>0, <2>4, <3>4, <3>5, ErrorAfter
  <2>5. CASE j.status = "running" /\ Raise("budget")
    <3> QED BY <1>0, <2>0, <2>5, ErrorAfter
  <2>6. CASE /\ j.status = "running" /\ ~Done(Call) /\ Call \notin j.unsure /\ CanSend
             /\ ToStart(1)
    BY <2>0, <2>6, StartWorker, <1>0
       DEF ErrorOK, Shape
  <2> QED BY <1>11, <2>1, <2>2, <2>3, <2>4, <2>5, <2>6 DEF GenerateFlat
<1>12. CASE StartCallFlat
  <2>0. /\ job = "live" /\ w.pc = "start"
        /\ UNCHANGED <<body, wf, cp, probe, job, api, changed, sent, blame, count>>
    BY <1>12 DEF StartCallFlat
  <2>1. CASE CanStartCall(Call) /\ j' = CallStarted(Call) /\ Goto("send")
    BY <2>0, <2>1, GotoWorker, CallStartedFields, <1>0
       DEF ErrorOK, Shape
  <2>2. CASE ~(j.status # "stopped" /\ CanStartCall(Call)) /\ j' = j /\ Raise("error")
    <3>1. j.status = "running" => j.calls = {}
      BY <2>0 DEF PendingOK, CallPending, Asking, Waiting
    <3>2. Cardinality({}) = 0
      BY FS_EmptySet
    <3>3. j.status = "running" => Cause \/ j.llm > 0
      BY <2>0, <3>1, BoundsAssumption DEF ChargedOK, ReqsOK, CountOK, LlmOK, Shape
    <3>4. Cause \/ j.status # "running"
      BY <2>0, <2>2, <3>1, <3>2, <3>3 DEF CanStartCall, CountOK, LlmOK
    <3>5. j' = j
      BY <2>0, <2>2
    <3> QED BY <1>0, <2>2, <3>4, <3>5, ErrorAfter
  <2> QED BY <1>12, <2>1, <2>2 DEF StartCallFlat
<1>13. CASE SendFlat
  BY <1>13, GotoWorker, <1>0
     DEF SendFlat, ErrorOK, Shape
<1>14. CASE SendRefusedFlat
  <2>0. /\ job = "live" /\ w.pc = "send"
        /\ blame' = blame \cup {"refused"}
        /\ UNCHANGED <<body, wf, cp, job, api, changed, sent, count>>
    BY <1>14 DEF SendRefusedFlat
  <2>1. CASE j.status = "stopped" /\ Raise("error") /\ UNCHANGED <<j, probe>>
    <3>4. Cause \/ j.status # "running"
      BY <2>1
    <3>5. j' = j
      BY <2>0, <2>1
    <3> QED BY <1>0, <2>1, <3>4, <3>5, ErrorAfter
  <2>2. CASE /\ j.status # "stopped" /\ j' = CallRejected(Call) /\ cp.node = "generate"
             /\ Raise("budget") /\ probe' = probe
    <3>1. j'.reason = j.reason
      BY <2>2, CallRejectedFields DEF Shape
    <3> QED BY <1>0, <2>2, <3>1, ErrorAfter
  <2>3. CASE /\ j.status # "stopped" /\ j' = CallRejected(Call) /\ cp.node # "generate"
             /\ probe' = [probe EXCEPT ![Here] = "spent"] /\ ProbeLoop
    BY <2>0, <2>3, ProbeLoopWorker, CallRejectedFields, <1>0
       DEF ErrorOK, Shape
  <2> QED BY <1>14, <2>1, <2>2, <2>3 DEF SendRefusedFlat
<1>15. CASE AnsweredFlat
  BY <1>15, KeepWorker, <1>0
     DEF AnsweredFlat, ErrorOK, Shape
<1>16. CASE AnswerUnknownFlat
  <2>0. /\ job = "live" /\ w.pc = "answer"
        /\ blame' = blame \cup {"provider"}
        /\ UNCHANGED <<body, wf, cp, job, api, changed, sent, count>>
    BY <1>16 DEF AnswerUnknownFlat
  <2>1. CASE j.status = "stopped" /\ Raise("error") /\ UNCHANGED <<j, probe>>
    <3>4. Cause \/ j.status # "running"
      BY <2>1
    <3>5. j' = j
      BY <2>0, <2>1
    <3> QED BY <1>0, <2>1, <3>4, <3>5, ErrorAfter
  <2>2. CASE /\ j.status # "stopped" /\ j' = CallUncertain(Call) /\ cp.node = "generate"
             /\ Raise("error") /\ probe' = probe
    <3>1. w'.pc = "raised" /\ j'.reason = j.reason
      BY <2>2, RaiseWorker, CallUncertainFields DEF Shape
    <3>2. Cause'
      BY <2>0 DEF Cause, Causes
    <3> QED BY <3>1, <3>2 DEF ErrorOK
  <2>3. CASE /\ j.status # "stopped" /\ j' = CallUncertain(Call) /\ cp.node # "generate"
             /\ probe' = [probe EXCEPT ![Here] = "bad"] /\ ProbeLoop
    BY <2>0, <2>3, ProbeLoopWorker, CallUncertainFields, <1>0
       DEF ErrorOK, Shape
  <2> QED BY <1>16, <2>1, <2>2, <2>3 DEF AnswerUnknownFlat
<1>17. CASE AnswerMalformedFlat
  <2>0. /\ job = "live" /\ w.pc = "answer"
        /\ sent' = [sent EXCEPT ![Call] = 0]
        /\ UNCHANGED <<body, wf, cp, job, api, changed, blame, count>>
    BY <1>17 DEF AnswerMalformedFlat
  <2>1. CASE j.status = "stopped" /\ Raise("error") /\ UNCHANGED <<j, probe>>
    <3>4. Cause \/ j.status # "running"
      BY <2>1
    <3>5. j' = j
      BY <2>0, <2>1
    <3> QED BY <1>0, <2>1, <3>4, <3>5, ErrorAfter
  <2>2. CASE /\ j.status # "stopped" /\ j' = CallRejected(Call) /\ cp.node = "generate"
             /\ ToStart(2) /\ probe' = probe
    BY <2>0, <2>2, StartWorker, CallRejectedFields, <1>0
       DEF ErrorOK, Shape
  <2>3. CASE /\ j.status # "stopped" /\ j' = CallRejected(Call) /\ cp.node # "generate"
             /\ probe' = [probe EXCEPT ![Here] = "end"] /\ ProbeLoop
    BY <2>0, <2>3, ProbeLoopWorker, CallRejectedFields, <1>0
       DEF ErrorOK, Shape
  <2> QED BY <1>17, <2>1, <2>2, <2>3 DEF AnswerMalformedFlat
<1>18. CASE AnswerUnavailableFlat
  <2>0. /\ job = "live" /\ w.pc = "answer"
        /\ sent' = [sent EXCEPT ![Call] = 0]
        /\ blame' = blame \cup {"provider"}
        /\ UNCHANGED <<body, wf, cp, job, api, changed, count>>
    BY <1>18 DEF AnswerUnavailableFlat
  <2>1. CASE j.status = "stopped" /\ Raise("error") /\ UNCHANGED <<j, probe>>
    <3>4. Cause \/ j.status # "running"
      BY <2>1
    <3>5. j' = j
      BY <2>0, <2>1
    <3> QED BY <1>0, <2>1, <3>4, <3>5, ErrorAfter
  <2>2. CASE /\ j.status # "stopped" /\ j' = CallRejected(Call) /\ cp.node = "generate"
             /\ Raise("error") /\ probe' = probe
    <3>1. w'.pc = "raised" /\ j'.reason = j.reason
      BY <2>2, RaiseWorker, CallRejectedFields DEF Shape
    <3>2. Cause'
      BY <2>0 DEF Cause, Causes
    <3> QED BY <3>1, <3>2 DEF ErrorOK
  <2>3. CASE /\ j.status # "stopped" /\ j' = CallRejected(Call) /\ cp.node # "generate"
             /\ probe' = [probe EXCEPT ![Here] = "end"] /\ ProbeLoop
    BY <2>0, <2>3, ProbeLoopWorker, CallRejectedFields, <1>0
       DEF ErrorOK, Shape
  <2> QED BY <1>18, <2>1, <2>2, <2>3 DEF AnswerUnavailableFlat
<1>19. CASE KeepAnswerFlat
  BY <1>19, GotoWorker, <1>0
     DEF KeepAnswerFlat, ErrorOK, Shape
<1>20. CASE CompleteCallFlat
  <2>0. /\ job = "live" /\ w.pc = "complete"
        /\ UNCHANGED <<body, wf, cp, probe, job, api, changed, sent, blame, count>>
    BY <1>20 DEF CompleteCallFlat
  <2>1. CASE /\ j.status # "stopped" /\ Call \in j.calls
             /\ j' = CallCompleted(Call, w.val) /\ cp.node = "generate"
             /\ Checkpoint([cp EXCEPT !.node = "schedule"])
    BY <2>0, <2>1, CheckpointWorker, CallCompletedFields, <1>0
       DEF ErrorOK, Shape
  <2>2. CASE /\ j.status # "stopped" /\ Call \in j.calls
             /\ j' = CallCompleted(Call, w.val) /\ cp.node # "generate" /\ ProbeLoop
    BY <2>0, <2>2, ProbeLoopWorker, CallCompletedFields, <1>0
       DEF ErrorOK, Shape
  <2>3. CASE ~(j.status # "stopped" /\ Call \in j.calls) /\ j' = j /\ Raise("error")
    <3>4. Cause \/ j.status # "running"
      BY <2>0, <2>3 DEF NoPending, PendingOK, CallPending, ToolPending, Asking, Tooling, Waiting
    <3>5. j' = j
      BY <2>0, <2>3
    <3> QED BY <1>0, <2>3, <3>4, <3>5, ErrorAfter
  <2> QED BY <1>20, <2>1, <2>2, <2>3 DEF CompleteCallFlat
<1>21. CASE ScheduleFlat
  <2>0. /\ job = "live" /\ w.pc = "node" /\ cp.node = "schedule"
        /\ UNCHANGED <<j, body, cp, probe, job, api, changed, sent, blame, count>>
    BY <1>21 DEF ScheduleFlat
  <2>1. CASE /\ j.status # "running" /\ wf' = wf
             /\ Raise(IF j.status = "stopped" THEN "cancel" ELSE "pause")
    <3> QED BY <1>0, <2>0, <2>1, ErrorAfter
  <2>2. CASE j.status = "running" /\ cp.round \in wf.sched /\ wf' = wf /\ Raise("error")
    <3>4. Cause \/ j.status # "running"
      BY <2>0, <2>2 DEF SchedOK, Cause, Causes
    <3>5. j' = j
      BY <2>0, <2>2
    <3> QED BY <1>0, <2>2, <3>4, <3>5, ErrorAfter
  <2>3. CASE /\ j.status = "running"
             /\ wf' = wf \/ wf' = [wf EXCEPT !.sched = @ \cup {cp.round}]
             /\ Checkpoint([cp EXCEPT !.node = IF body[Gen(cp.round)] > 0 THEN "select" ELSE "reduce",
                                      !.n = body[Gen(cp.round)]])
    BY <2>0, <2>3, CheckpointWorker, <1>0
       DEF ErrorOK, Shape
  <2> QED BY <1>21, <2>1, <2>2, <2>3 DEF ScheduleFlat
<1>22. CASE PassNodeFlat
  <2>0. /\ job = "live" /\ w.pc = "node" /\ cp.node \in {"select", "validate"}
        /\ UNCHANGED <<j, body, wf, cp, probe, job, api, changed, sent, blame, count>>
    BY <1>22 DEF PassNodeFlat
  <2>1. CASE j.status # "running" /\ Raise(IF j.status = "stopped" THEN "cancel" ELSE "pause")
    <3> QED BY <1>0, <2>0, <2>1, ErrorAfter
  <2>2. CASE /\ j.status = "running"
             /\ Checkpoint([cp EXCEPT !.node = IF cp.node = "select"
                                               THEN "execute_probes" ELSE "reduce"])
    BY <2>0, <2>2, CheckpointWorker, <1>0
       DEF ErrorOK, Shape
  <2> QED BY <1>22, <2>1, <2>2 DEF PassNodeFlat
<1>23. CASE ExecuteFlat
  <2>0. /\ job = "live" /\ w.pc = "node" /\ cp.node = "execute_probes"
        /\ UNCHANGED <<j, body, wf, cp, probe, job, api, changed, sent, blame, count>>
    BY <1>23 DEF ExecuteFlat
  <2>1. CASE j.status # "running" /\ Raise(IF j.status = "stopped" THEN "cancel" ELSE "pause")
    <3> QED BY <1>0, <2>0, <2>1, ErrorAfter
  <2>2. CASE j.status = "running" /\ ToProbes
    BY <2>0, <2>2, ProbesWorker, <1>0
       DEF ErrorOK, Shape
  <2> QED BY <1>23, <2>1, <2>2 DEF ExecuteFlat
<1>24. CASE NextProbeFlat
  <2>0. /\ job = "live" /\ w.pc = "probes"
        /\ UNCHANGED <<j, body, wf, cp, probe, job, api, changed, sent, blame, count>>
    BY <1>24 DEF NextProbeFlat
  <2>1. CASE \E spent : Checkpoint([cp EXCEPT !.node = "validate", !.spent = spent])
    BY <2>0, <2>1, CheckpointWorker, <1>0
       DEF ErrorOK, Shape
  <2>2. CASE ~(w.p > cp.n) /\ probe[Here] = "bad" /\ Raise("error")
    <3>1. cp.node = "execute_probes" /\ cp.round = j.settled /\ cp.n \in 0 .. NProbes /\ j.open
      BY <2>0 DEF PlaceOK, Tooling, CkptOK, CkptFits, InRound
    <3>2. Here \in DOMAIN probe
      BY <2>0, <2>2, <3>1, BoundsAssumption DEF Here, Shape, PlaceOK, Rounds, CountOK,
         RoundsOK, JournalOK
    <3>4. Cause \/ j.status # "running"
      BY <2>2, <3>2 DEF UnsureOK
    <3>5. j' = j
      BY <2>0, <2>2
    <3> QED BY <1>0, <2>2, <3>4, <3>5, ErrorAfter
  <2>3. CASE ~(w.p > cp.n) /\ ToProbe(w.p + 1)
    BY <2>0, <2>3, ProbeWorker, <1>0
       DEF ErrorOK, Shape
  <2> QED BY <1>24, <2>1, <2>2, <2>3 DEF NextProbeFlat
<1>25. CASE AskModelFlat
  BY <1>25, GotoWorker, ProbeLoopWorker, <1>0
     DEF AskModelFlat, ErrorOK, Shape
<1>26. CASE UseToolFlat
  BY <1>26, GotoWorker, ProbeLoopWorker, <1>0
     DEF UseToolFlat, ErrorOK, Shape
<1>27. CASE StartToolFlat
  <2>0. /\ job = "live" /\ w.pc = "tstart"
        /\ UNCHANGED <<body, wf, cp, probe, job, api, changed, sent, blame, count>>
    BY <1>27 DEF StartToolFlat
  <2>1. CASE CanStartTool(Mine) /\ j' = ToolStarted(Mine) /\ Goto("run")
    BY <2>0, <2>1, GotoWorker, ToolStartedFields, <1>0
       DEF ErrorOK, Shape
  <2>2. CASE ~(j.status # "stopped" /\ CanStartTool(Mine)) /\ j' = j /\ Raise("error")
    <3>1. j.slots = {} /\ Mine \notin DOMAIN j.dig
      BY <2>0 DEF PendingOK, ToolPending, Tooling, Waiting
    <3>2. Cardinality({}) = 0
      BY FS_EmptySet
    <3>3. j.tools > 0
      BY <2>0 DEF LedOK, CountOK, ToolsOK
    <3>4. Cause \/ j.status # "running"
      BY <2>0, <2>2, <3>1, <3>2, <3>3 DEF CanStartTool, Done, CountOK, ToolsOK
    <3>5. j' = j
      BY <2>0, <2>2
    <3> QED BY <1>0, <2>2, <3>4, <3>5, ErrorAfter
  <2> QED BY <1>27, <2>1, <2>2 DEF StartToolFlat
<1>28. CASE RunToolFlat
  BY <1>28, ResultWorker, <1>0
     DEF RunToolFlat, ErrorOK, Shape
<1>29. CASE FailToolFlat
  <2>0. /\ job = "live" /\ w.pc = "run"
        /\ UNCHANGED <<body, wf, cp, job, api, changed, sent, blame, count>>
    BY <1>29 DEF FailToolFlat
  <2>1. CASE j.status = "stopped" /\ Raise("error") /\ UNCHANGED <<j, probe>>
    <3>4. Cause \/ j.status # "running"
      BY <2>1
    <3>5. j' = j
      BY <2>0, <2>1
    <3> QED BY <1>0, <2>1, <3>4, <3>5, ErrorAfter
  <2>2. CASE /\ j.status # "stopped" /\ j' = ToolFailed(Mine)
             /\ probe' = [probe EXCEPT ![Here] = "end"] /\ ProbeLoop
    BY <2>0, <2>2, ProbeLoopWorker, ToolFailedFields, <1>0
       DEF ErrorOK, Shape
  <2> QED BY <1>29, <2>1, <2>2 DEF FailToolFlat
<1>30. CASE KeepResultFlat
  BY <1>30, PrepareWorker, <1>0
     DEF KeepResultFlat, ErrorOK, Shape
<1>31. CASE PrepareReceiptFlat
  <2>0. /\ job = "live" /\ w.pc = "prepare"
        /\ UNCHANGED <<body, wf, cp, probe, job, api, changed, sent, blame, count>>
    BY <1>31 DEF PrepareReceiptFlat
  <2>1. CASE /\ j.status # "stopped" /\ Mine \in j.slots
             /\ j' = ReceiptPrepared(Mine) /\ Goto("commit")
    BY <2>0, <2>1, GotoWorker, ReceiptPreparedFields, <1>0
       DEF ErrorOK, Shape
  <2>2. CASE ~(j.status # "stopped" /\ Mine \in j.slots) /\ j' = j /\ Raise("error")
    <3>4. Cause \/ j.status # "running"
      BY <2>0, <2>2 DEF NoPending, PendingOK, CallPending, ToolPending, Asking, Tooling, Waiting
    <3>5. j' = j
      BY <2>0, <2>2
    <3> QED BY <1>0, <2>2, <3>4, <3>5, ErrorAfter
  <2> QED BY <1>31, <2>1, <2>2 DEF PrepareReceiptFlat
<1>32. CASE CommitReceiptFlat
  <2>0. /\ job = "live" /\ w.pc = "commit"
        /\ UNCHANGED <<body, wf, cp, probe, job, api, changed, sent, blame, count>>
    BY <1>32 DEF CommitReceiptFlat
  <2>1. CASE /\ j.status # "stopped" /\ Mine \in j.prep
             /\ j' = ReceiptCommitted(Mine, w.val) /\ ProbeLoop
    BY <2>0, <2>1, ProbeLoopWorker, ReceiptCommittedFields, <1>0
       DEF ErrorOK, Shape
  <2>2. CASE ~(j.status # "stopped" /\ Mine \in j.prep) /\ j' = j /\ Raise("error")
    <3>4. Cause \/ j.status # "running"
      BY <2>0, <2>2 DEF NoPending, PendingOK, CallPending, ToolPending, Asking, Tooling, Waiting
    <3>5. j' = j
      BY <2>0, <2>2
    <3> QED BY <1>0, <2>2, <3>4, <3>5, ErrorAfter
  <2> QED BY <1>32, <2>1, <2>2 DEF CommitReceiptFlat
<1>33. CASE ReduceFlat
  <2>0. /\ job = "live" /\ w.pc = "node" /\ cp.node = "reduce"
        /\ UNCHANGED <<j, body, wf, cp, probe, job, api, changed, sent, blame, count>>
    BY <1>33 DEF ReduceFlat
  <2>1. CASE j.status # "running" /\ Raise(IF j.status = "stopped" THEN "cancel" ELSE "pause")
    <3> QED BY <1>0, <2>0, <2>1, ErrorAfter
  <2>2. CASE /\ j.status = "running" /\ j.committed /\ j.redn = body[Red(cp.round)]
             /\ Checkpoint([cp EXCEPT !.node = "settle", !.red = j.redn, !.before = Snapshot])
    BY <2>0, <2>2, CheckpointWorker, <1>0
       DEF ErrorOK, Shape
  <2>3. CASE /\ j.status = "running" /\ j.committed /\ j.redn # body[Red(cp.round)]
             /\ Raise("error")
    <3>4. Cause \/ j.status # "running"
      BY <2>0, <2>3 DEF Kept, ReductionStands, CkptOK, CkptFits, InRound
    <3>5. j' = j
      BY <2>0, <2>3
    <3> QED BY <1>0, <2>3, <3>4, <3>5, ErrorAfter
  <2>4. CASE j.status = "running" /\ ~j.committed /\ Goto("gate")
    BY <2>0, <2>4, GotoWorker, <1>0
       DEF ErrorOK, Shape
  <2>5. CASE /\ j.status = "running" /\ ~j.committed
             /\ ToOutcome([v |-> "dry", fresh |-> TRUE])
    BY <2>0, <2>5, OutcomeWorker, <1>0
       DEF ErrorOK, Shape
  <2> QED BY <1>33, <2>1, <2>2, <2>3, <2>4, <2>5 DEF ReduceFlat
<1>34. CASE GateVerdictFlat
  <2>0. /\ job = "live" /\ w.pc = "gate"
        /\ UNCHANGED <<body, wf, cp, probe, job, api, changed, sent, blame, count>>
    BY <1>34 DEF GateVerdictFlat
  <2>1. CASE /\ j' = j \/ (j.status = "running" /\ j' = [j EXCEPT !.gated = @ \cup {cp.round}])
             /\ Goto("persist")
    BY <2>0, <2>1, GotoWorker, GatedFields, <1>0
       DEF ErrorOK, Shape
  <2>2. CASE ~(j.status = "running" /\ NoPending /\ j.open) /\ j' = j /\ Raise("error")
    <3>4. Cause \/ j.status # "running"
      BY <2>0, <2>2 DEF PlaceOK, Reducing, CkptOK, CkptFits, InRound, NoPending, PendingOK,
         CallPending, ToolPending, Asking, Tooling, Waiting
    <3>5. j' = j
      BY <2>0, <2>2
    <3> QED BY <1>0, <2>2, <3>4, <3>5, ErrorAfter
  <2> QED BY <1>34, <2>1, <2>2 DEF GateVerdictFlat
<1>35. CASE PersistReductionFlat
  BY <1>35, OutcomeWorker, <1>0
     DEF PersistReductionFlat, ErrorOK, Shape
<1>36. CASE KeepReductionFlat
  <2>0. /\ job = "live" /\ w.pc = "rkeep"
        /\ UNCHANGED <<j, wf, cp, probe, job, api, changed, sent, blame, count>>
    BY <1>36 DEF KeepReductionFlat
  <2>1. CASE j.committed /\ j.redn # w.val /\ body' = body /\ Raise("error")
    <3>4. Cause \/ j.status # "running"
      BY <2>0, <2>1 DEF BodyOK, Reducing
    <3>5. j' = j
      BY <2>0, <2>1
    <3> QED BY <1>0, <2>1, <3>4, <3>5, ErrorAfter
  <2>2. CASE body' = Put(body, Red(cp.round), w.val) /\ Goto("reduce")
    BY <2>0, <2>2, GotoWorker, <1>0
       DEF ErrorOK, Shape
  <2> QED BY <1>36, <2>1, <2>2 DEF KeepReductionFlat
<1>37. CASE CommitReductionFlat
  <2>0. /\ job = "live" /\ w.pc = "reduce"
        /\ UNCHANGED <<body, wf, cp, probe, job, api, changed, sent, blame, count>>
    BY <1>37 DEF CommitReductionFlat
  <2>1. CASE /\ j.status = "running" /\ NoPending /\ j.open /\ j' = ReductionCommitted(w.val)
             /\ Checkpoint([cp EXCEPT !.node = "settle", !.red = w.val, !.before = Snapshot])
    BY <2>0, <2>1, CheckpointWorker, ReductionCommittedFields, <1>0
       DEF ErrorOK, Shape
  <2>2. CASE ~(j.status = "running" /\ NoPending /\ j.open) /\ j' = j /\ Raise("error")
    <3>4. Cause \/ j.status # "running"
      BY <2>0, <2>2 DEF PlaceOK, Reducing, CkptOK, CkptFits, InRound, NoPending, PendingOK,
         CallPending, ToolPending, Asking, Tooling, Waiting
    <3>5. j' = j
      BY <2>0, <2>2
    <3> QED BY <1>0, <2>2, <3>4, <3>5, ErrorAfter
  <2> QED BY <1>37, <2>1, <2>2 DEF CommitReductionFlat
<1>38. CASE SettleFlat
  <2>0. /\ job = "live" /\ w.pc = "node" /\ cp.node = "settle"
        /\ UNCHANGED <<body, wf, cp, probe, job, api, changed, sent, blame, count>>
    BY <1>38 DEF SettleFlat
  <2>1. CASE /\ j.settled <= cp.round /\ j.status # "stopped" /\ NoPending /\ j.open
             /\ j' = RoundSettled(cp.red, Decision) /\ Goto("after")
    BY <2>0, <2>1, GotoWorker, RoundSettledFields, <1>0
       DEF ErrorOK, Shape
  <2>2. CASE /\ j.settled <= cp.round /\ ~(j.status # "stopped" /\ NoPending /\ j.open)
             /\ j' = j /\ Raise("error")
    <3>4. Cause \/ j.status # "running"
      BY <2>0, <2>2 DEF CkptOK, CkptFits, JournalOK, NoPending, PendingOK, CallPending,
         ToolPending, Asking, Tooling, Waiting
    <3>5. j' = j
      BY <2>0, <2>2
    <3> QED BY <1>0, <2>2, <3>4, <3>5, ErrorAfter
  <2>3. CASE ~(j.settled <= cp.round) /\ j' = j /\ Goto("after")
    BY <2>0, <2>3, GotoWorker, <1>0
       DEF ErrorOK, Shape
  <2> QED BY <1>38, <2>1, <2>2, <2>3 DEF SettleFlat
<1>39. CASE AfterSettleFlat
  <2>0. /\ job = "live" /\ w.pc = "after"
        /\ UNCHANGED <<j, body, wf, cp, probe, job, api, changed, sent, blame, count>>
    BY <1>39 DEF AfterSettleFlat
  <2>1. CASE /\ Decision # None
             /\ Checkpoint([cp EXCEPT !.node = "synthesize", !.reason = Decision])
    BY <2>0, <2>1, CheckpointWorker, <1>0
       DEF ErrorOK, Shape
  <2>2. CASE /\ Decision = None /\ j.status # "running"
             /\ Raise(IF j.status = "stopped" THEN "cancel" ELSE "pause")
    <3> QED BY <1>0, <2>0, <2>2, ErrorAfter
  <2>3. CASE /\ Decision = None /\ j.status = "running"
             /\ Checkpoint([cp EXCEPT !.node = "orient", !.red = None,
                                      !.before = None, !.n = 0, !.spent = FALSE])
    BY <2>0, <2>3, CheckpointWorker, <1>0
       DEF ErrorOK, Shape
  <2> QED BY <1>39, <2>1, <2>2, <2>3 DEF AfterSettleFlat
<1>40. CASE SynthesizeFlat
  <2>0. /\ job = "live" /\ w.pc = "node" /\ cp.node = "synthesize"
        /\ UNCHANGED <<j, body, wf, cp, probe, job, api, changed, sent, blame, count>>
    BY <1>40 DEF SynthesizeFlat
  <2>1. CASE j.status # "running" /\ Raise(IF j.status = "stopped" THEN "cancel" ELSE "pause")
    <3> QED BY <1>0, <2>0, <2>1, ErrorAfter
  <2>2. CASE j.status = "running" /\ ToStop(cp.reason, TRUE)
    <3>1. w'.pc = "stop" /\ w'.reason = cp.reason /\ w'.exc = w.exc
      BY <2>2, StopWorker DEF Shape
    <3>2. cp.reason # "failed"
      BY <2>0 DEF DecidedOK, Natural
    <3> QED BY <1>0, <2>0, <3>1, <3>2 DEF ErrorOK
  <2> QED BY <1>40, <2>1, <2>2 DEF SynthesizeFlat
<1>41. CASE StopFlat
  <2>0. /\ job = "live" /\ w.pc = "stop"
        /\ UNCHANGED <<body, wf, cp, probe, api, changed, sent, count>>
    BY <1>41 DEF StopFlat
  <2>1. CASE /\ CanStop(w.reason) /\ j' = Stopped(w.reason, w.report)
             /\ ToFresh("ending") /\ UNCHANGED <<job, blame>>
    <3>1. w'.pc = "ending" /\ j'.reason = w.reason
      BY <2>1, StoppedFields, FreshWorker DEF Shape
    <3> QED BY <1>0, <2>0, <3>1 DEF ErrorOK
  <2>2. CASE ~CanStop(w.reason) /\ w.exc = None /\ UNCHANGED <<j, job, blame>> /\ Raise("error")
    <3>1. cp.node = "synthesize" /\ w.reason = cp.reason
      BY <2>0, <2>2 DEF RaisedOK
    <3>2. NoPending
      BY <2>0 DEF NoPending, PendingOK, CallPending, ToolPending, Asking, Tooling, Waiting
    <3>4. Cause \/ j.status # "running"
      BY <2>2, <3>1, <3>2 DEF CanStop, DecidedOK
    <3>5. j' = j
      BY <2>0, <2>2
    <3> QED BY <1>0, <2>2, <3>4, <3>5, ErrorAfter
  <2>3. CASE /\ ~CanStop(w.reason) /\ w.exc = "budget" /\ UNCHANGED <<j, job, blame>>
             /\ ToBare
    <3>1. w'.pc = "raised" /\ w'.exc = "budget"
      BY <2>3, BareWorker DEF Shape
    <3> QED BY <1>0, <2>3, <3>1 DEF ErrorOK
  <2>4. CASE j' = j /\ w' = Off /\ job' = "failed" /\ blame' = blame \cup {"race"}
    BY <2>0, <2>4, OffWorker, <1>0
       DEF ErrorOK, Shape
  <2> QED BY <1>41, <2>1, <2>2, <2>3, <2>4 DEF StopFlat
<1>42. CASE HandlePauseFlat
  BY <1>42, HandlePauseMoves, <1>0
     DEF ErrorOK, Shape
<1>43. CASE HandleCancelFlat
  BY <1>43, FreshWorker, <1>0
     DEF HandleCancelFlat, ErrorOK, Shape
<1>44. CASE HandleStopFlat
  <2>0. /\ job = "live" /\ w.pc = "raised" /\ w.exc \in {"witness", "budget", "error"}
        /\ UNCHANGED <<j, body, wf, cp, probe, job, api, changed, sent, blame, count>>
    BY <1>44 DEF HandleStopFlat
  <2>1. CASE j.status # "running" /\ Raise(IF j.status = "stopped" THEN "cancel" ELSE "pause")
    <3> QED BY <1>0, <2>0, <2>1, ErrorAfter
  <2>2. CASE /\ j.status = "running"
             /\ \E r, why :
                   /\ ToStop(why, r)
                   /\ why = CASE w.exc = "witness" -> "state_witness_changed"
                             [] w.exc = "budget" -> "budget_exhausted"
                             [] OTHER -> "failed"
                   /\ /\ w.exc = "budget" /\ ~w.bare /\ j.settled > 0
                      /\ j.redn = body[Red(j.settled - 1)]
                      => r
    <3>1. PICK r : ToStop(ReasonOf(w.exc), r)
      BY <2>2 DEF ReasonOf
    <3>2. w'.pc = "stop" /\ w'.reason = ReasonOf(w.exc)
      BY <3>1, StopWorker DEF Shape
    <3>3. w'.reason = "failed" => w.exc = "error"
      BY <2>0, <3>2 DEF ReasonOf
    <3> QED BY <1>0, <2>0, <2>2, <3>2, <3>3 DEF ErrorOK
  <2> QED BY <1>44, <2>1, <2>2 DEF HandleStopFlat
<1>45. CASE CrashFlat
  BY <1>45, OffWorker, <1>0
     DEF CrashFlat, ErrorOK, Shape
<1>46. CASE PauseFlat
  BY <1>46, PauseMoves, <1>0
     DEF ErrorOK, Shape
<1>47. CASE ResumeFlat
  <2>0. /\ j.status = "paused" /\ api = "idle"
        /\ UNCHANGED <<body, wf, cp, probe, w, job, changed, sent, blame, count>>
    BY <1>47 DEF ResumeFlat
  <2>1. CASE changed /\ j' = Stopped("state_witness_changed", FALSE) /\ api' = api
    <3>1. /\ j'.status = "stopped" /\ j'.reason = "state_witness_changed"
          /\ (w' = w \/ w'.pc = "ending")
      BY <2>0, <2>1, StoppedFields, FreshWorker DEF Shape
    <3> QED BY <1>0, <3>1 DEF ErrorOK
  <2>2. CASE /\ job \notin {"queued", "live"} /\ j' = [j EXCEPT !.status = "running"]
             /\ api' = "launching"
    <3>1. w.pc = "off" /\ w' = w /\ j'.reason = j.reason
      BY <2>0, <2>2, StatusFields DEF PlaceOK, Shape
    <3> QED BY <1>0, <3>1 DEF ErrorOK
  <2> QED BY <1>47, <2>1, <2>2 DEF ResumeFlat
<1>48. CASE LaunchFlat
  <2>0. /\ api = "launching"
        /\ api' = "idle"
        /\ UNCHANGED <<body, wf, cp, probe, w, changed, sent>>
    BY <1>48 DEF LaunchFlat
  <2>1. CASE job' = "queued" /\ UNCHANGED <<j, blame, count>>
    BY <2>0, <2>1, <1>0
       DEF ErrorOK, Shape
  <2>2. CASE /\ j.status = "stopped" /\ j' = j
             /\ blame' = blame \cup {"launch"} /\ UNCHANGED <<job, count>>
    BY <2>0, <2>2, <1>0
       DEF ErrorOK, Shape
  <2>3. CASE /\ j.status # "stopped" /\ j' = Stopped("failed", FALSE)
             /\ blame' = blame \cup {"launch"} /\ UNCHANGED <<job, count>>
    <3>1. j'.status = "stopped"
      BY <2>3, StoppedFields DEF Shape
    <3>2. Cause'
      BY <2>3 DEF Cause, Causes
    <3> QED BY <2>0, <3>1, <3>2 DEF ErrorOK
  <2>4. CASE /\ Room /\ count' = [count EXCEPT !.crashes = @ + 1]
             /\ blame' = blame \cup {"api"} /\ UNCHANGED <<j, job>>
    BY <2>0, <2>4, <1>0
       DEF ErrorOK, Shape
  <2> QED BY <1>48, <2>1, <2>2, <2>3, <2>4 DEF LaunchFlat
<1>49. CASE CancelFlat
  <2>1. j'.status = "stopped" /\ j'.reason = "cancelled" /\ w' = w
    BY <1>49, StoppedFields DEF CancelFlat, Shape
  <2> QED BY <1>0, <2>1 DEF ErrorOK
<1>50. CASE CancelJobFlat
  BY <1>50, OffWorker, <1>0
     DEF CancelJobFlat, ErrorOK, Shape
<1>51. CASE ExtendBudgetFlat
  BY <1>51, ExtendBudgetMoves, <1>0
     DEF ErrorOK, Shape
<1>52. CASE UNCHANGED <<j, w, blame>>
  BY <1>52, <1>0 DEF ErrorOK, Shape
<1>53. QED
  BY NextIsFlat, <1>1, <1>2, <1>3, <1>4, <1>5, <1>6, <1>7, <1>8, <1>9, <1>10, <1>11, <1>12,
         <1>13, <1>14, <1>15, <1>16, <1>17, <1>18, <1>19, <1>20, <1>21, <1>22, <1>23, <1>24,
         <1>25, <1>26, <1>27, <1>28, <1>29, <1>30, <1>31, <1>32, <1>33, <1>34, <1>35, <1>36,
         <1>37, <1>38, <1>39, <1>40, <1>41, <1>42, <1>43, <1>44, <1>45, <1>46, <1>47, <1>48,
         <1>49, <1>50, <1>51, <1>52
     DEF NextFlat, vars, RerunFlat, ChangeDataFlat

-----------------------------------------------------------------------------
(* The invariant, and what it proves of the specification *)

ExpInv ==
    /\ Shape /\ JournalOK /\ CountOK /\ CkptOK(cp) /\ PlaceOK
    /\ NextOK /\ PendingOK /\ ReqsOK /\ Kept /\ BodyOK
    /\ BatchOK /\ SentOK /\ LedOK /\ DecidedOK /\ RaisedOK
    /\ EndOK /\ UnsureOK /\ ChargedOK /\ SchedOK /\ OpenOK
    /\ ErrorOK /\ JobOK

\* A new run satisfies the invariant.
LEMMA ExpInvInit == Init => ExpInv
<1> SUFFICES ASSUME Init PROVE ExpInv
  OBVIOUS
<1>1. /\ j.calls = {} /\ j.unsure = {} /\ j.slots = {} /\ j.prep = {} /\ DOMAIN j.dig = {}
      /\ DOMAIN body = {} /\ ~j.open /\ ~j.committed /\ j.settled = 0 /\ j.term = None
      /\ j.status = "running" /\ j.reason = None /\ j.llm = LlmCap /\ j.tools = ToolCap
      /\ j.rounds = MaxRounds /\ DOMAIN j = JFields
  BY DEF Init, JFields
<1>2. /\ w.pc = "off" /\ w.exc = None /\ ~w.bare /\ w.led = 0 /\ w.todo = {}
      /\ DOMAIN w = WFields
  BY DEF Init, Off, WFields
<1>3. cp.node = "orient" /\ cp.round = -1 /\ cp.n = 0 /\ DOMAIN cp = CFields
  BY DEF Init, Fresh, CFields
<1>4. /\ DOMAIN wf = {"sched", "out"} /\ wf.sched = {} /\ job = "queued" /\ api = "idle"
      /\ changed = FALSE /\ sent = [c \in Calls |-> 0] /\ blame = {}
      /\ count = [pauses |-> 0, crashes |-> 0, amends |-> 0, reqs |-> 0]
      /\ probe = [rp \in Rounds \X (1 .. NProbes) |-> "model"]
  BY DEF Init
<1>5. /\ MaxRounds \in Nat /\ NProbes \in Nat /\ LlmCap \in Nat /\ ToolCap \in Nat
      /\ MaxEvents \in Nat /\ Protected \in 1 .. LlmCap
  BY BoundsAssumption
<1>6. IsFiniteSet({}) /\ Cardinality({}) = 0
  BY FS_EmptySet
<1>7. Shape
  BY <1>1, <1>2, <1>3, <1>4 DEF Shape
<1>8. JournalOK
  BY <1>1, <1>5 DEF JournalOK
<1>9. CountOK
  <2>1. Receipts = {}
    BY <1>1 DEF Receipts
  <2> QED BY <1>1, <1>4, <1>5, <1>6, <2>1 DEF CountOK, RoundsOK, LlmOK, ToolsOK
<1>10. CkptOK(cp)
  BY <1>1, <1>3, <1>5 DEF CkptOK, CkptFits, InRound, Nodes
<1>11. PlaceOK
  BY <1>2, <1>4 DEF PlaceOK, Places, Waiting, Asking, Tooling, Reducing
<1>12. NextOK
  BY <1>2 DEF NextOK
<1>13. PendingOK
  BY <1>1, <1>2 DEF PendingOK, CallPending, ToolPending, TodoOK, Asking, Tooling, Waiting
<1>14. ReqsOK
  BY <1>4, <1>5 DEF ReqsOK
<1>15. Kept
  BY <1>1 DEF Kept, DigestsStand, ReductionStands
<1>16. BodyOK
  BY <1>1, <1>2 DEF BodyOK, Reducing
<1>17. BatchOK
  BY <1>1, <1>2 DEF BatchOK
<1>18. SentOK
  BY <1>1, <1>2, <1>4 DEF SentOK, Asking
<1>19. LedOK
  BY <1>1, <1>2, <1>5 DEF LedOK
<1>20. DecidedOK
  BY <1>1, <1>2, <1>3 DEF DecidedOK
<1>21. RaisedOK
  BY <1>2, NoneAssumption DEF RaisedOK
<1>22. EndOK
  BY <1>1 DEF EndOK, ReportKept
<1>23. UnsureOK
  BY <1>1, <1>4 DEF UnsureOK
<1>24. ChargedOK
  BY <1>1, <1>4, <1>5 DEF ChargedOK
<1>25. SchedOK
  BY <1>4 DEF SchedOK
<1>26. OpenOK
  BY <1>2 DEF OpenOK
<1>27. ErrorOK
  BY <1>1, <1>2, NoneAssumption DEF ErrorOK
<1>28. JobOK
  BY <1>4 DEF JobOK
<1> QED BY <1>7, <1>8, <1>9, <1>10, <1>11, <1>12, <1>13, <1>14, <1>15, <1>16, <1>17, <1>18,
         <1>19, <1>20, <1>21, <1>22, <1>23, <1>24, <1>25, <1>26, <1>27, <1>28 DEF ExpInv

\* Every step of the run keeps it.
LEMMA ExpInvStep == ExpInv /\ [Next]_vars => ExpInv'
<1> SUFFICES ASSUME ExpInv, [Next]_vars PROVE ExpInv'
  OBVIOUS
<1>1. /\ Shape /\ JournalOK /\ CountOK /\ CkptOK(cp) /\ PlaceOK /\ NextOK /\ PendingOK /\ ReqsOK
      /\ Kept /\ BodyOK /\ BatchOK /\ SentOK /\ LedOK /\ DecidedOK /\ RaisedOK /\ EndOK
      /\ UnsureOK /\ ChargedOK /\ SchedOK /\ OpenOK /\ ErrorOK /\ JobOK
  BY DEF ExpInv
<1>2. Moves
  BY <1>1, MovesStep
<1>3. Shape'
  BY <1>1, <1>2, MovesShape, RestShapeStep DEF Shape
<1>4. JournalOK'
  BY <1>1, <1>2, MovesJournal
<1>5. CountOK'
  BY <1>1, <1>2, MovesRounds, MovesLlm, MovesTools DEF CountOK
<1>6. CkptOK(cp)'
  BY <1>1, CkptStep
<1>7. PlaceOK'
  BY <1>1, PlaceStep
<1>8. NextOK'
  BY <1>1, NextStep
<1>9. PendingOK'
  BY <1>1, CallPendingStep, ToolPendingStep, TodoStep DEF PendingOK
<1>10. ReqsOK'
  BY <1>1, ReqsStep
<1>11. Kept'
  BY <1>1, DigestsStep, ReductionStep DEF Kept
<1>12. BodyOK'
  BY <1>1, BodyStep
<1>13. BatchOK'
  BY <1>1, BatchStep
<1>14. SentOK'
  BY <1>1, SentStep
<1>15. LedOK'
  BY <1>1, <1>5, LedStep DEF CountOK
<1>16. DecidedOK'
  BY <1>1, DecidedStep
<1>17. RaisedOK'
  BY <1>1, RaisedStep
<1>18. EndOK'
  BY <1>1, EndStep
<1>19. UnsureOK'
  BY <1>1, UnsureStep
<1>20. ChargedOK'
  BY <1>1, ChargedStep
<1>21. SchedOK'
  BY <1>1, SchedStep
<1>22. OpenOK'
  BY <1>1, OpenStep
<1>23. ErrorOK'
  BY <1>1, ErrorStep
<1>24. JobOK'
  BY <1>1, JobStep
<1> QED
  BY <1>3, <1>4, <1>5, <1>6, <1>7, <1>8, <1>9, <1>10, <1>11, <1>12, <1>13, <1>14, <1>15,
         <1>16, <1>17, <1>18, <1>19, <1>20, <1>21, <1>22, <1>23, <1>24 DEF ExpInv

\* The journal, its bodies, the checkpoint and the worker always fit together.
THEOREM ExpInvariant == Spec => []ExpInv
<1>1. Init => ExpInv
  BY ExpInvInit
<1>2. ExpInv /\ [Next]_vars => ExpInv'
  BY ExpInvStep
<1> QED BY <1>1, <1>2, PTL DEF Spec

\* The state of a run stays well formed: a prepared receipt has its tool slot, and a
\* worker exists exactly while its job is live.
THEOREM RunTypes == Spec => []TypeOK
<1>1. ExpInv => TypeOK
  BY DEF ExpInv, TypeOK, JournalOK, PlaceOK
<1> QED BY ExpInvariant, <1>1, PTL

\* No logical model call is sent again once the provider may have accepted it,
\* whatever crashes, resumes and cancels come between.
THEOREM CallsPaidOnce == Spec => []PaidOnce
<1>1. ExpInv => PaidOnce
  BY DEF ExpInv, PaidOnce, SentOK
<1> QED BY ExpInvariant, <1>1, PTL

\* Every digest the journal holds is the one of the durable body it names.
THEOREM DigestsMatchBodies == Spec => []BodiesStand
<1>1. ExpInv => BodiesStand
  BY DEF ExpInv, BodiesStand, Kept, DigestsStand, ReductionStands
<1> QED BY ExpInvariant, <1>1, PTL

\* Committed receipts are charged once each, and a worker's ledger never believes in
\* more tool calls than the journal has left.
THEOREM ToolsNotOverAdmitted == Spec => []NoOverAdmission
<1>1. ExpInv => NoOverAdmission
  BY DEF ExpInv, NoOverAdmission, CountOK, ToolsOK, LlmOK, Receipts, LedOK
<1> QED BY ExpInvariant, <1>1, PTL

\* A run that ends by its own decision or by its budget after a settled round keeps its
\* report.
THEOREM ReportIsKept == Spec => []ReportKept
<1>1. ExpInv => ReportKept
  BY DEF ExpInv, EndOK
<1> QED BY ExpInvariant, <1>1, PTL

\* A run fails only for a cause, and one that stands still without a job was hit by a
\* fault.
THEOREM EndsAreCaused == Spec => []EndsHaveCause
<1>1. ExpInv => EndsHaveCause
  BY SMTT(60) DEF ExpInv, EndsHaveCause, ErrorOK, JobOK, Cause, Causes
<1> QED BY ExpInvariant, <1>1, PTL

\* One step of a run whose last round decided its end.
EndDecided ==
    j.term # None /\ j'.status = "stopped" =>
        \/ j'.reason \in {j.term, "cancelled", "state_witness_changed"}
        \/ api = "launching"

\* Only a cancel, changed data or a failed launch overrides the decision.
LEMMA DecidedEndStep ==
    ASSUME Shape, JournalOK, DecidedOK, RaisedOK, [Next]_vars
    PROVE  EndDecided
<1>1. CASE RecoverCallFlat
  <2>1. EndStays
    BY <1>1, SettlingKeepsEnd DEF RecoverCallFlat, CallSettles, EndStays, Shape
  <2> QED BY <2>1 DEF EndDecided, EndStays, JournalOK
<1>2. CASE RecoverToolFlat
  <2>1. EndStays
    BY <1>2, SlotsKeepEnd DEF RecoverToolFlat, SlotMoves, EndStays, Shape
  <2> QED BY <2>1 DEF EndDecided, EndStays, JournalOK
<1>3. CASE EnterFlat
  <2>0. /\ job = "live" /\ w.pc = "enter"
        /\ UNCHANGED <<body, wf, cp, probe, job, api, changed, sent, blame, count>>
    BY <1>3 DEF EnterFlat
  <2>1. CASE /\ j.status = "pause_requested" /\ j' = [j EXCEPT !.status = "paused"]
             /\ ToFresh("ending")
    BY <2>0, <2>1, StatusFields
       DEF EndDecided, JournalOK, Shape
  <2>2. CASE j.status \in {"stopped", "paused"} /\ j' = j /\ ToFresh("ending")
    BY <2>0, <2>2
       DEF EndDecided, JournalOK, Shape
  <2>3. CASE /\ j.status = "running" /\ j' = Stopped("state_witness_changed", FALSE)
             /\ ToFresh("ending")
    <3>1. j'.reason = "state_witness_changed"
      BY <2>0, <2>3, StoppedFields DEF Shape
    <3> QED BY <3>1 DEF EndDecided
  <2>4. CASE j.status \notin {"pause_requested", "stopped", "paused"} /\ j' = j /\ Goto("node")
    BY <2>0, <2>4
       DEF EndDecided, JournalOK, Shape
  <2> QED BY <1>3, <2>1, <2>2, <2>3, <2>4 DEF EnterFlat
<1>4. CASE OpenRoundFlat
  BY <1>4, RoundStartedFields
     DEF OpenRoundFlat, EndDecided, JournalOK, Shape
<1>5. CASE StartCallFlat
  BY <1>5, CallStartedFields
     DEF StartCallFlat, EndDecided, JournalOK, Shape
<1>6. CASE SendRefusedFlat
  BY <1>6, CallRejectedFields
     DEF SendRefusedFlat, EndDecided, JournalOK, Shape
<1>7. CASE AnswerUnknownFlat
  BY <1>7, CallUncertainFields
     DEF AnswerUnknownFlat, EndDecided, JournalOK, Shape
<1>8. CASE AnswerMalformedFlat
  BY <1>8, CallRejectedFields
     DEF AnswerMalformedFlat, EndDecided, JournalOK, Shape
<1>9. CASE AnswerUnavailableFlat
  BY <1>9, CallRejectedFields
     DEF AnswerUnavailableFlat, EndDecided, JournalOK, Shape
<1>10. CASE CompleteCallFlat
  BY <1>10, CallCompletedFields
     DEF CompleteCallFlat, EndDecided, JournalOK, Shape
<1>11. CASE StartToolFlat
  BY <1>11, ToolStartedFields
     DEF StartToolFlat, EndDecided, JournalOK, Shape
<1>12. CASE FailToolFlat
  BY <1>12, ToolFailedFields
     DEF FailToolFlat, EndDecided, JournalOK, Shape
<1>13. CASE PrepareReceiptFlat
  BY <1>13, ReceiptPreparedFields
     DEF PrepareReceiptFlat, EndDecided, JournalOK, Shape
<1>14. CASE CommitReceiptFlat
  BY <1>14, ReceiptCommittedFields
     DEF CommitReceiptFlat, EndDecided, JournalOK, Shape
<1>15. CASE GateVerdictFlat
  BY <1>15, GatedFields
     DEF GateVerdictFlat, EndDecided, JournalOK, Shape
<1>16. CASE CommitReductionFlat
  BY <1>16, ReductionCommittedFields
     DEF CommitReductionFlat, EndDecided, JournalOK, Shape
<1>17. CASE SettleFlat
  BY <1>17, RoundSettledFields
     DEF SettleFlat, EndDecided, JournalOK, Shape
<1>18. CASE StopFlat
  <2>0. /\ job = "live" /\ w.pc = "stop"
        /\ UNCHANGED <<body, wf, cp, probe, api, changed, sent, count>>
    BY <1>18 DEF StopFlat
  <2>1. CASE /\ CanStop(w.reason) /\ j' = Stopped(w.reason, w.report)
             /\ ToFresh("ending") /\ UNCHANGED <<job, blame>>
    <3>1. j'.reason = w.reason
      BY <2>1, StoppedFields DEF Shape
    <3>2. j.term # None => j.status # "stopped"
      BY DEF JournalOK
    <3>3. w.exc = None => cp.node = "synthesize" /\ w.reason = cp.reason
      BY <2>0 DEF RaisedOK
    <3>4. w.exc # None => j.term = None
      BY <2>0 DEF RaisedOK
    <3>5. j.term # None => w.reason = j.term
      BY <3>2, <3>3, <3>4 DEF DecidedOK
    <3> QED BY <3>1, <3>5 DEF EndDecided
  <2>2. CASE ~CanStop(w.reason) /\ w.exc = None /\ UNCHANGED <<j, job, blame>> /\ Raise("error")
    BY <2>0, <2>2
       DEF EndDecided, JournalOK, Shape
  <2>3. CASE /\ ~CanStop(w.reason) /\ w.exc = "budget" /\ UNCHANGED <<j, job, blame>>
             /\ ToBare
    BY <2>0, <2>3
       DEF EndDecided, JournalOK, Shape
  <2>4. CASE j' = j /\ w' = Off /\ job' = "failed" /\ blame' = blame \cup {"race"}
    BY <2>0, <2>4
       DEF EndDecided, JournalOK, Shape
  <2> QED BY <1>18, <2>1, <2>2, <2>3, <2>4 DEF StopFlat
<1>19. CASE HandlePauseFlat
  BY <1>19, StatusFields, SMTT(60)
     DEF HandlePauseFlat, EndDecided, JournalOK, Shape
<1>20. CASE PauseFlat
  BY <1>20, StatusFields
     DEF PauseFlat, EndDecided, JournalOK, Shape
<1>21. CASE ResumeFlat
  <2>0. /\ j.status = "paused" /\ api = "idle"
        /\ UNCHANGED <<body, wf, cp, probe, w, job, changed, sent, blame, count>>
    BY <1>21 DEF ResumeFlat
  <2>1. CASE changed /\ j' = Stopped("state_witness_changed", FALSE) /\ api' = api
    <3>1. j'.reason = "state_witness_changed"
      BY <2>0, <2>1, StoppedFields DEF Shape
    <3> QED BY <3>1 DEF EndDecided
  <2>2. CASE /\ job \notin {"queued", "live"} /\ j' = [j EXCEPT !.status = "running"]
             /\ api' = "launching"
    BY <2>0, <2>2, StatusFields
       DEF EndDecided, JournalOK, Shape
  <2> QED BY <1>21, <2>1, <2>2 DEF ResumeFlat
<1>22. CASE LaunchFlat
  <2> QED BY <1>22 DEF LaunchFlat, EndDecided
<1>23. CASE CancelFlat
  <2>1. j'.reason = "cancelled"
    BY <1>23, StoppedFields DEF CancelFlat, Shape
  <2> QED BY <2>1 DEF EndDecided
<1>24. CASE ExtendBudgetFlat
  BY <1>24, BudgetFields
     DEF ExtendBudgetFlat, EndDecided, JournalOK, Shape
<1>25. CASE UNCHANGED <<j>>
  BY <1>25 DEF EndDecided, JournalOK, Shape
<1>26. QED
  BY NextIsFlat, <1>1, <1>2, <1>3, <1>4, <1>5, <1>6, <1>7, <1>8, <1>9, <1>10, <1>11, <1>12,
         <1>13, <1>14, <1>15, <1>16, <1>17, <1>18, <1>19, <1>20, <1>21, <1>22, <1>23, <1>24,
         <1>25, ZenonT(60)
     DEF NextFlat, vars, ClaimFlat, VerifyFlat, RecoveredFlat, WriteCheckpointFlat,
         EndAttemptFlat, OrientFlat, GenerateFlat, SendFlat, AnsweredFlat, KeepAnswerFlat,
         ScheduleFlat, PassNodeFlat, ExecuteFlat, NextProbeFlat, AskModelFlat, UseToolFlat,
         RunToolFlat, KeepResultFlat, ReduceFlat, PersistReductionFlat, KeepReductionFlat,
         AfterSettleFlat, SynthesizeFlat, HandleCancelFlat, HandleStopFlat, CrashFlat,
         RerunFlat, CancelJobFlat, ChangeDataFlat

\* The terminal decision of a settled round is the one the run ends with, unless it is
\* cancelled, its data changed or its launch failed.
THEOREM DecisionIsKept == Spec => DecisionStands
<1>1. ExpInv /\ [Next]_vars =>
        (j.term # None /\ j'.status = "stopped" =>
           \/ j'.reason \in {j.term, "cancelled", "state_witness_changed"}
           \/ api = "launching")
  BY DecidedEndStep DEF ExpInv, EndDecided
<1> QED BY ExpInvariant, <1>1, PTL DEF Spec, DecisionStands

=============================================================================
