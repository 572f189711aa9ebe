------------------------------ MODULE Exploration ------------------------------
(***************************************************************************)
(* An autonomous exploration: the durable journal and its reducer, the     *)
(* phase graph of the supervisor, the probe executor, the recovery a new   *)
(* attempt performs, and the service calls (pause, resume, cancel, extend  *)
(* budget) that append to the same journal while a worker runs.            *)
(*                                                                         *)
(* One action is one step another actor or a crash can come between: one   *)
(* journal append (atomic, under the file lock), one durable write, one    *)
(* provider or tool effect, one graph checkpoint.  The executor lock       *)
(* admits one worker at a time, so the attempt epoch never refuses it and  *)
(* is left out.  Probes of a round run one after another, as the worker    *)
(* configures them, and each asks the model once (its step limit is 1).    *)
(* Branching is off.                                                       *)
(***************************************************************************)
EXTENDS Integers, FiniteSets

CONSTANTS
    None,           \* no value
    MaxRounds,      \* ExplorationBudgetPolicy.max_rounds
    NProbes,        \* most candidates a round's frontier holds
    LlmCap,         \* budget.llm.max_requests
    Protected,      \* budget.llm.protected_requests: kept from ordinary calls
    ToolCap,        \* max_successful_tool_calls
    MaxEvents       \* bound: pauses, crashes, amendments and data changes together

ASSUME BoundsAssumption ==
    /\ {MaxRounds, NProbes, LlmCap, ToolCap} \subseteq Nat \ {0}
    /\ Protected \in 1 .. LlmCap
    /\ MaxEvents \in Nat

VARIABLES
    j,        \* the journal, as reduce_exploration_event folds it
    body,     \* durable bodies: phase-responses, llm-responses, tool-results
    wf,       \* workflow-state.json: scheduled rounds and reduction verdicts
    cp,       \* the phase graph's checkpoint
    probe,    \* the checkpoint of every probe's own graph
    w,        \* the worker process (volatile)
    job,      \* the exploration_run job: queued, live, failed or done
    api,      \* a resume call between its append and the job it creates
    changed,  \* the source data no longer matches the run's witness
    sent,     \* history: requests sent per call and not refused by the provider
    blame,    \* history: the faults that happened
    count     \* bounds: pauses, crashes, amendments, provider requests

vars == <<j, body, wf, cp, probe, w, job, api, changed, sent, blame, count>>

Natural == {"completed", "budget_exhausted", "no_new_information"}

\* None is no terminal reason, and no exception a worker handles.
ASSUME NoneAssumption ==
    None \notin Natural \cup {"failed", "pause", "cancel", "witness", "budget", "error"}

\* What a round's evidence amounts to: the goal or the coverage target is met, an
\* insight is adjudicated, or neither (a bundle may still have been admitted).
Verdicts == {"goal", "news", "dry"}
Foreign == -1     \* a digest that is not candidate_batch_digest's
Rounds == 0 .. MaxRounds + MaxEvents - 1

\* Logical step identities: phase_step_id, make_executor_llm_step_id and
\* make_logical_step_id.  A model call has the identity of its step.
Gen(r) == <<"gen", r, 0>>
Red(r) == <<"red", r, 0>>
Ask(r, p) == <<"ask", r, p>>
Tool(r, p) == <<"tool", r, p>>
Calls == {Gen(r) : r \in Rounds} \cup {Ask(r, p) : r \in Rounds, p \in 1 .. NProbes}
Tools == {Tool(r, p) : r \in Rounds, p \in 1 .. NProbes}

\* The function f with the value v at k.
Put(f, k, v) == [x \in DOMAIN f \cup {k} |-> IF x = k THEN v ELSE f[x]]

Off == [pc |-> "off", p |-> 0, try |-> 0, val |-> None, led |-> 0, exc |-> None,
        reason |-> None, report |-> FALSE, bare |-> FALSE, out |-> None,
        todo |-> {}]

\* The graph has no checkpoint yet.
Fresh == [node |-> "orient", round |-> -1, n |-> 0, red |-> None,
          before |-> None, spent |-> FALSE, reason |-> None]

Init ==
    /\ j = [status |-> "running", reason |-> None, report |-> FALSE, term |-> None,
            open |-> FALSE, settled |-> 0, gated |-> {}, committed |-> FALSE,
            redn |-> None, calls |-> {}, unsure |-> {}, slots |-> {}, prep |-> {},
            dig |-> <<>>, llm |-> LlmCap, tools |-> ToolCap, rounds |-> MaxRounds,
            dry |-> 0]
    /\ body = <<>>
    /\ wf = [sched |-> {}, out |-> <<>>]
    /\ cp = Fresh
    /\ probe = [rp \in Rounds \X (1 .. NProbes) |-> "model"]
    /\ w = Off
    /\ job = "queued"
    /\ api = "idle"
    /\ changed = FALSE
    /\ sent = [c \in Calls |-> 0]
    /\ blame = {}
    /\ count = [pauses |-> 0, crashes |-> 0, amends |-> 0, reqs |-> 0]

-----------------------------------------------------------------------------
\* The journal's reducer.

NoPending == j.calls = {} /\ j.slots = {}
Done(s) == s \in DOMAIN j.dig

RoundStarted == [j EXCEPT !.open = TRUE, !.rounds = @ - 1, !.committed = FALSE]

CanStartRound ==
    /\ j.status = "running" /\ NoPending /\ j.term = None
    /\ ~j.open /\ j.rounds > 0

CallStarted(c) == [j EXCEPT !.calls = @ \cup {c}]
CanStartCall(c) ==
    /\ j.status = "running" /\ c \notin j.calls
    /\ j.llm - Cardinality(j.calls) > 0

CallCompleted(c, d) ==
    [j EXCEPT !.calls = @ \ {c}, !.dig = Put(@, c, d), !.llm = @ - 1]
CallRejected(c) == [j EXCEPT !.calls = @ \ {c}, !.llm = @ - 1]
\* Mutant: an unknown outcome is settled but not latched.
CallUncertainUnlatched(c) == [j EXCEPT !.calls = @ \ {c}, !.llm = @ - 1]

CallUncertain(c) ==
    [j EXCEPT !.calls = @ \ {c}, !.unsure = @ \cup {c}, !.llm = @ - 1]

ToolStarted(t) == [j EXCEPT !.slots = @ \cup {t}]
CanStartTool(t) ==
    /\ j.status = "running" /\ t \notin j.slots /\ ~Done(t)
    /\ j.tools - Cardinality(j.slots) > 0
ReceiptPrepared(t) == [j EXCEPT !.prep = @ \cup {t}]
ReceiptCommitted(t, d) ==
    [j EXCEPT !.slots = @ \ {t}, !.prep = @ \ {t},
              !.dig = Put(@, t, d), !.tools = @ - 1]
ToolFailed(t) == [j EXCEPT !.slots = @ \ {t}, !.prep = @ \ {t}]

ReductionCommitted(o) == [j EXCEPT !.redn = o, !.committed = TRUE]
RoundSettled(o, why) ==
    [j EXCEPT !.open = FALSE, !.committed = FALSE, !.settled = @ + 1,
              !.dry = IF o.v = "dry" THEN @ + 1 ELSE 0, !.term = why]

CanStop(why) ==
    /\ j.status # "stopped"
    /\ why \in Natural => /\ j.status = "running" /\ NoPending
                          /\ j.term \in {None, why}
\* Mutant: the tool slots are dropped and their receipts are not.
StoppedHalf(why, report) ==
    [j EXCEPT !.status = "stopped", !.reason = why, !.report = report,
              !.calls = {}, !.slots = {}, !.term = None]

Stopped(why, report) ==
    [j EXCEPT !.status = "stopped", !.reason = why, !.report = report,
              !.llm = @ - Cardinality(j.calls), !.unsure = @ \cup j.calls,
              !.calls = {}, !.slots = {}, !.prep = {}, !.term = None]

-----------------------------------------------------------------------------
\* How a step of the worker ends: it goes on, raises, or leaves the graph.

Goto(pc) == w' = [w EXCEPT !.pc = pc]
Raise(e) == w' = [Off EXCEPT !.pc = "raised", !.exc = e]
Checkpoint(next) == w' = [w EXCEPT !.pc = "ckpt", !.out = next]
At(pc) == job = "live" /\ w.pc = pc
AtNode(name) == At("node") /\ cp.node = name

\* append_new: the reducer accepts the event, or the worker sees
\* EventTransitionError.
Append(allowed, next, go) ==
    IF j.status # "stopped" /\ allowed THEN j' = next /\ go
    ELSE UNCHANGED j /\ Raise("error")

\* _honor_journal_control: only cancel stops a journal a worker still holds.
Honored(go) ==
    IF j.status = "running" THEN go
    ELSE Raise(IF j.status = "stopped" THEN "cancel" ELSE "pause")

Finish == w' = [Off EXCEPT !.pc = "ending"] /\ UNCHANGED <<job, blame>>
\* An exception that leaves the graph fails the job.
Escape(why) == w' = Off /\ job' = "failed" /\ blame' = blame \cup {why}

Env == <<api, changed, count>>
Hist == <<sent, blame>>
Disk == <<body, wf, cp, probe>>

-----------------------------------------------------------------------------
\* A new attempt.

Claim ==
    /\ job = "queued"
    /\ job' = "live"
    /\ w' = [Off EXCEPT !.pc = "verify"]
    /\ UNCHANGED <<j, Disk, Hist, Env>>

\* run_exploration_worker compares the witness before it opens the run.
Verify ==
    /\ At("verify")
    /\ IF changed THEN Escape("witness")
       ELSE /\ w' = IF j.status = "stopped" THEN [w EXCEPT !.pc = "enter"]
                    ELSE [w EXCEPT !.pc = "recover", !.todo = j.calls \cup j.slots]
            /\ UNCHANGED <<job, blame>>
    /\ UNCHANGED <<j, Disk, sent, Env>>

\* claim_recovery settles, call by call, what the claim found pending.  Nothing
\* catches the refusal of a run that was cancelled meanwhile.
RecoverEach(settled, todo) ==
    IF j.status = "stopped" THEN Escape("race") /\ UNCHANGED j
    ELSE j' = settled /\ w' = [w EXCEPT !.todo = todo] /\ UNCHANGED <<job, blame>>

\* A durable body is adopted; for a candidate batch the digest recorded is the
\* recovery store's own, which is not candidate_batch_digest.
RecoverCall ==
    /\ At("recover")
    /\ \E c \in w.todo \cap Calls :
          RecoverEach(IF c \notin DOMAIN body THEN CallUncertain(c)
                      ELSE CallCompleted(c, IF c[1] = "gen" THEN Foreign ELSE body[c]),
                      w.todo \ {c})
    /\ UNCHANGED <<Disk, sent, Env>>

RecoverTool ==
    /\ At("recover") /\ w.todo \cap Calls = {}
    /\ \E t \in w.todo :
          CASE t \notin DOMAIN body -> RecoverEach(ToolFailed(t), w.todo \ {t})
            [] t \in DOMAIN body /\ t \notin j.prep -> RecoverEach(ReceiptPrepared(t), w.todo)
            [] OTHER -> RecoverEach(ReceiptCommitted(t, body[t]), w.todo \ {t})
    /\ UNCHANGED <<Disk, sent, Env>>

\* The tool ledger is restored from the journal once, here.
Recovered ==
    /\ At("recover") /\ w.todo = {}
    /\ w' = [w EXCEPT !.pc = "enter", !.led = j.tools]
    /\ UNCHANGED <<j, Disk, job, Hist, Env>>

\* Mutant: a run without rounds is stopped before its decision is looked at.
EnterExhausted ==
    /\ At("enter")
    /\ CASE j.status = "pause_requested" ->
              j' = [j EXCEPT !.status = "paused"] /\ Finish
         [] j.status \in {"stopped", "paused"} -> UNCHANGED j /\ Finish
         [] j.status = "running" /\ ~j.open /\ j.rounds <= 0 ->
              j' = Stopped("budget_exhausted", j.settled > 0) /\ Finish
         [] OTHER -> UNCHANGED <<j, job, blame>> /\ Goto("node")
    /\ UNCHANGED <<Disk, sent, Env>>

\* ExplorationSupervisor.run and the witness check of run_exploration_graph.
Enter ==
    /\ At("enter")
    /\ CASE j.status = "pause_requested" ->
              j' = [j EXCEPT !.status = "paused"] /\ Finish
         [] j.status \in {"stopped", "paused"} -> UNCHANGED j /\ Finish
         [] j.status = "running" /\ changed /\ cp # Fresh ->
              j' = Stopped("state_witness_changed", FALSE) /\ Finish
         [] OTHER -> UNCHANGED <<j, job, blame>> /\ Goto("node")
    /\ UNCHANGED <<Disk, sent, Env>>

WriteCheckpoint ==
    /\ At("ckpt")
    /\ cp' = w.out
    /\ w' = [w EXCEPT !.pc = "node", !.p = 0, !.try = 0, !.val = None, !.out = None]
    /\ UNCHANGED <<j, body, wf, probe, job, Hist, Env>>

EndAttempt ==
    /\ At("ending")
    /\ w' = Off
    /\ job' = "done"
    /\ UNCHANGED <<j, Disk, Hist, Env>>

-----------------------------------------------------------------------------
\* orient

\* The hard budget (wall time, idle time) may be exhausted at any start.
Orient ==
    /\ AtNode("orient")
    /\ \E late \in BOOLEAN :
          Honored(CASE late \/ (j.rounds <= 0 /\ ~j.open) -> Raise("budget")
                    [] ~late /\ changed -> Raise("witness")
                    [] OTHER -> IF j.open
                                THEN Checkpoint([cp EXCEPT !.node = "generate",
                                                           !.round = j.settled])
                                ELSE Goto("open"))
    /\ UNCHANGED <<j, Disk, job, Hist, Env>>

OpenRound ==
    /\ At("open")
    /\ Append(CanStartRound, RoundStarted,
              Checkpoint([cp EXCEPT !.node = "generate", !.round = j.settled]))
    /\ UNCHANGED <<Disk, job, Hist, Env>>

-----------------------------------------------------------------------------
\* A model call: the candidate batch of a round, or the one step of a probe.

Call == IF cp.node = "generate" THEN Gen(cp.round) ELSE Ask(cp.round, w.p)
Here == <<cp.round, w.p>>
CanSend == count.reqs < LlmCap - Protected
ProbeLoop == w' = [w EXCEPT !.pc = "probes", !.val = None]
ProbeTo(x) == probe' = [probe EXCEPT ![Here] = x] /\ ProbeLoop

\* The provider's budget refuses before anything is sent, on requests or on a
\* dimension the model does not count.
Generate ==
    /\ AtNode("generate")
    /\ \E refuse \in BOOLEAN :
          Honored(CASE Done(Call) ->
                         IF j.dig[Call] = body[Call]
                         THEN Checkpoint([cp EXCEPT !.node = "schedule"])
                         ELSE Raise("error")
                    [] ~Done(Call) /\ Call \in j.unsure -> Raise("error")
                    [] ~Done(Call) /\ Call \notin j.unsure
                         /\ (refuse \/ ~CanSend) -> Raise("budget")
                    [] OTHER -> w' = [w EXCEPT !.pc = "start", !.try = 1])
    /\ UNCHANGED <<j, Disk, job, Hist, Env>>

StartCall ==
    /\ At("start")
    /\ Append(CanStartCall(Call), CallStarted(Call), Goto("send"))
    /\ UNCHANGED <<Disk, job, Hist, Env>>

Send ==
    /\ At("send") /\ CanSend
    /\ sent' = [sent EXCEPT ![Call] = @ + 1]
    /\ count' = [count EXCEPT !.reqs = @ + 1]
    /\ Goto("answer")
    /\ UNCHANGED <<j, Disk, job, blame, api, changed>>

\* A refusal known to have produced nothing: the call is settled as rejected and
\* a generation goes on as told, a probe ends in the given state.
Rejected(generation, state) ==
    IF j.status = "stopped" THEN Raise("error") /\ UNCHANGED <<j, probe>>
    ELSE /\ j' = CallRejected(Call)
         /\ IF cp.node = "generate" THEN generation /\ UNCHANGED probe
            ELSE ProbeTo(state)

\* The call's own reservation is refused, after a preflight that passed.
SendRefused ==
    /\ At("send")
    /\ blame' = blame \cup {"refused"}
    /\ Rejected(Raise("budget"), "spent")
    /\ UNCHANGED <<body, wf, cp, job, sent, Env>>

\* A second unusable proposal concludes the round: its batch is empty.
Answered ==
    /\ At("answer")
    /\ \E v \in IF cp.node = "generate" THEN 0 .. NProbes ELSE {"tools", "answer"} :
          w' = [w EXCEPT !.pc = "keep", !.val = v]
    /\ UNCHANGED <<j, Disk, job, Hist, Env>>

\* The provider took the request and its outcome is unknown.
AnswerUnknown ==
    /\ At("answer")
    /\ blame' = blame \cup {"provider"}
    /\ IF j.status = "stopped" THEN Raise("error") /\ UNCHANGED <<j, probe>>
       ELSE /\ j' = CallUncertain(Call)
            /\ IF cp.node = "generate" THEN Raise("error") /\ UNCHANGED probe
               ELSE ProbeTo("bad")
    /\ UNCHANGED <<body, wf, cp, job, sent, Env>>

\* An answer that breaks the schema is asked for once more.
AnswerMalformed ==
    /\ At("answer")
    /\ ~(cp.node = "generate" /\ w.try = 2)
    /\ sent' = [sent EXCEPT ![Call] = 0]
    /\ Rejected(w' = [w EXCEPT !.pc = "start", !.try = 2], "end")
    /\ UNCHANGED <<body, wf, cp, job, blame, Env>>

\* ProviderUnavailableError: the provider says it never processed the request.
AnswerUnavailable ==
    /\ At("answer")
    /\ sent' = [sent EXCEPT ![Call] = 0]
    /\ blame' = blame \cup {"provider"}
    /\ Rejected(Raise("error"), "end")
    /\ UNCHANGED <<body, wf, cp, job, Env>>

KeepAnswer ==
    /\ At("keep")
    /\ body' = Put(body, Call, w.val)
    /\ Goto("complete")
    /\ UNCHANGED <<j, wf, cp, probe, job, Hist, Env>>

CompleteCall ==
    /\ At("complete")
    /\ Append(Call \in j.calls, CallCompleted(Call, w.val),
              IF cp.node = "generate" THEN Checkpoint([cp EXCEPT !.node = "schedule"])
              ELSE ProbeLoop)
    /\ UNCHANGED <<Disk, job, Hist, Env>>

-----------------------------------------------------------------------------
\* schedule, select, execute_probes, validate

\* admit_and_score persists the round's decisions before the checkpoint.  A
\* replay scores against a history that holds them, so it decides differently
\* unless there was nothing to decide, and is refused.
Schedule ==
    /\ AtNode("schedule")
    /\ IF j.status = "running" /\ cp.round \notin wf.sched
       THEN wf' = [wf EXCEPT !.sched = @ \cup {cp.round}] ELSE UNCHANGED wf
    /\ Honored(LET n == body[Gen(cp.round)] IN
               IF cp.round \in wf.sched /\ n > 0 THEN Raise("error")
               ELSE Checkpoint([cp EXCEPT !.node = IF n > 0 THEN "select" ELSE "reduce",
                                          !.n = n]))
    /\ UNCHANGED <<j, body, cp, probe, job, Hist, Env>>

PassNode ==
    /\ AtNode("select") \/ AtNode("validate")
    /\ Honored(Checkpoint([cp EXCEPT !.node = IF cp.node = "select"
                                              THEN "execute_probes" ELSE "reduce"]))
    /\ UNCHANGED <<j, Disk, job, Hist, Env>>

Execute ==
    /\ AtNode("execute_probes")
    /\ Honored(w' = [w EXCEPT !.pc = "probes", !.p = 1])
    /\ UNCHANGED <<j, Disk, job, Hist, Env>>

\* The serial loop of SupervisorProbeExecutorPort.execute.  A probe that ran
\* out of budget ends the loop; an unusable one fails the phase.
NextProbe ==
    /\ At("probes")
    /\ LET over == w.p > cp.n
           spent == w.p > 1 /\ probe[<<cp.round, w.p - 1>>] = "spent"
       IN  IF over \/ spent
           THEN Checkpoint([cp EXCEPT !.node = "validate", !.spent = spent])
           ELSE /\ probe[Here] \in {"end", "spent", "bad"}
                /\ IF probe[Here] = "bad" THEN Raise("error")
                   ELSE w' = [w EXCEPT !.p = @ + 1]
    /\ UNCHANGED <<j, Disk, job, Hist, Env>>

ProbeAt(x) == At("probes") /\ w.p <= cp.n /\ probe[Here] = x

\* _model_node: a completed step is adopted, an uncertain one never resent.
AskModel ==
    /\ ProbeAt("model")
    /\ w.p > 1 => probe[<<cp.round, w.p - 1>>] # "spent"
    /\ \E refuse \in BOOLEAN :
          CASE Call \in j.unsure -> ProbeTo("bad")
            [] Done(Call) -> ProbeTo(IF j.dig[Call] # body[Call] THEN "bad"
                                     ELSE IF body[Call] = "tools" THEN "tools" ELSE "end")
            [] ~Done(Call) /\ Call \notin j.unsure
                 /\ (refuse \/ ~CanSend) -> ProbeTo("spent")
            [] OTHER -> Goto("start") /\ UNCHANGED probe
    /\ UNCHANGED <<j, body, wf, cp, job, Hist, Env>>

\* _tools_node: a committed step is adopted before the ledger admits new work.
UseTool ==
    /\ ProbeAt("tools")
    /\ LET t == Tool(cp.round, w.p) IN
          CASE Done(t) -> ProbeTo(IF t \in DOMAIN body THEN "end" ELSE "bad")
            [] ~Done(t) /\ w.led <= 0 -> ProbeTo("spent")
            [] OTHER -> Goto("tstart") /\ UNCHANGED probe
    /\ UNCHANGED <<j, body, wf, cp, job, Hist, Env>>

StartTool ==
    /\ At("tstart")
    /\ LET t == Tool(cp.round, w.p) IN
          Append(CanStartTool(t), ToolStarted(t), Goto("run"))
    /\ UNCHANGED <<Disk, job, Hist, Env>>

\* A second execution of a step need not find what the first one found.
RunTool ==
    /\ At("run")
    /\ w' = [w EXCEPT !.pc = "tkeep", !.val = count.crashes]
    /\ UNCHANGED <<j, Disk, job, Hist, Env>>

\* A failed tool is settled and the probe goes on without its receipt.
FailTool ==
    /\ At("run")
    /\ IF j.status = "stopped" THEN Raise("error") /\ UNCHANGED <<j, probe>>
       ELSE j' = ToolFailed(Tool(cp.round, w.p)) /\ ProbeTo("end")
    /\ UNCHANGED <<body, wf, cp, job, Hist, Env>>

\* Mutant: the ledger is charged by the journal only.
KeepResultUncharged ==
    /\ At("tkeep")
    /\ body' = Put(body, Tool(cp.round, w.p), w.val)
    /\ Goto("prepare")
    /\ UNCHANGED <<j, wf, cp, probe, job, Hist, Env>>

KeepResult ==
    /\ At("tkeep")
    /\ body' = Put(body, Tool(cp.round, w.p), w.val)
    /\ w' = [w EXCEPT !.pc = "prepare", !.led = @ - 1]
    /\ UNCHANGED <<j, wf, cp, probe, job, Hist, Env>>

PrepareReceipt ==
    /\ At("prepare")
    /\ LET t == Tool(cp.round, w.p) IN
          Append(t \in j.slots, ReceiptPrepared(t), Goto("commit"))
    /\ UNCHANGED <<Disk, job, Hist, Env>>

CommitReceipt ==
    /\ At("commit")
    /\ LET t == Tool(cp.round, w.p) IN
          Append(t \in j.prep, ReceiptCommitted(t, w.val), ProbeLoop)
    /\ UNCHANGED <<Disk, job, Hist, Env>>

-----------------------------------------------------------------------------
\* reduce

Evidence == \E p \in 1 .. cp.n : Done(Tool(cp.round, p))
Snapshot == [rounds |-> j.rounds, dry |-> j.dry]
ToSettle(o) == Checkpoint([cp EXCEPT !.node = "settle", !.red = o, !.before = Snapshot])

\* A committed reduction is adopted from its body.
Reduce ==
    /\ AtNode("reduce")
    /\ Honored(CASE j.committed -> IF j.redn = body[Red(cp.round)]
                                   THEN ToSettle(j.redn) ELSE Raise("error")
                 [] ~j.committed /\ Evidence -> Goto("gate")
                 [] OTHER -> w' = [w EXCEPT !.pc = "rkeep",
                                            !.val = [v |-> "dry", fresh |-> TRUE]])
    /\ UNCHANGED <<j, Disk, job, Hist, Env>>

\* A verdict already in the journal is not appended again.
GateVerdict ==
    /\ At("gate")
    /\ IF cp.round \in j.gated THEN UNCHANGED j /\ Goto("persist")
       ELSE Append(j.status = "running" /\ NoPending /\ j.open,
                   [j EXCEPT !.gated = @ \cup {cp.round}], Goto("persist"))
    /\ UNCHANGED <<Disk, job, Hist, Env>>

\* The workflow state is persisted before the outcome.  A replay finds the
\* insight there and counts no newly admitted bundle.
PersistReduction ==
    /\ At("persist")
    /\ IF cp.round \in DOMAIN wf.out
       THEN /\ UNCHANGED wf
            /\ w' = [w EXCEPT !.pc = "rkeep",
                              !.val = [v |-> wf.out[cp.round], fresh |-> FALSE]]
       ELSE \E v \in Verdicts :
            /\ wf' = [wf EXCEPT !.out = Put(@, cp.round, v)]
            /\ w' = [w EXCEPT !.pc = "rkeep", !.val = [v |-> v, fresh |-> TRUE]]
    /\ UNCHANGED <<j, body, cp, probe, job, Hist, Env>>

\* Mutant: the first outcome kept for a step stands.
KeepReductionFirst ==
    /\ At("rkeep")
    /\ body' = IF Red(cp.round) \in DOMAIN body THEN body ELSE Put(body, Red(cp.round), w.val)
    /\ Goto("reduce")
    /\ UNCHANGED <<j, wf, cp, probe, job, Hist, Env>>

\* JsonSupervisorRecoveryStore.remember: an outcome the journal has not
\* accepted may be replaced.
KeepReduction ==
    /\ At("rkeep")
    /\ IF j.committed /\ j.redn # w.val THEN UNCHANGED body /\ Raise("error")
       ELSE body' = Put(body, Red(cp.round), w.val) /\ Goto("reduce")
    /\ UNCHANGED <<j, wf, cp, probe, job, Hist, Env>>

CommitReduction ==
    /\ At("reduce")
    /\ Append(j.status = "running" /\ NoPending /\ j.open,
              ReductionCommitted(w.val), ToSettle(w.val))
    /\ UNCHANGED <<Disk, job, Hist, Env>>

-----------------------------------------------------------------------------
\* settle, synthesize, and the end of the run

\* _settle_decision, on a snapshot of the journal and the outcome the checkpoint
\* holds.  With branching off two rounds without an adjudicated transition end
\* the run, so the rule on rounds without progress adds nothing.
DecisionOn(before) ==
    LET stale == cp.red.v = "dry" /\ before.dry + 1 >= 2
    IN  IF ~cp.spent /\ cp.red.v = "goal" THEN "completed"
        ELSE IF ~cp.spent /\ stale THEN "no_new_information"
        ELSE IF cp.spent \/ before.rounds <= 0 THEN "budget_exhausted"
        ELSE None

Decision == DecisionOn(cp.before)

\* Mutant: a replayed settle appends the round's settlement again.
SettleAgain ==
    /\ AtNode("settle")
    /\ Append(NoPending /\ j.open, RoundSettled(cp.red, Decision), Goto("after"))
    /\ UNCHANGED <<Disk, job, Hist, Env>>

Settle ==
    /\ AtNode("settle")
    /\ IF j.settled <= cp.round
       THEN Append(NoPending /\ j.open, RoundSettled(cp.red, Decision), Goto("after"))
       ELSE UNCHANGED j /\ Goto("after")
    /\ UNCHANGED <<Disk, job, Hist, Env>>

AfterSettle ==
    /\ At("after")
    /\ IF Decision # None
       THEN Checkpoint([cp EXCEPT !.node = "synthesize", !.reason = Decision])
       ELSE Honored(Checkpoint([cp EXCEPT !.node = "orient", !.red = None,
                                          !.before = None, !.n = 0, !.spent = FALSE]))
    /\ UNCHANGED <<j, Disk, job, Hist, Env>>

Synthesize ==
    /\ AtNode("synthesize")
    /\ Honored(w' = [w EXCEPT !.pc = "stop", !.reason = cp.reason, !.report = TRUE])
    /\ UNCHANGED <<j, Disk, job, Hist, Env>>

\* journal.stop.  A refusal inside a node is an exception of the node; inside
\* the budget handler's report attempt it falls back to the bare stop; anywhere
\* else nothing catches it and the job fails.
Stop ==
    /\ At("stop")
    /\ CASE CanStop(w.reason) -> j' = Stopped(w.reason, w.report) /\ Finish
         [] ~CanStop(w.reason) /\ w.exc = None ->
              UNCHANGED <<j, job, blame>> /\ Raise("error")
         [] ~CanStop(w.reason) /\ w.exc = "budget" /\ w.report ->
              /\ w' = [w EXCEPT !.pc = "raised", !.bare = TRUE]
              /\ UNCHANGED <<j, job, blame>>
         [] OTHER -> UNCHANGED j /\ Escape("race")
    /\ UNCHANGED <<Disk, sent, Env>>

\* Mutant: the node is entered again instead of leaving the graph.
HandlePauseRetries ==
    /\ At("raised") /\ w.exc = "pause"
    /\ w' = [w EXCEPT !.pc = "node", !.exc = None]
    /\ UNCHANGED <<j, Disk, job, Hist, Env>>

\* The guard around every node (graph.py _guard).
HandlePause ==
    /\ At("raised") /\ w.exc = "pause"
    /\ CASE j.status = "pause_requested" /\ NoPending ->
              j' = [j EXCEPT !.status = "paused"] /\ Finish
         [] j.status = "paused" -> UNCHANGED j /\ Finish
         [] OTHER -> UNCHANGED j /\ Escape("race")
    /\ UNCHANGED <<Disk, sent, Env>>

HandleCancel ==
    /\ At("raised") /\ w.exc = "cancel"
    /\ Finish
    /\ UNCHANGED <<j, Disk, sent, Env>>

\* Mutant: a round that is under way has no report to keep.
HandleStopBetweenRounds ==
    /\ At("raised") /\ w.exc \in {"witness", "budget", "error"}
    /\ IF j.status # "running"
       THEN Raise(IF j.status = "stopped" THEN "cancel" ELSE "pause")
       ELSE w' = [w EXCEPT !.pc = "stop",
                    !.reason = CASE w.exc = "witness" -> "state_witness_changed"
                                 [] w.exc = "budget" -> "budget_exhausted"
                                 [] OTHER -> "failed",
                    !.report = /\ w.exc = "budget" /\ ~w.bare /\ ~j.open /\ j.settled > 0
                               /\ j.redn = body[Red(j.settled - 1)]]
    /\ UNCHANGED <<j, Disk, job, Hist, Env>>

\* Budget death renders the report of the last settled round when its
\* reduction can be recovered.
HandleStop ==
    /\ At("raised") /\ w.exc \in {"witness", "budget", "error"}
    /\ IF j.status # "running"
       THEN Raise(IF j.status = "stopped" THEN "cancel" ELSE "pause")
       ELSE w' = [w EXCEPT !.pc = "stop",
                    !.reason = CASE w.exc = "witness" -> "state_witness_changed"
                                 [] w.exc = "budget" -> "budget_exhausted"
                                 [] OTHER -> "failed",
                    !.report = /\ w.exc = "budget" /\ ~w.bare /\ j.settled > 0
                               /\ j.redn = body[Red(j.settled - 1)]]
    /\ UNCHANGED <<j, Disk, job, Hist, Env>>

-----------------------------------------------------------------------------
\* Faults, and the calls of the exploration service.

Room ==
    count.pauses + count.crashes + count.amends + (IF changed THEN 1 ELSE 0) < MaxEvents

\* The window a worker dies in.
Window ==
    CASE w.pc \in {"send", "answer", "keep"} -> "inflight"
      [] w.pc = "complete" /\ cp.node = "generate" -> "batch"
      [] w.pc = "ckpt" /\ cp.node = "schedule" -> "schedule"
      [] OTHER -> "crash"

Crash ==
    /\ job = "live" /\ Room
    /\ count' = [count EXCEPT !.crashes = @ + 1]
    /\ blame' = blame \cup {"crash", Window}
    /\ job' = "failed"
    /\ w' = Off
    /\ UNCHANGED <<j, Disk, sent, api, changed>>

\* The driver is run again on the same run directory.  The service offers no
\* call for it: a failed exploration job cannot be retried.
Rerun ==
    /\ job = "failed" /\ api = "idle" /\ j.status # "stopped"
    /\ job' = "queued"
    /\ UNCHANGED <<j, Disk, w, Hist, Env>>

\* fenced_side_effect keeps the journal locked between a receipt's two appends.
Unfenced == w.pc # "commit"

Pause ==
    /\ Unfenced /\ Room /\ j.status = "running"
    /\ j' = [j EXCEPT !.status = "pause_requested"]
    /\ count' = [count EXCEPT !.pauses = @ + 1]
    /\ UNCHANGED <<Disk, w, job, Hist, api, changed>>

Resume ==
    /\ j.status = "paused" /\ api = "idle"
    /\ IF changed
       THEN j' = Stopped("state_witness_changed", FALSE) /\ UNCHANGED api
       ELSE /\ job \notin {"queued", "live"}
            /\ j' = [j EXCEPT !.status = "running"]
            /\ api' = "launching"
    /\ UNCHANGED <<Disk, w, job, Hist, changed, count>>

Launch ==
    /\ api = "launching" /\ api' = "idle"
    /\ \/ job' = "queued" /\ UNCHANGED <<j, blame, count>>
       \/ /\ j' = IF j.status = "stopped" THEN j ELSE Stopped("failed", FALSE)
          /\ blame' = blame \cup {"launch"}
          /\ UNCHANGED <<job, count>>
       \/ /\ Room
          /\ count' = [count EXCEPT !.crashes = @ + 1]
          /\ blame' = blame \cup {"api"}
          /\ UNCHANGED <<j, job>>
    /\ UNCHANGED <<Disk, w, sent, changed>>

Cancel ==
    /\ Unfenced /\ j.status # "stopped"
    /\ j' = Stopped("cancelled", FALSE)
    /\ UNCHANGED <<Disk, w, job, Hist, Env>>

CancelJob ==
    /\ j.status = "stopped" /\ job \in {"queued", "live"}
    /\ job' = "done"
    /\ w' = Off
    /\ UNCHANGED <<j, Disk, Hist, Env>>

ExtendBudget ==
    /\ Unfenced /\ Room /\ j.status # "stopped"
    /\ j' = [j EXCEPT !.rounds = @ + 1, !.tools = @ + 1]
    /\ count' = [count EXCEPT !.amends = @ + 1]
    /\ UNCHANGED <<Disk, w, job, Hist, api, changed>>

\* Nobody compares the data of a stopped run any more.
ChangeData ==
    /\ Room /\ ~changed /\ j.status # "stopped"
    /\ changed' = TRUE
    /\ UNCHANGED <<j, Disk, w, job, api, Hist, count>>

Worker ==
    \/ Claim \/ Verify \/ RecoverCall \/ RecoverTool \/ Recovered \/ Enter
    \/ WriteCheckpoint \/ EndAttempt \/ Orient \/ OpenRound
    \/ Generate \/ StartCall \/ Send \/ Answered \/ SendRefused \/ AnswerUnknown
    \/ AnswerMalformed \/ AnswerUnavailable \/ KeepAnswer \/ CompleteCall
    \/ Schedule \/ PassNode \/ Execute \/ NextProbe \/ AskModel \/ UseTool
    \/ StartTool \/ RunTool \/ FailTool \/ KeepResult \/ PrepareReceipt \/ CommitReceipt
    \/ Reduce \/ GateVerdict \/ PersistReduction \/ KeepReduction \/ CommitReduction
    \/ Settle \/ AfterSettle \/ Synthesize \/ Stop
    \/ HandlePause \/ HandleCancel \/ HandleStop

Next ==
    \/ Worker \/ Crash \/ Rerun
    \/ Pause \/ Resume \/ Launch \/ Cancel \/ CancelJob \/ ExtendBudget \/ ChangeData

\* The pool dispatches a queued job and the operating system schedules a live
\* process; nothing else is assumed of anyone.
Spec == Init /\ [][Next]_vars /\ WF_vars(Worker)

-----------------------------------------------------------------------------
\* The state stays well formed: in particular a prepared receipt has its tool
\* slot, and a worker exists exactly while its job is live.
TypeOK ==
    /\ j.status \in {"running", "pause_requested", "paused", "stopped"}
    /\ j.term \in Natural \cup {None}
    /\ j.calls \subseteq Calls /\ j.unsure \subseteq Calls
    /\ j.slots \subseteq Tools /\ j.prep \subseteq j.slots
    /\ DOMAIN j.dig \subseteq Calls \cup Tools
    /\ job \in {"queued", "live", "failed", "done"}
    /\ api \in {"idle", "launching"}
    /\ (w.pc = "off") = (job # "live")

\* No logical model call is sent again once the provider may have accepted it:
\* claim_recovery latches a call whose answer was lost, and both the candidate
\* generator and a probe refuse to resend it, through crashes and resumes.
PaidOnce == \A c \in Calls : sent[c] <= 1

\* Every digest the journal holds is the digest of the durable body it names, so
\* a replay adopts what was accepted: completed answers, committed receipts, the
\* prepared ones and the reduction of the current or the last settled round.
\* The exception is the candidate batch of a worker that died between writing it
\* and completing its call, which claim_recovery records under another digest.
BodiesStand ==
    /\ \A s \in DOMAIN j.dig :
          /\ s \in DOMAIN body
          /\ j.dig[s] = body[s] \/ (s[1] = "gen" /\ "batch" \in blame)
    /\ j.prep \subseteq DOMAIN body
    /\ j.committed => j.redn = body[Red(j.settled)]
    /\ j.settled > 0 /\ ~j.committed => j.redn = body[Red(j.settled - 1)]

\* Tool calls are never over-admitted: the journal charges every committed
\* receipt exactly once, recovery included, and the ledger a worker restored at
\* its start never believes in more calls than the journal has left.
NoOverAdmission ==
    /\ j.tools >= 0 /\ j.llm >= 0
    /\ j.tools = ToolCap + count.amends - Cardinality({s \in DOMAIN j.dig : s[1] = "tool"})
    /\ job = "live" => w.led <= j.tools

\* A run that ends by its own decision or by its budget after a settled round
\* keeps its report (_budget_exhausted_terminal), whatever crashed, paused or
\* was refused on the way.
ReportKept == j.reason \in Natural /\ j.settled > 0 => j.report

\* A run is stopped as failed only for a cause: the provider or the launch
\* failed, a reservation was refused after its preflight passed, or a worker died
\* with a call in flight, between a batch and its completion, or between the
\* schedule's commit and its checkpoint.  Every other crash and every pause is
\* absorbed by the replay of the interrupted node.  And a run that is neither
\* stopped nor paused has a job to move it, unless a process died, the data
\* changed under it, or a pause or cancel landed between the last control check
\* and the terminal append.
EndsHaveCause ==
    /\ j.reason = "failed" =>
          blame \cap {"provider", "launch", "refused", "inflight", "batch", "schedule"} # {}
    /\ j.status \in {"running", "pause_requested"} /\ job \in {"failed", "done"} /\ api = "idle"
          => blame \cap {"crash", "api", "race", "witness"} # {}

\* The terminal decision of a settled round is the one the run ends with, across
\* pauses, crashes and budget extensions; only a cancel, changed data or a failed
\* launch overrides it.
DecisionStands ==
    [][j.term # None /\ j'.status = "stopped" =>
          \/ j'.reason \in {j.term, "cancelled", "state_witness_changed"}
          \/ api = "launching"]_vars

\* Every attempt ends: a queued or live worker runs until its job is done or
\* failed, no matter when pauses and cancels reach it.
AttemptEnds == job \in {"queued", "live"} ~> job \in {"failed", "done"}

=============================================================================
