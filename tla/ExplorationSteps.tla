-------------------------- MODULE ExplorationSteps --------------------------
(***************************************************************************)
(* What the steps of Exploration do, for the proofs in ExplorationProofs.  *)
(*                                                                         *)
(* First, field by field, what each event of the reducer makes of the      *)
(* journal and what each move makes of the worker.  Then every action in   *)
(* one normal form, <Action>Flat: its guard, a disjunction of its          *)
(* outcomes, each an event and a move, and what it leaves alone; the       *)
(* action implies it (NextIsFlat).  Then the inductive invariant, in       *)
(* parts, and the proof that every step keeps the parts which say where a  *)
(* run is: the journal and its counters, the checkpoint, the place of the  *)
(* worker and what is pending at it.                                       *)
(***************************************************************************)
EXTENDS Exploration, FiniteSetTheorems, TLAPS

(* The fields of the records *)

JFields == {"status", "reason", "report", "term", "open", "settled", "gated", "committed",
            "redn", "calls", "unsure", "slots", "prep", "dig", "llm", "tools", "rounds", "dry"}
WFields == {"pc", "p", "try", "val", "led", "exc", "reason", "report", "bare", "out", "todo"}
CFields == {"node", "round", "n", "red", "before", "spent", "reason"}

\* The tool of the probe at work.
Mine == Tool(cp.round, w.p)

\* How a step moves the worker.
ToFresh(x) == w' = [Off EXCEPT !.pc = x]
ToRecover(x) == w' = [w EXCEPT !.pc = "recover", !.todo = x]
ToSettleRest(x) == w' = [w EXCEPT !.todo = x]
ToEnter(x) == w' = [w EXCEPT !.pc = "enter", !.led = x]
ToNode == w' = [w EXCEPT !.pc = "node", !.p = 0, !.try = 0, !.val = None, !.out = None]
ToStart(x) == w' = [w EXCEPT !.pc = "start", !.try = x]
ToKeep(x) == w' = [w EXCEPT !.pc = "keep", !.val = x]
ToProbes == w' = [w EXCEPT !.pc = "probes", !.p = 1]
ToProbe(x) == w' = [w EXCEPT !.p = x]
ToResult(x) == w' = [w EXCEPT !.pc = "tkeep", !.val = x]
ToPrepare(x) == w' = [w EXCEPT !.pc = "prepare", !.led = x]
ToOutcome(x) == w' = [w EXCEPT !.pc = "rkeep", !.val = x]
ToStop(x, y) == w' = [w EXCEPT !.pc = "stop", !.reason = x, !.report = y]
ToBare == w' = [w EXCEPT !.pc = "raised", !.bare = TRUE]

\* What RoundStarted makes of each field of the journal.
LEMMA RoundStartedFields ==
    ASSUME DOMAIN j = JFields, j' = RoundStarted
    PROVE  /\ DOMAIN j' = JFields /\ j'.status = j.status /\ j'.reason = j.reason
           /\ j'.report = j.report /\ j'.term = j.term /\ j'.open /\ j'.settled = j.settled
           /\ j'.gated = j.gated /\ ~j'.committed /\ j'.redn = j.redn /\ j'.calls = j.calls
           /\ j'.unsure = j.unsure /\ j'.slots = j.slots /\ j'.prep = j.prep /\ j'.dig = j.dig
           /\ j'.llm = j.llm /\ j'.tools = j.tools /\ j'.rounds = j.rounds - 1
           /\ j'.dry = j.dry
  BY DEF RoundStarted, JFields

\* What CallStarted makes of each field of the journal.
LEMMA CallStartedFields ==
    ASSUME DOMAIN j = JFields, NEW c, j' = CallStarted(c)
    PROVE  /\ DOMAIN j' = JFields /\ j'.status = j.status /\ j'.reason = j.reason
           /\ j'.report = j.report /\ j'.term = j.term /\ j'.open = j.open
           /\ j'.settled = j.settled /\ j'.gated = j.gated /\ j'.committed = j.committed
           /\ j'.redn = j.redn /\ j'.calls = j.calls \cup {c} /\ j'.unsure = j.unsure
           /\ j'.slots = j.slots /\ j'.prep = j.prep /\ j'.dig = j.dig /\ j'.llm = j.llm
           /\ j'.tools = j.tools /\ j'.rounds = j.rounds /\ j'.dry = j.dry
  BY DEF CallStarted, JFields

\* What CallCompleted makes of each field of the journal.
LEMMA CallCompletedFields ==
    ASSUME DOMAIN j = JFields, NEW c, NEW d, j' = CallCompleted(c, d)
    PROVE  /\ DOMAIN j' = JFields /\ j'.status = j.status /\ j'.reason = j.reason
           /\ j'.report = j.report /\ j'.term = j.term /\ j'.open = j.open
           /\ j'.settled = j.settled /\ j'.gated = j.gated /\ j'.committed = j.committed
           /\ j'.redn = j.redn /\ j'.calls = j.calls \ {c} /\ j'.unsure = j.unsure
           /\ j'.slots = j.slots /\ j'.prep = j.prep /\ j'.dig = Put(j.dig, c, d)
           /\ j'.llm = j.llm - 1 /\ j'.tools = j.tools /\ j'.rounds = j.rounds
           /\ j'.dry = j.dry
  BY DEF CallCompleted, JFields

\* What CallRejected makes of each field of the journal.
LEMMA CallRejectedFields ==
    ASSUME DOMAIN j = JFields, NEW c, j' = CallRejected(c)
    PROVE  /\ DOMAIN j' = JFields /\ j'.status = j.status /\ j'.reason = j.reason
           /\ j'.report = j.report /\ j'.term = j.term /\ j'.open = j.open
           /\ j'.settled = j.settled /\ j'.gated = j.gated /\ j'.committed = j.committed
           /\ j'.redn = j.redn /\ j'.calls = j.calls \ {c} /\ j'.unsure = j.unsure
           /\ j'.slots = j.slots /\ j'.prep = j.prep /\ j'.dig = j.dig /\ j'.llm = j.llm - 1
           /\ j'.tools = j.tools /\ j'.rounds = j.rounds /\ j'.dry = j.dry
  BY DEF CallRejected, JFields

\* What CallUncertain makes of each field of the journal.
LEMMA CallUncertainFields ==
    ASSUME DOMAIN j = JFields, NEW c, j' = CallUncertain(c)
    PROVE  /\ DOMAIN j' = JFields /\ j'.status = j.status /\ j'.reason = j.reason
           /\ j'.report = j.report /\ j'.term = j.term /\ j'.open = j.open
           /\ j'.settled = j.settled /\ j'.gated = j.gated /\ j'.committed = j.committed
           /\ j'.redn = j.redn /\ j'.calls = j.calls \ {c} /\ j'.unsure = j.unsure \cup {c}
           /\ j'.slots = j.slots /\ j'.prep = j.prep /\ j'.dig = j.dig /\ j'.llm = j.llm - 1
           /\ j'.tools = j.tools /\ j'.rounds = j.rounds /\ j'.dry = j.dry
  BY DEF CallUncertain, JFields

\* What ToolStarted makes of each field of the journal.
LEMMA ToolStartedFields ==
    ASSUME DOMAIN j = JFields, NEW t, j' = ToolStarted(t)
    PROVE  /\ DOMAIN j' = JFields /\ j'.status = j.status /\ j'.reason = j.reason
           /\ j'.report = j.report /\ j'.term = j.term /\ j'.open = j.open
           /\ j'.settled = j.settled /\ j'.gated = j.gated /\ j'.committed = j.committed
           /\ j'.redn = j.redn /\ j'.calls = j.calls /\ j'.unsure = j.unsure
           /\ j'.slots = j.slots \cup {t} /\ j'.prep = j.prep /\ j'.dig = j.dig
           /\ j'.llm = j.llm /\ j'.tools = j.tools /\ j'.rounds = j.rounds /\ j'.dry = j.dry
  BY DEF ToolStarted, JFields

\* What ReceiptPrepared makes of each field of the journal.
LEMMA ReceiptPreparedFields ==
    ASSUME DOMAIN j = JFields, NEW t, j' = ReceiptPrepared(t)
    PROVE  /\ DOMAIN j' = JFields /\ j'.status = j.status /\ j'.reason = j.reason
           /\ j'.report = j.report /\ j'.term = j.term /\ j'.open = j.open
           /\ j'.settled = j.settled /\ j'.gated = j.gated /\ j'.committed = j.committed
           /\ j'.redn = j.redn /\ j'.calls = j.calls /\ j'.unsure = j.unsure
           /\ j'.slots = j.slots /\ j'.prep = j.prep \cup {t} /\ j'.dig = j.dig
           /\ j'.llm = j.llm /\ j'.tools = j.tools /\ j'.rounds = j.rounds /\ j'.dry = j.dry
  BY DEF ReceiptPrepared, JFields

\* What ReceiptCommitted makes of each field of the journal.
LEMMA ReceiptCommittedFields ==
    ASSUME DOMAIN j = JFields, NEW t, NEW d, j' = ReceiptCommitted(t, d)
    PROVE  /\ DOMAIN j' = JFields /\ j'.status = j.status /\ j'.reason = j.reason
           /\ j'.report = j.report /\ j'.term = j.term /\ j'.open = j.open
           /\ j'.settled = j.settled /\ j'.gated = j.gated /\ j'.committed = j.committed
           /\ j'.redn = j.redn /\ j'.calls = j.calls /\ j'.unsure = j.unsure
           /\ j'.slots = j.slots \ {t} /\ j'.prep = j.prep \ {t} /\ j'.dig = Put(j.dig, t, d)
           /\ j'.llm = j.llm /\ j'.tools = j.tools - 1 /\ j'.rounds = j.rounds
           /\ j'.dry = j.dry
  BY DEF ReceiptCommitted, JFields

\* What ToolFailed makes of each field of the journal.
LEMMA ToolFailedFields ==
    ASSUME DOMAIN j = JFields, NEW t, j' = ToolFailed(t)
    PROVE  /\ DOMAIN j' = JFields /\ j'.status = j.status /\ j'.reason = j.reason
           /\ j'.report = j.report /\ j'.term = j.term /\ j'.open = j.open
           /\ j'.settled = j.settled /\ j'.gated = j.gated /\ j'.committed = j.committed
           /\ j'.redn = j.redn /\ j'.calls = j.calls /\ j'.unsure = j.unsure
           /\ j'.slots = j.slots \ {t} /\ j'.prep = j.prep \ {t} /\ j'.dig = j.dig
           /\ j'.llm = j.llm /\ j'.tools = j.tools /\ j'.rounds = j.rounds /\ j'.dry = j.dry
  BY DEF ToolFailed, JFields

\* What ReductionCommitted makes of each field of the journal.
LEMMA ReductionCommittedFields ==
    ASSUME DOMAIN j = JFields, NEW o, j' = ReductionCommitted(o)
    PROVE  /\ DOMAIN j' = JFields /\ j'.status = j.status /\ j'.reason = j.reason
           /\ j'.report = j.report /\ j'.term = j.term /\ j'.open = j.open
           /\ j'.settled = j.settled /\ j'.gated = j.gated /\ j'.committed /\ j'.redn = o
           /\ j'.calls = j.calls /\ j'.unsure = j.unsure /\ j'.slots = j.slots
           /\ j'.prep = j.prep /\ j'.dig = j.dig /\ j'.llm = j.llm /\ j'.tools = j.tools
           /\ j'.rounds = j.rounds /\ j'.dry = j.dry
  BY DEF ReductionCommitted, JFields

\* What RoundSettled makes of each field of the journal.
LEMMA RoundSettledFields ==
    ASSUME DOMAIN j = JFields, NEW o, NEW why, j' = RoundSettled(o, why)
    PROVE  /\ DOMAIN j' = JFields /\ j'.status = j.status /\ j'.reason = j.reason
           /\ j'.report = j.report /\ j'.term = why /\ ~j'.open /\ j'.settled = j.settled + 1
           /\ j'.gated = j.gated /\ ~j'.committed /\ j'.redn = j.redn /\ j'.calls = j.calls
           /\ j'.unsure = j.unsure /\ j'.slots = j.slots /\ j'.prep = j.prep /\ j'.dig = j.dig
           /\ j'.llm = j.llm /\ j'.tools = j.tools /\ j'.rounds = j.rounds
           /\ j'.dry = (IF o.v = "dry" THEN j.dry + 1 ELSE 0)
  BY DEF RoundSettled, JFields

\* What Stopped makes of each field of the journal.
LEMMA StoppedFields ==
    ASSUME DOMAIN j = JFields, NEW why, NEW r, j' = Stopped(why, r)
    PROVE  /\ DOMAIN j' = JFields /\ j'.status = "stopped" /\ j'.reason = why /\ j'.report = r
           /\ j'.term = None /\ j'.open = j.open /\ j'.settled = j.settled
           /\ j'.gated = j.gated /\ j'.committed = j.committed /\ j'.redn = j.redn
           /\ j'.calls = {} /\ j'.unsure = j.unsure \cup j.calls /\ j'.slots = {}
           /\ j'.prep = {} /\ j'.dig = j.dig /\ j'.llm = j.llm - Cardinality(j.calls)
           /\ j'.tools = j.tools /\ j'.rounds = j.rounds /\ j'.dry = j.dry
  BY DEF Stopped, JFields

\* What the event makes of each field of the journal.
LEMMA StatusFields ==
    ASSUME DOMAIN j = JFields, NEW s, j' = [j EXCEPT !.status = s]
    PROVE  /\ DOMAIN j' = JFields /\ j'.status = s /\ j'.reason = j.reason
           /\ j'.report = j.report /\ j'.term = j.term /\ j'.open = j.open
           /\ j'.settled = j.settled /\ j'.gated = j.gated /\ j'.committed = j.committed
           /\ j'.redn = j.redn /\ j'.calls = j.calls /\ j'.unsure = j.unsure
           /\ j'.slots = j.slots /\ j'.prep = j.prep /\ j'.dig = j.dig /\ j'.llm = j.llm
           /\ j'.tools = j.tools /\ j'.rounds = j.rounds /\ j'.dry = j.dry
  BY DEF JFields

\* What the event makes of each field of the journal.
LEMMA GatedFields ==
    ASSUME DOMAIN j = JFields, NEW g, j' = [j EXCEPT !.gated = g]
    PROVE  /\ DOMAIN j' = JFields /\ j'.status = j.status /\ j'.reason = j.reason
           /\ j'.report = j.report /\ j'.term = j.term /\ j'.open = j.open
           /\ j'.settled = j.settled /\ j'.gated = g /\ j'.committed = j.committed
           /\ j'.redn = j.redn /\ j'.calls = j.calls /\ j'.unsure = j.unsure
           /\ j'.slots = j.slots /\ j'.prep = j.prep /\ j'.dig = j.dig /\ j'.llm = j.llm
           /\ j'.tools = j.tools /\ j'.rounds = j.rounds /\ j'.dry = j.dry
  BY DEF JFields

\* What the event makes of each field of the journal.
LEMMA BudgetFields ==
    ASSUME DOMAIN j = JFields, j' = [j EXCEPT !.rounds = @ + 1, !.tools = @ + 1]
    PROVE  /\ DOMAIN j' = JFields /\ j'.status = j.status /\ j'.reason = j.reason
           /\ j'.report = j.report /\ j'.term = j.term /\ j'.open = j.open
           /\ j'.settled = j.settled /\ j'.gated = j.gated /\ j'.committed = j.committed
           /\ j'.redn = j.redn /\ j'.calls = j.calls /\ j'.unsure = j.unsure
           /\ j'.slots = j.slots /\ j'.prep = j.prep /\ j'.dig = j.dig /\ j'.llm = j.llm
           /\ j'.tools = j.tools + 1 /\ j'.rounds = j.rounds + 1 /\ j'.dry = j.dry
  BY DEF JFields

\* What the step makes of each field of the worker.
LEMMA GotoWorker ==
    ASSUME DOMAIN w = WFields, NEW x, Goto(x)
    PROVE  /\ DOMAIN w' = WFields /\ w'.pc = x /\ w'.p = w.p /\ w'.try = w.try
           /\ w'.val = w.val /\ w'.led = w.led /\ w'.exc = w.exc /\ w'.reason = w.reason
           /\ w'.report = w.report /\ w'.bare = w.bare /\ w'.out = w.out /\ w'.todo = w.todo
  BY DEF Goto, WFields

\* What the step makes of each field of the worker.
LEMMA CheckpointWorker ==
    ASSUME DOMAIN w = WFields, NEW c, Checkpoint(c)
    PROVE  /\ DOMAIN w' = WFields /\ w'.pc = "ckpt" /\ w'.p = w.p /\ w'.try = w.try
           /\ w'.val = w.val /\ w'.led = w.led /\ w'.exc = w.exc /\ w'.reason = w.reason
           /\ w'.report = w.report /\ w'.bare = w.bare /\ w'.out = c /\ w'.todo = w.todo
  BY DEF Checkpoint, WFields

\* What the step makes of each field of the worker.
LEMMA ProbeLoopWorker ==
    ASSUME DOMAIN w = WFields, ProbeLoop
    PROVE  /\ DOMAIN w' = WFields /\ w'.pc = "probes" /\ w'.p = w.p /\ w'.try = w.try
           /\ w'.val = None /\ w'.led = w.led /\ w'.exc = w.exc /\ w'.reason = w.reason
           /\ w'.report = w.report /\ w'.bare = w.bare /\ w'.out = w.out /\ w'.todo = w.todo
  BY DEF ProbeLoop, WFields

\* What the step makes of each field of the worker.
LEMMA RaiseWorker ==
    ASSUME NEW e, Raise(e)
    PROVE  /\ DOMAIN w' = WFields /\ w'.pc = "raised" /\ w'.p = 0 /\ w'.try = 0
           /\ w'.val = None /\ w'.led = 0 /\ w'.exc = e /\ w'.reason = None /\ ~w'.report
           /\ ~w'.bare /\ w'.out = None /\ w'.todo = {}
  BY DEF Raise, Off, WFields

\* What the step makes of each field of the worker.
LEMMA FreshWorker ==
    ASSUME NEW x, ToFresh(x)
    PROVE  /\ DOMAIN w' = WFields /\ w'.pc = x /\ w'.p = 0 /\ w'.try = 0 /\ w'.val = None
           /\ w'.led = 0 /\ w'.exc = None /\ w'.reason = None /\ ~w'.report /\ ~w'.bare
           /\ w'.out = None /\ w'.todo = {}
  BY DEF ToFresh, Off, WFields

\* What the step makes of each field of the worker.
LEMMA OffWorker ==
    ASSUME w' = Off
    PROVE  /\ DOMAIN w' = WFields /\ w'.pc = "off" /\ w'.p = 0 /\ w'.try = 0 /\ w'.val = None
           /\ w'.led = 0 /\ w'.exc = None /\ w'.reason = None /\ ~w'.report /\ ~w'.bare
           /\ w'.out = None /\ w'.todo = {}
  BY DEF Off, WFields

\* What the step makes of each field of the worker.
LEMMA RecoverWorker ==
    ASSUME DOMAIN w = WFields, NEW x, ToRecover(x)
    PROVE  /\ DOMAIN w' = WFields /\ w'.pc = "recover" /\ w'.p = w.p /\ w'.try = w.try
           /\ w'.val = w.val /\ w'.led = w.led /\ w'.exc = w.exc /\ w'.reason = w.reason
           /\ w'.report = w.report /\ w'.bare = w.bare /\ w'.out = w.out /\ w'.todo = x
  BY DEF ToRecover, WFields

\* What the step makes of each field of the worker.
LEMMA SettleRestWorker ==
    ASSUME DOMAIN w = WFields, NEW x, ToSettleRest(x)
    PROVE  /\ DOMAIN w' = WFields /\ w'.pc = w.pc /\ w'.p = w.p /\ w'.try = w.try
           /\ w'.val = w.val /\ w'.led = w.led /\ w'.exc = w.exc /\ w'.reason = w.reason
           /\ w'.report = w.report /\ w'.bare = w.bare /\ w'.out = w.out /\ w'.todo = x
  BY DEF ToSettleRest, WFields

\* What the step makes of each field of the worker.
LEMMA EnterWorker ==
    ASSUME DOMAIN w = WFields, NEW x, ToEnter(x)
    PROVE  /\ DOMAIN w' = WFields /\ w'.pc = "enter" /\ w'.p = w.p /\ w'.try = w.try
           /\ w'.val = w.val /\ w'.led = x /\ w'.exc = w.exc /\ w'.reason = w.reason
           /\ w'.report = w.report /\ w'.bare = w.bare /\ w'.out = w.out /\ w'.todo = w.todo
  BY DEF ToEnter, WFields

\* What the step makes of each field of the worker.
LEMMA NodeWorker ==
    ASSUME DOMAIN w = WFields, ToNode
    PROVE  /\ DOMAIN w' = WFields /\ w'.pc = "node" /\ w'.p = 0 /\ w'.try = 0 /\ w'.val = None
           /\ w'.led = w.led /\ w'.exc = w.exc /\ w'.reason = w.reason /\ w'.report = w.report
           /\ w'.bare = w.bare /\ w'.out = None /\ w'.todo = w.todo
  BY DEF ToNode, WFields

\* What the step makes of each field of the worker.
LEMMA StartWorker ==
    ASSUME DOMAIN w = WFields, NEW x, ToStart(x)
    PROVE  /\ DOMAIN w' = WFields /\ w'.pc = "start" /\ w'.p = w.p /\ w'.try = x
           /\ w'.val = w.val /\ w'.led = w.led /\ w'.exc = w.exc /\ w'.reason = w.reason
           /\ w'.report = w.report /\ w'.bare = w.bare /\ w'.out = w.out /\ w'.todo = w.todo
  BY DEF ToStart, WFields

\* What the step makes of each field of the worker.
LEMMA KeepWorker ==
    ASSUME DOMAIN w = WFields, NEW x, ToKeep(x)
    PROVE  /\ DOMAIN w' = WFields /\ w'.pc = "keep" /\ w'.p = w.p /\ w'.try = w.try
           /\ w'.val = x /\ w'.led = w.led /\ w'.exc = w.exc /\ w'.reason = w.reason
           /\ w'.report = w.report /\ w'.bare = w.bare /\ w'.out = w.out /\ w'.todo = w.todo
  BY DEF ToKeep, WFields

\* What the step makes of each field of the worker.
LEMMA ProbesWorker ==
    ASSUME DOMAIN w = WFields, ToProbes
    PROVE  /\ DOMAIN w' = WFields /\ w'.pc = "probes" /\ w'.p = 1 /\ w'.try = w.try
           /\ w'.val = w.val /\ w'.led = w.led /\ w'.exc = w.exc /\ w'.reason = w.reason
           /\ w'.report = w.report /\ w'.bare = w.bare /\ w'.out = w.out /\ w'.todo = w.todo
  BY DEF ToProbes, WFields

\* What the step makes of each field of the worker.
LEMMA ProbeWorker ==
    ASSUME DOMAIN w = WFields, NEW x, ToProbe(x)
    PROVE  /\ DOMAIN w' = WFields /\ w'.pc = w.pc /\ w'.p = x /\ w'.try = w.try
           /\ w'.val = w.val /\ w'.led = w.led /\ w'.exc = w.exc /\ w'.reason = w.reason
           /\ w'.report = w.report /\ w'.bare = w.bare /\ w'.out = w.out /\ w'.todo = w.todo
  BY DEF ToProbe, WFields

\* What the step makes of each field of the worker.
LEMMA ResultWorker ==
    ASSUME DOMAIN w = WFields, NEW x, ToResult(x)
    PROVE  /\ DOMAIN w' = WFields /\ w'.pc = "tkeep" /\ w'.p = w.p /\ w'.try = w.try
           /\ w'.val = x /\ w'.led = w.led /\ w'.exc = w.exc /\ w'.reason = w.reason
           /\ w'.report = w.report /\ w'.bare = w.bare /\ w'.out = w.out /\ w'.todo = w.todo
  BY DEF ToResult, WFields

\* What the step makes of each field of the worker.
LEMMA PrepareWorker ==
    ASSUME DOMAIN w = WFields, NEW x, ToPrepare(x)
    PROVE  /\ DOMAIN w' = WFields /\ w'.pc = "prepare" /\ w'.p = w.p /\ w'.try = w.try
           /\ w'.val = w.val /\ w'.led = x /\ w'.exc = w.exc /\ w'.reason = w.reason
           /\ w'.report = w.report /\ w'.bare = w.bare /\ w'.out = w.out /\ w'.todo = w.todo
  BY DEF ToPrepare, WFields

\* What the step makes of each field of the worker.
LEMMA OutcomeWorker ==
    ASSUME DOMAIN w = WFields, NEW x, ToOutcome(x)
    PROVE  /\ DOMAIN w' = WFields /\ w'.pc = "rkeep" /\ w'.p = w.p /\ w'.try = w.try
           /\ w'.val = x /\ w'.led = w.led /\ w'.exc = w.exc /\ w'.reason = w.reason
           /\ w'.report = w.report /\ w'.bare = w.bare /\ w'.out = w.out /\ w'.todo = w.todo
  BY DEF ToOutcome, WFields

\* What the step makes of each field of the worker.
LEMMA StopWorker ==
    ASSUME DOMAIN w = WFields, NEW x, NEW y, ToStop(x, y)
    PROVE  /\ DOMAIN w' = WFields /\ w'.pc = "stop" /\ w'.p = w.p /\ w'.try = w.try
           /\ w'.val = w.val /\ w'.led = w.led /\ w'.exc = w.exc /\ w'.reason = x
           /\ w'.report = y /\ w'.bare = w.bare /\ w'.out = w.out /\ w'.todo = w.todo
  BY DEF ToStop, WFields

\* What the step makes of each field of the worker.
LEMMA BareWorker ==
    ASSUME DOMAIN w = WFields, ToBare
    PROVE  /\ DOMAIN w' = WFields /\ w'.pc = "raised" /\ w'.p = w.p /\ w'.try = w.try
           /\ w'.val = w.val /\ w'.led = w.led /\ w'.exc = w.exc /\ w'.reason = w.reason
           /\ w'.report = w.report /\ w'.bare /\ w'.out = w.out /\ w'.todo = w.todo
  BY DEF ToBare, WFields

ClaimFlat ==
    /\ job = "queued"
    /\ job' = "live" /\ ToFresh("verify")
    /\ UNCHANGED <<j, body, wf, cp, probe, api, changed, sent, blame, count>>

VerifyFlat ==
    /\ job = "live" /\ w.pc = "verify"
    /\ \/ changed /\ w' = Off /\ job' = "failed" /\ blame' = blame \cup {"witness"}
       \/ j.status = "stopped" /\ Goto("enter") /\ UNCHANGED <<job, blame>>
       \/ /\ j.status # "stopped" /\ UNCHANGED <<job, blame>>
          /\ ToRecover(j.calls \cup j.slots)
    /\ UNCHANGED <<j, body, wf, cp, probe, api, changed, sent, count>>

RecoverCallFlat ==
    /\ job = "live" /\ w.pc = "recover"
    /\ \E c \in w.todo \cap Calls :
          \/ /\ j.status = "stopped" /\ j' = j
             /\ w' = Off /\ job' = "failed" /\ blame' = blame \cup {"race"}
          \/ /\ j.status # "stopped" /\ UNCHANGED <<job, blame>>
             /\ ToSettleRest(w.todo \ {c})
             /\ \/ c \notin DOMAIN body /\ j' = CallUncertain(c)
                \/ /\ c \in DOMAIN body
                   /\ j' = CallCompleted(c, IF c[1] = "gen" THEN Foreign ELSE body[c])
    /\ UNCHANGED <<body, wf, cp, probe, api, changed, sent, count>>

RecoverToolFlat ==
    /\ job = "live" /\ w.pc = "recover" /\ w.todo \cap Calls = {}
    /\ \E t \in w.todo :
          \/ /\ j.status = "stopped" /\ j' = j
             /\ w' = Off /\ job' = "failed" /\ blame' = blame \cup {"race"}
          \/ /\ j.status # "stopped" /\ UNCHANGED <<job, blame>>
             /\ \/ j' = ToolFailed(t) /\ ToSettleRest(w.todo \ {t})
                \/ /\ t \in DOMAIN body /\ t \notin j.prep /\ j' = ReceiptPrepared(t)
                   /\ ToSettleRest(w.todo)
                \/ /\ t \in DOMAIN body /\ t \in j.prep /\ j' = ReceiptCommitted(t, body[t])
                   /\ ToSettleRest(w.todo \ {t})
    /\ UNCHANGED <<body, wf, cp, probe, api, changed, sent, count>>

RecoveredFlat ==
    /\ job = "live" /\ w.pc = "recover" /\ w.todo = {}
    /\ ToEnter(j.tools)
    /\ UNCHANGED <<j, body, wf, cp, probe, job, api, changed, sent, blame, count>>

EnterFlat ==
    /\ job = "live" /\ w.pc = "enter"
    /\ \/ /\ j.status = "pause_requested" /\ j' = [j EXCEPT !.status = "paused"]
          /\ ToFresh("ending")
       \/ j.status \in {"stopped", "paused"} /\ j' = j /\ ToFresh("ending")
       \/ /\ j.status = "running" /\ j' = Stopped("state_witness_changed", FALSE)
          /\ ToFresh("ending")
       \/ j.status \notin {"pause_requested", "stopped", "paused"} /\ j' = j /\ Goto("node")
    /\ UNCHANGED <<body, wf, cp, probe, job, api, changed, sent, blame, count>>

WriteCheckpointFlat ==
    /\ job = "live" /\ w.pc = "ckpt"
    /\ cp' = w.out
    /\ ToNode
    /\ UNCHANGED <<j, body, wf, probe, job, api, changed, sent, blame, count>>

EndAttemptFlat ==
    /\ job = "live" /\ w.pc = "ending"
    /\ w' = Off /\ job' = "done"
    /\ UNCHANGED <<j, body, wf, cp, probe, api, changed, sent, blame, count>>

OrientFlat ==
    /\ job = "live" /\ w.pc = "node" /\ cp.node = "orient"
    /\ \/ j.status # "running" /\ Raise(IF j.status = "stopped" THEN "cancel" ELSE "pause")
       \/ j.status = "running" /\ Raise("budget")
       \/ j.status = "running" /\ changed /\ Raise("witness")
       \/ /\ j.status = "running" /\ j.open
          /\ Checkpoint([cp EXCEPT !.node = "generate", !.round = j.settled])
       \/ j.status = "running" /\ ~j.open /\ ~(j.rounds <= 0) /\ Goto("open")
    /\ UNCHANGED <<j, body, wf, cp, probe, job, api, changed, sent, blame, count>>

OpenRoundFlat ==
    /\ job = "live" /\ w.pc = "open"
    /\ \/ /\ CanStartRound /\ j' = RoundStarted
          /\ Checkpoint([cp EXCEPT !.node = "generate", !.round = j.settled])
       \/ ~(j.status # "stopped" /\ CanStartRound) /\ j' = j /\ Raise("error")
    /\ UNCHANGED <<body, wf, cp, probe, job, api, changed, sent, blame, count>>

GenerateFlat ==
    /\ job = "live" /\ w.pc = "node" /\ cp.node = "generate"
    /\ \/ j.status # "running" /\ Raise(IF j.status = "stopped" THEN "cancel" ELSE "pause")
       \/ /\ j.status = "running" /\ Done(Call) /\ j.dig[Call] = body[Call]
          /\ Checkpoint([cp EXCEPT !.node = "schedule"])
       \/ j.status = "running" /\ Done(Call) /\ j.dig[Call] # body[Call] /\ Raise("error")
       \/ j.status = "running" /\ ~Done(Call) /\ Call \in j.unsure /\ Raise("error")
       \/ j.status = "running" /\ Raise("budget")
       \/ /\ j.status = "running" /\ ~Done(Call) /\ Call \notin j.unsure /\ CanSend
          /\ ToStart(1)
    /\ UNCHANGED <<j, body, wf, cp, probe, job, api, changed, sent, blame, count>>

StartCallFlat ==
    /\ job = "live" /\ w.pc = "start"
    /\ \/ CanStartCall(Call) /\ j' = CallStarted(Call) /\ Goto("send")
       \/ ~(j.status # "stopped" /\ CanStartCall(Call)) /\ j' = j /\ Raise("error")
    /\ UNCHANGED <<body, wf, cp, probe, job, api, changed, sent, blame, count>>

SendFlat ==
    /\ job = "live" /\ w.pc = "send" /\ CanSend
    /\ sent' = [sent EXCEPT ![Call] = @ + 1]
    /\ count' = [count EXCEPT !.reqs = @ + 1]
    /\ Goto("answer")
    /\ UNCHANGED <<j, body, wf, cp, probe, job, api, changed, blame>>

SendRefusedFlat ==
    /\ job = "live" /\ w.pc = "send"
    /\ blame' = blame \cup {"refused"}
    /\ \/ j.status = "stopped" /\ Raise("error") /\ UNCHANGED <<j, probe>>
       \/ /\ j.status # "stopped" /\ j' = CallRejected(Call) /\ cp.node = "generate"
          /\ Raise("budget") /\ probe' = probe
       \/ /\ j.status # "stopped" /\ j' = CallRejected(Call) /\ cp.node # "generate"
          /\ probe' = [probe EXCEPT ![Here] = "spent"] /\ ProbeLoop
    /\ UNCHANGED <<body, wf, cp, job, api, changed, sent, count>>

AnsweredFlat ==
    /\ job = "live" /\ w.pc = "answer"
    /\ \E v : /\ cp.node = "generate" => v \in 0 .. NProbes
              /\ ToKeep(v)
    /\ UNCHANGED <<j, body, wf, cp, probe, job, api, changed, sent, blame, count>>

AnswerUnknownFlat ==
    /\ job = "live" /\ w.pc = "answer"
    /\ blame' = blame \cup {"provider"}
    /\ \/ j.status = "stopped" /\ Raise("error") /\ UNCHANGED <<j, probe>>
       \/ /\ j.status # "stopped" /\ j' = CallUncertain(Call) /\ cp.node = "generate"
          /\ Raise("error") /\ probe' = probe
       \/ /\ j.status # "stopped" /\ j' = CallUncertain(Call) /\ cp.node # "generate"
          /\ probe' = [probe EXCEPT ![Here] = "bad"] /\ ProbeLoop
    /\ UNCHANGED <<body, wf, cp, job, api, changed, sent, count>>

AnswerMalformedFlat ==
    /\ job = "live" /\ w.pc = "answer"
    /\ sent' = [sent EXCEPT ![Call] = 0]
    /\ \/ j.status = "stopped" /\ Raise("error") /\ UNCHANGED <<j, probe>>
       \/ /\ j.status # "stopped" /\ j' = CallRejected(Call) /\ cp.node = "generate"
          /\ ToStart(2) /\ probe' = probe
       \/ /\ j.status # "stopped" /\ j' = CallRejected(Call) /\ cp.node # "generate"
          /\ probe' = [probe EXCEPT ![Here] = "end"] /\ ProbeLoop
    /\ UNCHANGED <<body, wf, cp, job, api, changed, blame, count>>

AnswerUnavailableFlat ==
    /\ job = "live" /\ w.pc = "answer"
    /\ sent' = [sent EXCEPT ![Call] = 0]
    /\ blame' = blame \cup {"provider"}
    /\ \/ j.status = "stopped" /\ Raise("error") /\ UNCHANGED <<j, probe>>
       \/ /\ j.status # "stopped" /\ j' = CallRejected(Call) /\ cp.node = "generate"
          /\ Raise("error") /\ probe' = probe
       \/ /\ j.status # "stopped" /\ j' = CallRejected(Call) /\ cp.node # "generate"
          /\ probe' = [probe EXCEPT ![Here] = "end"] /\ ProbeLoop
    /\ UNCHANGED <<body, wf, cp, job, api, changed, count>>

KeepAnswerFlat ==
    /\ job = "live" /\ w.pc = "keep"
    /\ body' = Put(body, Call, w.val) /\ Goto("complete")
    /\ UNCHANGED <<j, wf, cp, probe, job, api, changed, sent, blame, count>>

CompleteCallFlat ==
    /\ job = "live" /\ w.pc = "complete"
    /\ \/ /\ j.status # "stopped" /\ Call \in j.calls
          /\ j' = CallCompleted(Call, w.val) /\ cp.node = "generate"
          /\ Checkpoint([cp EXCEPT !.node = "schedule"])
       \/ /\ j.status # "stopped" /\ Call \in j.calls
          /\ j' = CallCompleted(Call, w.val) /\ cp.node # "generate" /\ ProbeLoop
       \/ ~(j.status # "stopped" /\ Call \in j.calls) /\ j' = j /\ Raise("error")
    /\ UNCHANGED <<body, wf, cp, probe, job, api, changed, sent, blame, count>>

ScheduleFlat ==
    /\ job = "live" /\ w.pc = "node" /\ cp.node = "schedule"
    /\ \/ /\ j.status # "running" /\ wf' = wf
          /\ Raise(IF j.status = "stopped" THEN "cancel" ELSE "pause")
       \/ j.status = "running" /\ cp.round \in wf.sched /\ wf' = wf /\ Raise("error")
       \/ /\ j.status = "running"
          /\ wf' = wf \/ wf' = [wf EXCEPT !.sched = @ \cup {cp.round}]
          /\ Checkpoint([cp EXCEPT !.node = IF body[Gen(cp.round)] > 0 THEN "select" ELSE "reduce",
                                   !.n = body[Gen(cp.round)]])
    /\ UNCHANGED <<j, body, cp, probe, job, api, changed, sent, blame, count>>

PassNodeFlat ==
    /\ job = "live" /\ w.pc = "node" /\ cp.node \in {"select", "validate"}
    /\ \/ j.status # "running" /\ Raise(IF j.status = "stopped" THEN "cancel" ELSE "pause")
       \/ /\ j.status = "running"
          /\ Checkpoint([cp EXCEPT !.node = IF cp.node = "select"
                                            THEN "execute_probes" ELSE "reduce"])
    /\ UNCHANGED <<j, body, wf, cp, probe, job, api, changed, sent, blame, count>>

ExecuteFlat ==
    /\ job = "live" /\ w.pc = "node" /\ cp.node = "execute_probes"
    /\ \/ j.status # "running" /\ Raise(IF j.status = "stopped" THEN "cancel" ELSE "pause")
       \/ j.status = "running" /\ ToProbes
    /\ UNCHANGED <<j, body, wf, cp, probe, job, api, changed, sent, blame, count>>

NextProbeFlat ==
    /\ job = "live" /\ w.pc = "probes"
    /\ \/ \E spent : Checkpoint([cp EXCEPT !.node = "validate", !.spent = spent])
       \/ ~(w.p > cp.n) /\ probe[Here] = "bad" /\ Raise("error")
       \/ ~(w.p > cp.n) /\ ToProbe(w.p + 1)
    /\ UNCHANGED <<j, body, wf, cp, probe, job, api, changed, sent, blame, count>>

AskModelFlat ==
    /\ job = "live" /\ w.pc = "probes" /\ w.p <= cp.n
    /\ \/ Call \in j.unsure /\ probe' = [probe EXCEPT ![Here] = "bad"] /\ ProbeLoop
       \/ /\ Done(Call) /\ j.dig[Call] # body[Call]
          /\ probe' = [probe EXCEPT ![Here] = "bad"] /\ ProbeLoop
       \/ /\ \E x \in {"tools", "end", "spent"} : probe' = [probe EXCEPT ![Here] = x]
          /\ ProbeLoop
       \/ /\ ~Done(Call) /\ Call \notin j.unsure /\ CanSend
          /\ Goto("start") /\ probe' = probe
    /\ UNCHANGED <<j, body, wf, cp, job, api, changed, sent, blame, count>>

UseToolFlat ==
    /\ job = "live" /\ w.pc = "probes" /\ w.p <= cp.n
    /\ \/ Done(Mine) /\ Mine \notin DOMAIN body /\ probe' = [probe EXCEPT ![Here] = "bad"] /\ ProbeLoop
       \/ /\ \E x \in {"end", "spent"} : probe' = [probe EXCEPT ![Here] = x]
          /\ ProbeLoop
       \/ ~Done(Mine) /\ ~(w.led <= 0) /\ Goto("tstart") /\ probe' = probe
    /\ UNCHANGED <<j, body, wf, cp, job, api, changed, sent, blame, count>>

StartToolFlat ==
    /\ job = "live" /\ w.pc = "tstart"
    /\ \/ CanStartTool(Mine) /\ j' = ToolStarted(Mine) /\ Goto("run")
       \/ ~(j.status # "stopped" /\ CanStartTool(Mine)) /\ j' = j /\ Raise("error")
    /\ UNCHANGED <<body, wf, cp, probe, job, api, changed, sent, blame, count>>

RunToolFlat ==
    /\ job = "live" /\ w.pc = "run"
    /\ ToResult(count.crashes)
    /\ UNCHANGED <<j, body, wf, cp, probe, job, api, changed, sent, blame, count>>

FailToolFlat ==
    /\ job = "live" /\ w.pc = "run"
    /\ \/ j.status = "stopped" /\ Raise("error") /\ UNCHANGED <<j, probe>>
       \/ /\ j.status # "stopped" /\ j' = ToolFailed(Mine)
          /\ probe' = [probe EXCEPT ![Here] = "end"] /\ ProbeLoop
    /\ UNCHANGED <<body, wf, cp, job, api, changed, sent, blame, count>>

KeepResultFlat ==
    /\ job = "live" /\ w.pc = "tkeep"
    /\ body' = Put(body, Mine, w.val)
    /\ ToPrepare(w.led - 1)
    /\ UNCHANGED <<j, wf, cp, probe, job, api, changed, sent, blame, count>>

PrepareReceiptFlat ==
    /\ job = "live" /\ w.pc = "prepare"
    /\ \/ /\ j.status # "stopped" /\ Mine \in j.slots
          /\ j' = ReceiptPrepared(Mine) /\ Goto("commit")
       \/ ~(j.status # "stopped" /\ Mine \in j.slots) /\ j' = j /\ Raise("error")
    /\ UNCHANGED <<body, wf, cp, probe, job, api, changed, sent, blame, count>>

CommitReceiptFlat ==
    /\ job = "live" /\ w.pc = "commit"
    /\ \/ /\ j.status # "stopped" /\ Mine \in j.prep
          /\ j' = ReceiptCommitted(Mine, w.val) /\ ProbeLoop
       \/ ~(j.status # "stopped" /\ Mine \in j.prep) /\ j' = j /\ Raise("error")
    /\ UNCHANGED <<body, wf, cp, probe, job, api, changed, sent, blame, count>>

ReduceFlat ==
    /\ job = "live" /\ w.pc = "node" /\ cp.node = "reduce"
    /\ \/ j.status # "running" /\ Raise(IF j.status = "stopped" THEN "cancel" ELSE "pause")
       \/ /\ j.status = "running" /\ j.committed /\ j.redn = body[Red(cp.round)]
          /\ Checkpoint([cp EXCEPT !.node = "settle", !.red = j.redn, !.before = Snapshot])
       \/ /\ j.status = "running" /\ j.committed /\ j.redn # body[Red(cp.round)]
          /\ Raise("error")
       \/ j.status = "running" /\ ~j.committed /\ Goto("gate")
       \/ /\ j.status = "running" /\ ~j.committed
          /\ ToOutcome([v |-> "dry", fresh |-> TRUE])
    /\ UNCHANGED <<j, body, wf, cp, probe, job, api, changed, sent, blame, count>>

GateVerdictFlat ==
    /\ job = "live" /\ w.pc = "gate"
    /\ \/ /\ j' = j \/ (j.status = "running" /\ j' = [j EXCEPT !.gated = @ \cup {cp.round}])
          /\ Goto("persist")
       \/ ~(j.status = "running" /\ NoPending /\ j.open) /\ j' = j /\ Raise("error")
    /\ UNCHANGED <<body, wf, cp, probe, job, api, changed, sent, blame, count>>

PersistReductionFlat ==
    /\ job = "live" /\ w.pc = "persist"
    /\ wf' = wf \/ \E v : wf' = [wf EXCEPT !.out = Put(@, cp.round, v)]
    /\ \E x : ToOutcome(x)
    /\ UNCHANGED <<j, body, cp, probe, job, api, changed, sent, blame, count>>

KeepReductionFlat ==
    /\ job = "live" /\ w.pc = "rkeep"
    /\ \/ j.committed /\ j.redn # w.val /\ body' = body /\ Raise("error")
       \/ body' = Put(body, Red(cp.round), w.val) /\ Goto("reduce")
    /\ UNCHANGED <<j, wf, cp, probe, job, api, changed, sent, blame, count>>

CommitReductionFlat ==
    /\ job = "live" /\ w.pc = "reduce"
    /\ \/ /\ j.status = "running" /\ NoPending /\ j.open /\ j' = ReductionCommitted(w.val)
          /\ Checkpoint([cp EXCEPT !.node = "settle", !.red = w.val, !.before = Snapshot])
       \/ ~(j.status = "running" /\ NoPending /\ j.open) /\ j' = j /\ Raise("error")
    /\ UNCHANGED <<body, wf, cp, probe, job, api, changed, sent, blame, count>>

SettleFlat ==
    /\ job = "live" /\ w.pc = "node" /\ cp.node = "settle"
    /\ \/ /\ j.settled <= cp.round /\ j.status # "stopped" /\ NoPending /\ j.open
          /\ j' = RoundSettled(cp.red, Decision) /\ Goto("after")
       \/ /\ j.settled <= cp.round /\ ~(j.status # "stopped" /\ NoPending /\ j.open)
          /\ j' = j /\ Raise("error")
       \/ ~(j.settled <= cp.round) /\ j' = j /\ Goto("after")
    /\ UNCHANGED <<body, wf, cp, probe, job, api, changed, sent, blame, count>>

AfterSettleFlat ==
    /\ job = "live" /\ w.pc = "after"
    /\ \/ /\ Decision # None
          /\ Checkpoint([cp EXCEPT !.node = "synthesize", !.reason = Decision])
       \/ /\ Decision = None /\ j.status # "running"
          /\ Raise(IF j.status = "stopped" THEN "cancel" ELSE "pause")
       \/ /\ Decision = None /\ j.status = "running"
          /\ Checkpoint([cp EXCEPT !.node = "orient", !.red = None,
                                   !.before = None, !.n = 0, !.spent = FALSE])
    /\ UNCHANGED <<j, body, wf, cp, probe, job, api, changed, sent, blame, count>>

SynthesizeFlat ==
    /\ job = "live" /\ w.pc = "node" /\ cp.node = "synthesize"
    /\ \/ j.status # "running" /\ Raise(IF j.status = "stopped" THEN "cancel" ELSE "pause")
       \/ j.status = "running" /\ ToStop(cp.reason, TRUE)
    /\ UNCHANGED <<j, body, wf, cp, probe, job, api, changed, sent, blame, count>>

StopFlat ==
    /\ job = "live" /\ w.pc = "stop"
    /\ \/ /\ CanStop(w.reason) /\ j' = Stopped(w.reason, w.report)
          /\ ToFresh("ending") /\ UNCHANGED <<job, blame>>
       \/ ~CanStop(w.reason) /\ w.exc = None /\ UNCHANGED <<j, job, blame>> /\ Raise("error")
       \/ /\ ~CanStop(w.reason) /\ w.exc = "budget" /\ UNCHANGED <<j, job, blame>>
          /\ ToBare
       \/ j' = j /\ w' = Off /\ job' = "failed" /\ blame' = blame \cup {"race"}
    /\ UNCHANGED <<body, wf, cp, probe, api, changed, sent, count>>

HandlePauseFlat ==
    /\ job = "live" /\ w.pc = "raised" /\ w.exc = "pause"
    /\ \/ /\ j.status = "pause_requested" /\ j' = [j EXCEPT !.status = "paused"]
          /\ ToFresh("ending") /\ UNCHANGED <<job, blame>>
       \/ /\ j.status = "paused" /\ j' = j
          /\ ToFresh("ending") /\ UNCHANGED <<job, blame>>
       \/ j' = j /\ w' = Off /\ job' = "failed" /\ blame' = blame \cup {"race"}
    /\ UNCHANGED <<body, wf, cp, probe, api, changed, sent, count>>

HandleCancelFlat ==
    /\ job = "live" /\ w.pc = "raised" /\ w.exc = "cancel"
    /\ ToFresh("ending")
    /\ UNCHANGED <<j, body, wf, cp, probe, job, api, changed, sent, blame, count>>

HandleStopFlat ==
    /\ job = "live" /\ w.pc = "raised" /\ w.exc \in {"witness", "budget", "error"}
    /\ \/ j.status # "running" /\ Raise(IF j.status = "stopped" THEN "cancel" ELSE "pause")
       \/ /\ j.status = "running"
          /\ \E r, why :
                /\ ToStop(why, r)
                /\ why = CASE w.exc = "witness" -> "state_witness_changed"
                          [] w.exc = "budget" -> "budget_exhausted"
                          [] OTHER -> "failed"
                /\ /\ w.exc = "budget" /\ ~w.bare /\ j.settled > 0
                   /\ j.redn = body[Red(j.settled - 1)]
                   => r
    /\ UNCHANGED <<j, body, wf, cp, probe, job, api, changed, sent, blame, count>>

CrashFlat ==
    /\ job = "live" /\ Room
    /\ w' = Off /\ job' = "failed" /\ blame' = blame \cup {"crash", Window}
    /\ count' = [count EXCEPT !.crashes = @ + 1]
    /\ UNCHANGED <<j, body, wf, cp, probe, api, changed, sent>>

RerunFlat ==
    /\ job = "failed" /\ j.status # "stopped" /\ api = "idle"
    /\ job' = "queued"
    /\ UNCHANGED <<j, body, wf, cp, probe, w, api, changed, sent, blame, count>>

PauseFlat ==
    /\ w.pc # "commit" /\ Room /\ j.status = "running"
    /\ j' = [j EXCEPT !.status = "pause_requested"]
    /\ count' = [count EXCEPT !.pauses = @ + 1]
    /\ UNCHANGED <<body, wf, cp, probe, w, job, api, changed, sent, blame>>

ResumeFlat ==
    /\ j.status = "paused" /\ api = "idle"
    /\ \/ changed /\ j' = Stopped("state_witness_changed", FALSE) /\ api' = api
       \/ /\ job \notin {"queued", "live"} /\ j' = [j EXCEPT !.status = "running"]
          /\ api' = "launching"
    /\ UNCHANGED <<body, wf, cp, probe, w, job, changed, sent, blame, count>>

LaunchFlat ==
    /\ api = "launching"
    /\ api' = "idle"
    /\ \/ job' = "queued" /\ UNCHANGED <<j, blame, count>>
       \/ /\ j.status = "stopped" /\ j' = j
          /\ blame' = blame \cup {"launch"} /\ UNCHANGED <<job, count>>
       \/ /\ j.status # "stopped" /\ j' = Stopped("failed", FALSE)
          /\ blame' = blame \cup {"launch"} /\ UNCHANGED <<job, count>>
       \/ /\ Room /\ count' = [count EXCEPT !.crashes = @ + 1]
          /\ blame' = blame \cup {"api"} /\ UNCHANGED <<j, job>>
    /\ UNCHANGED <<body, wf, cp, probe, w, changed, sent>>

CancelFlat ==
    /\ w.pc # "commit" /\ j.status # "stopped"
    /\ j' = Stopped("cancelled", FALSE)
    /\ UNCHANGED <<body, wf, cp, probe, w, job, api, changed, sent, blame, count>>

CancelJobFlat ==
    /\ j.status = "stopped" /\ job \in {"queued", "live"}
    /\ job' = "done" /\ w' = Off
    /\ UNCHANGED <<j, body, wf, cp, probe, api, changed, sent, blame, count>>

ExtendBudgetFlat ==
    /\ w.pc # "commit" /\ Room /\ j.status # "stopped"
    /\ j' = [j EXCEPT !.rounds = @ + 1, !.tools = @ + 1]
    /\ count' = [count EXCEPT !.amends = @ + 1]
    /\ UNCHANGED <<body, wf, cp, probe, w, job, api, changed, sent, blame>>

ChangeDataFlat ==
    /\ Room /\ ~changed /\ j.status # "stopped"
    /\ changed' = TRUE
    /\ UNCHANGED <<j, body, wf, cp, probe, w, job, api, sent, blame, count>>

\* Claim, alternative by alternative.
LEMMA ClaimStep == Claim => ClaimFlat
  BY DEF Claim, ClaimFlat, ToFresh, Disk, Hist, Env

\* Verify, alternative by alternative.
LEMMA VerifyStep == Verify => VerifyFlat
  BY DEF Verify, VerifyFlat, ToRecover, At, Escape, Goto, Disk, Hist, Env

\* RecoverCall, alternative by alternative.
LEMMA RecoverCallStep == RecoverCall => RecoverCallFlat
  BY DEF RecoverCall, RecoverCallFlat, ToSettleRest, At, RecoverEach, Escape, Disk, Hist, Env

\* RecoverTool, alternative by alternative.
LEMMA RecoverToolStep == RecoverTool => RecoverToolFlat
  BY DEF RecoverTool, RecoverToolFlat, ToSettleRest, At, RecoverEach, Escape, Disk, Hist, Env

\* Recovered, alternative by alternative.
LEMMA RecoveredStep == Recovered => RecoveredFlat
  BY DEF Recovered, RecoveredFlat, ToEnter, At, Disk, Hist, Env

\* Enter, alternative by alternative.
LEMMA EnterStep == Enter => EnterFlat
  BY DEF Enter, EnterFlat, ToFresh, At, Finish, Disk, Hist, Env

\* WriteCheckpoint, alternative by alternative.
LEMMA WriteCheckpointStep == WriteCheckpoint => WriteCheckpointFlat
  BY DEF WriteCheckpoint, WriteCheckpointFlat, ToNode, At, Disk, Hist, Env

\* EndAttempt, alternative by alternative.
LEMMA EndAttemptStep == EndAttempt => EndAttemptFlat
  BY DEF EndAttempt, EndAttemptFlat, At, Disk, Hist, Env

\* Orient, alternative by alternative.
LEMMA OrientStep == Orient => OrientFlat
  BY DEF Orient, OrientFlat, AtNode, At, Honored, Disk, Hist, Env

\* OpenRound, alternative by alternative.
LEMMA OpenRoundStep == OpenRound => OpenRoundFlat
  BY DEF OpenRound, OpenRoundFlat, At, Append, Disk, Hist, Env

\* Generate, alternative by alternative.
LEMMA GenerateStep == Generate => GenerateFlat
  BY DEF Generate, GenerateFlat, ToStart, AtNode, At, Honored, Disk, Hist, Env

\* StartCall, alternative by alternative.
LEMMA StartCallStep == StartCall => StartCallFlat
  BY DEF StartCall, StartCallFlat, At, Append, Disk, Hist, Env

\* Send, alternative by alternative.
LEMMA SendStep == Send => SendFlat
  BY DEF Send, SendFlat, At, Disk, Hist, Env

\* SendRefused, alternative by alternative.
LEMMA SendRefusedStep == SendRefused => SendRefusedFlat
  BY DEF SendRefused, SendRefusedFlat, At, Rejected, ProbeTo, Disk, Hist, Env

\* Answered, alternative by alternative.
LEMMA AnsweredStep == Answered => AnsweredFlat
  BY DEF Answered, AnsweredFlat, ToKeep, At, Disk, Hist, Env

\* AnswerUnknown, alternative by alternative.
LEMMA AnswerUnknownStep == AnswerUnknown => AnswerUnknownFlat
  BY DEF AnswerUnknown, AnswerUnknownFlat, At, ProbeTo, Disk, Hist, Env

\* AnswerMalformed, alternative by alternative.
LEMMA AnswerMalformedStep == AnswerMalformed => AnswerMalformedFlat
  BY DEF AnswerMalformed, AnswerMalformedFlat, ToStart, At, Rejected, ProbeTo, Disk, Hist, Env

\* AnswerUnavailable, alternative by alternative.
LEMMA AnswerUnavailableStep == AnswerUnavailable => AnswerUnavailableFlat
  BY DEF AnswerUnavailable, AnswerUnavailableFlat, At, Rejected, ProbeTo, Disk, Hist, Env

\* KeepAnswer, alternative by alternative.
LEMMA KeepAnswerStep == KeepAnswer => KeepAnswerFlat
  BY DEF KeepAnswer, KeepAnswerFlat, At, Disk, Hist, Env

\* CompleteCall, alternative by alternative.
LEMMA CompleteCallStep == CompleteCall => CompleteCallFlat
  BY DEF CompleteCall, CompleteCallFlat, At, Append, Disk, Hist, Env

\* Schedule, alternative by alternative.
LEMMA ScheduleStep == Schedule => ScheduleFlat
  BY DEF Schedule, ScheduleFlat, AtNode, At, Honored, Disk, Hist, Env

\* PassNode, alternative by alternative.
LEMMA PassNodeStep == PassNode => PassNodeFlat
  BY DEF PassNode, PassNodeFlat, AtNode, At, Honored, Disk, Hist, Env

\* Execute, alternative by alternative.
LEMMA ExecuteStep == Execute => ExecuteFlat
  BY DEF Execute, ExecuteFlat, ToProbes, AtNode, At, Honored, Disk, Hist, Env

\* NextProbe, alternative by alternative.
LEMMA NextProbeStep == NextProbe => NextProbeFlat
  BY DEF NextProbe, NextProbeFlat, ToProbe, At, Disk, Hist, Env

\* AskModel, alternative by alternative.
LEMMA AskModelStep == AskModel => AskModelFlat
  BY DEF AskModel, AskModelFlat, ProbeAt, At, ProbeTo, Disk, Hist, Env

\* UseTool, alternative by alternative.
LEMMA UseToolStep == UseTool => UseToolFlat
  BY DEF UseTool, UseToolFlat, ProbeAt, At, ProbeTo, Disk, Hist, Env, Mine

\* StartTool, alternative by alternative.
LEMMA StartToolStep == StartTool => StartToolFlat
  BY DEF StartTool, StartToolFlat, At, Append, Disk, Hist, Env, Mine

\* RunTool, alternative by alternative.
LEMMA RunToolStep == RunTool => RunToolFlat
  BY DEF RunTool, RunToolFlat, ToResult, At, Disk, Hist, Env

\* FailTool, alternative by alternative.
LEMMA FailToolStep == FailTool => FailToolFlat
  BY DEF FailTool, FailToolFlat, At, ProbeTo, Disk, Hist, Env, Mine

\* KeepResult, alternative by alternative.
LEMMA KeepResultStep == KeepResult => KeepResultFlat
  BY DEF KeepResult, KeepResultFlat, ToPrepare, At, Disk, Hist, Env, Mine

\* PrepareReceipt, alternative by alternative.
LEMMA PrepareReceiptStep == PrepareReceipt => PrepareReceiptFlat
  BY DEF PrepareReceipt, PrepareReceiptFlat, At, Append, Disk, Hist, Env, Mine

\* CommitReceipt, alternative by alternative.
LEMMA CommitReceiptStep == CommitReceipt => CommitReceiptFlat
  BY DEF CommitReceipt, CommitReceiptFlat, At, Append, Disk, Hist, Env, Mine

\* Reduce, alternative by alternative.
LEMMA ReduceStep == Reduce => ReduceFlat
  BY DEF Reduce, ReduceFlat, ToOutcome, AtNode, At, Honored, ToSettle, Disk, Hist, Env

\* GateVerdict, alternative by alternative.
LEMMA GateVerdictStep == GateVerdict => GateVerdictFlat
  BY DEF GateVerdict, GateVerdictFlat, At, Append, Disk, Hist, Env

\* PersistReduction, alternative by alternative.
LEMMA PersistReductionStep == PersistReduction => PersistReductionFlat
  BY DEF PersistReduction, PersistReductionFlat, ToOutcome, At, Disk, Hist, Env

\* KeepReduction, alternative by alternative.
LEMMA KeepReductionStep == KeepReduction => KeepReductionFlat
  BY DEF KeepReduction, KeepReductionFlat, At, Disk, Hist, Env

\* CommitReduction, alternative by alternative.
LEMMA CommitReductionStep == CommitReduction => CommitReductionFlat
  BY DEF CommitReduction, CommitReductionFlat, At, Append, ToSettle, Disk, Hist, Env

\* Settle, alternative by alternative.
LEMMA SettleStep == Settle => SettleFlat
  BY DEF Settle, SettleFlat, AtNode, At, Append, Disk, Hist, Env

\* AfterSettle, alternative by alternative.
LEMMA AfterSettleStep == AfterSettle => AfterSettleFlat
  BY DEF AfterSettle, AfterSettleFlat, At, Honored, Disk, Hist, Env

\* Synthesize, alternative by alternative.
LEMMA SynthesizeStep == Synthesize => SynthesizeFlat
  BY DEF Synthesize, SynthesizeFlat, ToStop, AtNode, At, Honored, Disk, Hist, Env

\* Stop, alternative by alternative.
LEMMA StopStep == Stop => StopFlat
  BY DEF Stop, StopFlat, ToBare, ToFresh, At, Finish, Escape, Disk, Hist, Env

\* HandlePause, alternative by alternative.
LEMMA HandlePauseStep == HandlePause => HandlePauseFlat
  BY DEF HandlePause, HandlePauseFlat, ToFresh, At, Finish, Escape, Disk, Hist, Env

\* HandleCancel, alternative by alternative.
LEMMA HandleCancelStep == HandleCancel => HandleCancelFlat
  BY DEF HandleCancel, HandleCancelFlat, ToFresh, At, Finish, Disk, Hist, Env

\* HandleStop, alternative by alternative.
LEMMA HandleStopStep == HandleStop => HandleStopFlat
  BY ZenonT(60) DEF HandleStop, HandleStopFlat, ToStop, At, Disk, Hist, Env

\* Crash, alternative by alternative.
LEMMA CrashStep == Crash => CrashFlat
  BY DEF Crash, CrashFlat, Disk, Hist, Env

\* Rerun, alternative by alternative.
LEMMA RerunStep == Rerun => RerunFlat
  BY DEF Rerun, RerunFlat, Disk, Hist, Env

\* Pause, alternative by alternative.
LEMMA PauseStep == Pause => PauseFlat
  BY DEF Pause, PauseFlat, Disk, Hist, Env, Unfenced

\* Resume, alternative by alternative.
LEMMA ResumeStep == Resume => ResumeFlat
  BY DEF Resume, ResumeFlat, Disk, Hist, Env

\* Launch, alternative by alternative.
LEMMA LaunchStep == Launch => LaunchFlat
  BY DEF Launch, LaunchFlat, Disk, Hist, Env

\* Cancel, alternative by alternative.
LEMMA CancelStep == Cancel => CancelFlat
  BY DEF Cancel, CancelFlat, Disk, Hist, Env, Unfenced

\* CancelJob, alternative by alternative.
LEMMA CancelJobStep == CancelJob => CancelJobFlat
  BY DEF CancelJob, CancelJobFlat, Disk, Hist, Env

\* ExtendBudget, alternative by alternative.
LEMMA ExtendBudgetStep == ExtendBudget => ExtendBudgetFlat
  BY DEF ExtendBudget, ExtendBudgetFlat, Disk, Hist, Env, Unfenced

\* ChangeData, alternative by alternative.
LEMMA ChangeDataStep == ChangeData => ChangeDataFlat
  BY DEF ChangeData, ChangeDataFlat, Disk, Hist, Env

\* Every step of the system, alternative by alternative.
NextFlat ==
    \/ ClaimFlat \/ VerifyFlat \/ RecoverCallFlat \/ RecoverToolFlat
    \/ RecoveredFlat \/ EnterFlat \/ WriteCheckpointFlat \/ EndAttemptFlat
    \/ OrientFlat \/ OpenRoundFlat \/ GenerateFlat \/ StartCallFlat \/ SendFlat
    \/ SendRefusedFlat \/ AnsweredFlat \/ AnswerUnknownFlat \/ AnswerMalformedFlat
    \/ AnswerUnavailableFlat \/ KeepAnswerFlat \/ CompleteCallFlat \/ ScheduleFlat
    \/ PassNodeFlat \/ ExecuteFlat \/ NextProbeFlat \/ AskModelFlat \/ UseToolFlat
    \/ StartToolFlat \/ RunToolFlat \/ FailToolFlat \/ KeepResultFlat
    \/ PrepareReceiptFlat \/ CommitReceiptFlat \/ ReduceFlat \/ GateVerdictFlat
    \/ PersistReductionFlat \/ KeepReductionFlat \/ CommitReductionFlat
    \/ SettleFlat \/ AfterSettleFlat \/ SynthesizeFlat \/ StopFlat
    \/ HandlePauseFlat \/ HandleCancelFlat \/ HandleStopFlat \/ CrashFlat
    \/ RerunFlat \/ PauseFlat \/ ResumeFlat \/ LaunchFlat \/ CancelFlat
    \/ CancelJobFlat \/ ExtendBudgetFlat \/ ChangeDataFlat
    \/ UNCHANGED vars

\* The next-state relation takes these alternatives only.
LEMMA NextIsFlat == [Next]_vars => NextFlat
  BY ClaimStep, VerifyStep, RecoverCallStep, RecoverToolStep, RecoveredStep, EnterStep,
         WriteCheckpointStep, EndAttemptStep, OrientStep, OpenRoundStep, GenerateStep,
         StartCallStep, SendStep, SendRefusedStep, AnsweredStep, AnswerUnknownStep,
         AnswerMalformedStep, AnswerUnavailableStep, KeepAnswerStep, CompleteCallStep,
         ScheduleStep, PassNodeStep, ExecuteStep, NextProbeStep, AskModelStep, UseToolStep,
         StartToolStep, RunToolStep, FailToolStep, KeepResultStep, PrepareReceiptStep,
         CommitReceiptStep, ReduceStep, GateVerdictStep, PersistReductionStep,
         KeepReductionStep, CommitReductionStep, SettleStep, AfterSettleStep, SynthesizeStep,
         StopStep, HandlePauseStep, HandleCancelStep, HandleStopStep, CrashStep, RerunStep,
         PauseStep, ResumeStep, LaunchStep, CancelStep, CancelJobStep, ExtendBudgetStep,
         ChangeDataStep
     DEF Next, Worker, NextFlat

-----------------------------------------------------------------------------
(* The inductive invariant, in parts *)

Shape ==
    /\ DOMAIN j = JFields /\ DOMAIN w = WFields /\ DOMAIN cp = CFields
    /\ DOMAIN wf = {"sched", "out"}
    /\ count \in [pauses : Nat, crashes : Nat, amends : Nat, reqs : Nat]
    /\ changed \in BOOLEAN
    /\ sent \in [Calls -> Nat]
    /\ DOMAIN probe = Rounds \X (1 .. NProbes)

Waiting  == {"verify", "recover"}
Asking   == {"send", "answer", "keep", "complete"}
Tooling  == {"run", "tkeep", "prepare", "commit"}
Reducing == {"gate", "persist", "rkeep", "reduce"}
Places   == Waiting \cup Asking \cup Tooling \cup Reducing \cup
            {"off", "enter", "node", "ckpt", "ending", "open", "start", "probes", "tstart",
             "after", "stop", "raised"}
InRound  == {"generate", "schedule", "select", "execute_probes", "validate", "reduce"}
Nodes    == InRound \cup {"orient", "settle", "synthesize"}

-----------------------------------------------------------------------------
\* The journal alone.
JournalOK ==
    /\ j.status \in {"running", "pause_requested", "paused", "stopped"}
    /\ j.term \in Natural \cup {None}
    /\ j.settled \in Nat /\ j.rounds \in Nat
    /\ j.calls \subseteq Calls /\ j.unsure \subseteq Calls
    /\ j.slots \subseteq Tools /\ j.prep \subseteq j.slots
    /\ DOMAIN j.dig \subseteq Calls \cup Tools
    /\ j.calls \cap (j.unsure \cup DOMAIN j.dig) = {}
    /\ j.slots \cap DOMAIN j.dig = {}
    /\ j.status = "stopped" => j.calls = {} /\ j.slots = {} /\ j.term = None
    /\ j.committed => j.open
    /\ j.term # None => ~j.open

\* The counters of the journal: rounds, model calls and tool calls.
RoundsOK ==
    /\ j.rounds + j.settled + (IF j.open THEN 1 ELSE 0) = MaxRounds + count.amends
    /\ count.amends <= MaxEvents
LlmOK ==
    /\ IsFiniteSet(j.calls) /\ j.llm \in Nat
    /\ Cardinality(j.calls) <= j.llm
Receipts == {s \in DOMAIN j.dig : s[1] = "tool"}
ToolsOK ==
    /\ IsFiniteSet(j.slots) /\ IsFiniteSet(Receipts) /\ j.tools \in Nat
    /\ Cardinality(j.slots) <= j.tools
    /\ j.tools = ToolCap + count.amends - Cardinality(Receipts)
CountOK == RoundsOK /\ LlmOK /\ ToolsOK

\* A checkpoint, the one on disk or the next one, fits the journal.
CkptFits(c, J) ==
    /\ DOMAIN c = CFields
    /\ c.node \in Nodes /\ c.round \in Int /\ c.n \in 0 .. NProbes
    /\ c.node \in InRound => c.round = J.settled /\ J.open
    /\ c.node \in InRound \ {"generate"} => Gen(c.round) \in DOMAIN J.dig
    /\ c.node = "settle" => \/ c.round = J.settled /\ J.open /\ J.committed
                            \/ c.round = J.settled - 1 /\ ~J.open
    /\ c.node = "synthesize" => c.round = J.settled - 1 /\ ~J.open
    /\ J.committed => c.node \in {"reduce", "settle"}
CkptOK(c) == CkptFits(c, j)

\* Where the worker is.
PlaceOK ==
    /\ w.pc \in Places
    /\ job \in {"queued", "live", "failed", "done"}
    /\ w.pc = "off" <=> job # "live"
    /\ api \in {"idle", "launching"}
    /\ api = "launching" => job \in {"failed", "done"}
    /\ w.pc = "open" => cp.node = "orient"
    /\ w.pc \in Asking \cup {"start"} => cp.node \in {"generate", "execute_probes"}
    /\ w.pc \in Tooling \cup {"probes", "tstart"} => cp.node = "execute_probes"
    /\ w.pc \in Reducing => cp.node = "reduce"
    /\ w.pc = "after" => cp.node = "settle" /\ ~j.open
    /\ w.pc \in Asking \cup {"start"} /\ cp.node = "execute_probes" => w.p \in 1 .. cp.n
    /\ w.pc \in Tooling \cup {"tstart"} => w.p \in 1 .. cp.n
    /\ w.pc = "probes" => w.p \in Nat \ {0}

\* The checkpoint about to be written.
NextOK == w.pc = "ckpt" => CkptOK(w.out)

\* What is pending is what the worker is at, or what a dead one left.
CallPending ==
    /\ w.pc \in Asking => j.calls \subseteq {Call}
    /\ w.pc \in Asking /\ j.status # "stopped" => Call \in j.calls
    /\ w.pc \notin Asking \cup Waiting \cup {"off"} => j.calls = {}
    /\ w.pc \in Asking \cup {"start"} => Call \notin DOMAIN j.dig
    /\ w.pc = "start" /\ j.status # "stopped" => Call \notin j.unsure
ToolPending ==
    /\ w.pc \in Tooling => j.slots \subseteq {Mine}
    /\ w.pc \in Tooling /\ j.status # "stopped" => Mine \in j.slots
    /\ w.pc = "commit" /\ j.status # "stopped" => Mine \in j.prep
    /\ w.pc \notin Tooling \cup Waiting \cup {"off"} => j.slots = {}
    /\ w.pc \in Tooling \cup {"tstart"} => Mine \notin DOMAIN j.dig
TodoOK ==
    /\ w.pc = "recover" /\ j.status # "stopped" => w.todo = j.calls \cup j.slots
    /\ w.pc = "recover" => w.todo \subseteq Calls \cup Tools
PendingOK == CallPending /\ ToolPending /\ TodoOK

\* The durable bodies.
DigestsStand ==
    /\ \A s \in DOMAIN j.dig :
          /\ s \in DOMAIN body
          /\ j.dig[s] = body[s] \/ (s[1] = "gen" /\ "batch" \in blame)
    /\ j.prep \subseteq DOMAIN body
ReductionStands ==
    /\ j.committed => Red(j.settled) \in DOMAIN body /\ j.redn = body[Red(j.settled)]
    /\ j.settled > 0 /\ ~j.committed =>
          Red(j.settled - 1) \in DOMAIN body /\ j.redn = body[Red(j.settled - 1)]
Kept == DigestsStand /\ ReductionStands

BodyOK ==
    /\ \A r \in Rounds : Gen(r) \in DOMAIN body => body[Gen(r)] \in 0 .. NProbes
    /\ w.pc \in {"keep", "complete"} /\ cp.node = "generate" => w.val \in 0 .. NProbes
    /\ w.pc = "complete" => Call \in DOMAIN body /\ body[Call] = w.val
    /\ w.pc \in {"prepare", "commit"} => Mine \in DOMAIN body /\ body[Mine] = w.val
    /\ w.pc = "reduce" => Red(cp.round) \in DOMAIN body /\ body[Red(cp.round)] = w.val
    /\ w.pc \in Reducing => ~j.committed

\* A batch without its completion is the one at hand, or a worker died on it.
BatchOK ==
    /\ \A r \in Rounds : Gen(r) \in DOMAIN body =>
          Gen(r) \in DOMAIN j.dig \cup j.calls \cup j.unsure
    /\ \A r \in Rounds : Gen(r) \in j.calls \cap DOMAIN body =>
          (w.pc = "complete" /\ Call = Gen(r)) \/ "batch" \in blame
    /\ w.pc \in {"start", "send", "answer", "keep"} /\ cp.node = "generate" /\ j.status # "stopped"
          => Call \notin DOMAIN body

\* A call that was sent is pending, latched or completed.
SentOK ==
    /\ \A c \in Calls : sent[c] <= 1
    /\ \A c \in Calls : sent[c] # 0 => c \in j.calls \cup j.unsure \cup DOMAIN j.dig
    /\ w.pc = "send" => sent[Call] = 0
    /\ w.pc \in Asking => Call \in j.calls \cup j.unsure

\* The worker's own count of tool calls.
LedOK ==
    /\ w.led \in Int
    /\ w.led <= j.tools
    /\ w.pc \in {"prepare", "commit"} => w.led + 1 <= j.tools
    /\ w.pc = "tstart" => w.led > 0
    /\ w.pc \in Waiting => w.led = 0

-----------------------------------------------------------------------------
\* The decision of the last round and the checkpoint agree.
DecidedOK ==
    /\ j.term # None => \/ cp.node = "settle" /\ cp.round = j.settled - 1 /\ Decision = j.term
                        \/ cp.node = "synthesize" /\ cp.reason = j.term
    /\ w.pc = "after" /\ j.status # "stopped" => j.term = Decision
    /\ w.pc = "ckpt" /\ w.out.node = "synthesize" /\ j.status # "stopped" => w.out.reason = j.term
    /\ cp.node = "synthesize" /\ j.status # "stopped" => cp.reason = j.term
    /\ w.pc = "ckpt" /\ w.out.node \notin {"settle", "synthesize"} => j.term = None
    /\ cp.node = "settle" /\ cp.round = j.settled - 1 /\ j.status # "stopped" => Decision = j.term
    /\ cp.node = "synthesize" => cp.reason \in Natural
    /\ w.pc = "ckpt" /\ w.out.node = "synthesize" => w.out.reason \in Natural
    /\ w.pc = "ckpt" /\ w.out.node = "settle" => j.open

\* How an attempt ends.
Handled == {"witness", "budget", "error"}
ReasonOf(e) ==
    CASE e = "witness" -> "state_witness_changed"
      [] e = "budget" -> "budget_exhausted"
      [] OTHER -> "failed"
RaisedOK ==
    /\ w.pc \in {"raised", "stop"} => w.exc \in {None, "pause", "cancel"} \cup Handled
    /\ w.pc = "raised" => w.exc # None
    /\ w.pc = "raised" /\ w.exc \in Handled /\ j.status = "running" => j.term = None
    /\ w.pc = "stop" /\ w.exc \in Handled => j.term = None
    /\ w.pc \notin {"raised", "stop"} => w.exc = None
    /\ w.exc = "budget" => cp.node \in {"orient", "generate"}
    /\ w.exc = "cancel" => j.status = "stopped"
    /\ w.bare => w.exc = "budget" /\ j.status # "running"
    /\ w.pc = "stop" /\ w.exc = None =>
          cp.node = "synthesize" /\ w.reason = cp.reason /\ w.report
    /\ w.pc = "stop" /\ w.exc # None =>
          /\ w.reason = ReasonOf(w.exc)
          /\ w.exc \in Handled
          /\ w.exc = "budget" /\ j.settled > 0 => w.report \/ w.bare
    /\ w.pc = "ending" => j.status \in {"paused", "stopped"}

\* A run that is not stopped has no reason yet, and one that is kept its report.
EndOK ==
    /\ j.status # "stopped" => j.reason = None
    /\ ReportKept

\* Who has a cause to stop.
Causes == {"provider", "launch", "refused", "inflight", "batch", "schedule"}
Cause  == blame \cap Causes # {}

UnsureOK ==
    /\ j.unsure # {} => Cause \/ j.status = "stopped"
    /\ \A c \in j.calls : c \in DOMAIN body \/ w.pc \in {"send", "answer", "keep"}
                            \/ "inflight" \in blame
    /\ \A x \in DOMAIN probe : probe[x] = "bad" => Cause \/ j.status = "stopped"

\* Every request the journal charged was sent.
ChargedOK ==
    /\ \A c, d \in j.calls : c = d
    /\ \/ j.status = "stopped" \/ Cause
       \/ LlmCap + (IF j.calls # {} /\ w.pc # "send" THEN 1 ELSE 0) <= j.llm + count.reqs

ReqsOK == count.reqs <= LlmCap - Protected

\* A round is scheduled once, unless a worker died before its checkpoint.
Scheduled == (InRound \ {"generate"}) \cup {"settle"}
SchedOK ==
    /\ \A r \in wf.sched : r \in Nat /\ r <= j.settled
    /\ j.settled \in wf.sched => j.open /\ cp.node \in Scheduled
    /\ j.settled \in wf.sched /\ w.pc = "ckpt" => w.out.node \in Scheduled \ {"schedule"}
    /\ cp.node = "schedule" /\ cp.round \in wf.sched
          => w.pc = "ckpt" \/ "schedule" \in blame \/ j.status = "stopped"

\* The round a worker is about to open can be opened.
OpenOK == w.pc = "open" => ~j.open /\ j.rounds > 0

ErrorOK ==
    /\ w.pc = "raised" /\ w.exc = "error" => Cause \/ j.status # "running"
    /\ w.pc = "stop" /\ w.reason = "failed" => Cause
    /\ j.reason = "failed" => Cause

JobOK ==
    /\ job = "failed" => blame \cap {"crash", "race", "witness"} # {}
    /\ job = "done" /\ j.status \notin {"paused", "stopped"} =>
          api = "launching" \/ blame \cap {"crash", "api", "race", "witness"} # {}

\* A pause, field by field.
LEMMA PauseMoves ==
    ASSUME Shape, PauseFlat
    PROVE  /\ w.pc # "commit" /\ j.status = "running"
           /\ DOMAIN j' = JFields /\ j'.status = "pause_requested"
           /\ j'.reason = j.reason /\ j'.report = j.report /\ j'.term = j.term
           /\ j'.open = j.open /\ j'.settled = j.settled /\ j'.gated = j.gated
           /\ j'.committed = j.committed /\ j'.redn = j.redn /\ j'.calls = j.calls
           /\ j'.unsure = j.unsure /\ j'.slots = j.slots /\ j'.prep = j.prep
           /\ j'.dig = j.dig /\ j'.llm = j.llm /\ j'.tools = j.tools
           /\ j'.rounds = j.rounds /\ j'.dry = j.dry
           /\ count'.reqs = count.reqs /\ count'.amends = count.amends
           /\ UNCHANGED <<body, wf, cp, probe, w, job, api, changed, sent, blame>>
<1>1. j' = [j EXCEPT !.status = "pause_requested"] /\ DOMAIN j = JFields
  BY DEF PauseFlat, Shape
<1>2. count'.reqs = count.reqs /\ count'.amends = count.amends
  BY DEF PauseFlat, Shape
<1> QED BY <1>1, <1>2, StatusFields DEF PauseFlat

\* A cancel, field by field.
LEMMA CancelMoves ==
    ASSUME Shape, CancelFlat
    PROVE  /\ w.pc # "commit" /\ j.status # "stopped"
           /\ DOMAIN j' = JFields /\ j'.status = "stopped" /\ j'.reason = "cancelled"
           /\ ~j'.report /\ j'.term = None
           /\ j'.open = j.open /\ j'.settled = j.settled /\ j'.gated = j.gated
           /\ j'.committed = j.committed /\ j'.redn = j.redn /\ j'.calls = {}
           /\ j'.unsure = j.unsure \cup j.calls /\ j'.slots = {} /\ j'.prep = {}
           /\ j'.dig = j.dig /\ j'.llm = j.llm - Cardinality(j.calls)
           /\ j'.tools = j.tools /\ j'.rounds = j.rounds /\ j'.dry = j.dry
           /\ UNCHANGED <<body, wf, cp, probe, w, job, api, changed, sent, blame, count>>
<1>1. j' = Stopped("cancelled", FALSE) /\ DOMAIN j = JFields
  BY DEF CancelFlat, Shape
<1>2. /\ DOMAIN j' = JFields /\ j'.status = "stopped" /\ j'.reason = "cancelled"
      /\ j'.term = None /\ j'.open = j.open /\ j'.settled = j.settled /\ j'.gated = j.gated
      /\ j'.committed = j.committed /\ j'.redn = j.redn /\ j'.calls = {}
      /\ j'.unsure = j.unsure \cup j.calls /\ j'.slots = {} /\ j'.prep = {}
      /\ j'.dig = j.dig /\ j'.llm = j.llm - Cardinality(j.calls)
      /\ j'.tools = j.tools /\ j'.rounds = j.rounds /\ j'.dry = j.dry
  BY <1>1, StoppedFields, Zenon
<1>3. ~j'.report
  BY <1>1, StoppedFields, Zenon
<1> QED BY <1>2, <1>3 DEF CancelFlat

\* An extension of the budget, field by field.
LEMMA ExtendBudgetMoves ==
    ASSUME Shape, ExtendBudgetFlat
    PROVE  /\ w.pc # "commit" /\ j.status # "stopped"
           /\ DOMAIN j' = JFields /\ j'.status = j.status
           /\ j'.reason = j.reason /\ j'.report = j.report /\ j'.term = j.term
           /\ j'.open = j.open /\ j'.settled = j.settled /\ j'.gated = j.gated
           /\ j'.committed = j.committed /\ j'.redn = j.redn /\ j'.calls = j.calls
           /\ j'.unsure = j.unsure /\ j'.slots = j.slots /\ j'.prep = j.prep
           /\ j'.dig = j.dig /\ j'.llm = j.llm /\ j'.tools = j.tools + 1
           /\ j'.rounds = j.rounds + 1 /\ j'.dry = j.dry
           /\ count'.reqs = count.reqs /\ count'.amends = count.amends + 1
           /\ UNCHANGED <<body, wf, cp, probe, w, job, api, changed, sent, blame>>
<1>1. j' = [j EXCEPT !.rounds = @ + 1, !.tools = @ + 1] /\ DOMAIN j = JFields
  BY DEF ExtendBudgetFlat, Shape
<1>2. count'.reqs = count.reqs /\ count'.amends = count.amends + 1
  BY DEF ExtendBudgetFlat, Shape
<1> QED BY <1>1, <1>2, BudgetFields DEF ExtendBudgetFlat

\* The end of an attempt by a pause, field by field.
LEMMA HandlePauseMoves ==
    ASSUME Shape, HandlePauseFlat
    PROVE  /\ job = "live" /\ w.pc = "raised" /\ w.exc = "pause"
           /\ \/ /\ j.status \in {"pause_requested", "paused"} /\ j'.status = "paused"
                 /\ w'.pc = "ending" /\ UNCHANGED <<job, blame>>
              \/ /\ j'.status = j.status /\ w'.pc = "off" /\ job' = "failed"
                 /\ blame' = blame \cup {"race"}
           /\ DOMAIN w' = WFields /\ w'.exc = None /\ ~w'.bare /\ w'.led = 0
           /\ w'.val = None /\ w'.todo = {} /\ w'.out = None /\ w'.reason = None
           /\ ~w'.report /\ w'.p = 0 /\ w'.try = 0
           /\ DOMAIN j' = JFields
           /\ j'.reason = j.reason /\ j'.report = j.report /\ j'.term = j.term
           /\ j'.open = j.open /\ j'.settled = j.settled /\ j'.gated = j.gated
           /\ j'.committed = j.committed /\ j'.redn = j.redn /\ j'.calls = j.calls
           /\ j'.unsure = j.unsure /\ j'.slots = j.slots /\ j'.prep = j.prep
           /\ j'.dig = j.dig /\ j'.llm = j.llm /\ j'.tools = j.tools
           /\ j'.rounds = j.rounds /\ j'.dry = j.dry
           /\ UNCHANGED <<body, wf, cp, probe, api, changed, sent, count>>
<1>0. DOMAIN j = JFields
  BY DEF Shape
<1>1. CASE /\ j.status = "pause_requested" /\ j' = [j EXCEPT !.status = "paused"]
           /\ ToFresh("ending") /\ UNCHANGED <<job, blame>>
  BY <1>0, <1>1, StatusFields, FreshWorker DEF HandlePauseFlat
<1>2. CASE /\ j.status = "paused" /\ j' = j
           /\ ToFresh("ending") /\ UNCHANGED <<job, blame>>
  BY <1>0, <1>2, FreshWorker DEF HandlePauseFlat
<1>3. CASE j' = j /\ w' = Off /\ job' = "failed" /\ blame' = blame \cup {"race"}
  BY <1>0, <1>3, OffWorker DEF HandlePauseFlat
<1> QED BY <1>1, <1>2, <1>3 DEF HandlePauseFlat

-----------------------------------------------------------------------------
(* The moves of the journal *)

\* What one step does to the journal: nothing, or one event of the reducer, with
\* what is known when it is appended.
JournalStays == j' = j /\ count'.amends = count.amends
CallSettles(c) ==
    \/ \E d : j' = CallCompleted(c, d)
    \/ j' = CallRejected(c)
    \/ j' = CallUncertain(c)
SlotMoves(t) ==
    \/ j' = ReceiptPrepared(t)
    \/ \E d : j' = ReceiptCommitted(t, d)
    \/ j' = ToolFailed(t)
JournalMoves ==
    /\ count'.amends = count.amends
    /\ j.status # "stopped"
    /\ \/ \E s \in {"running", "pause_requested", "paused"} : j' = [j EXCEPT !.status = s]
       \/ CanStartRound /\ j' = RoundStarted
       \/ \E c \in Calls : /\ CanStartCall(c) /\ c \notin j.unsure /\ ~Done(c)
                           /\ j' = CallStarted(c)
       \/ \E c \in j.calls : CallSettles(c)
       \/ \E t \in Tools : CanStartTool(t) /\ j' = ToolStarted(t)
       \/ \E t \in j.slots : SlotMoves(t)
       \/ \E g : j' = [j EXCEPT !.gated = g]
       \/ \E o : NoPending /\ j.open /\ j' = ReductionCommitted(o)
       \/ \E o : \E why \in Natural \cup {None} :
             NoPending /\ j.open /\ j' = RoundSettled(o, why)
       \/ \E why, r : j' = Stopped(why, r)
BudgetMoves ==
    /\ count.amends < MaxEvents
    /\ count' = [count EXCEPT !.amends = @ + 1]
    /\ j.status # "stopped"
    /\ j' = [j EXCEPT !.rounds = @ + 1, !.tools = @ + 1]
Moves == JournalStays \/ JournalMoves \/ BudgetMoves

\* The round the journal is in stays what it is.
RoundStays ==
    /\ j'.open = j.open /\ j'.settled = j.settled /\ j'.committed = j.committed
    /\ j'.redn = j.redn /\ DOMAIN j.dig \subseteq DOMAIN j'.dig

\* The round a worker is at has a place in the bounded model.
LEMMA CallKnown ==
    ASSUME Shape, JournalOK, CountOK, CkptOK(cp), PlaceOK, w.pc \in Asking \cup {"start"}
    PROVE  Call \in Calls
  BY BoundsAssumption DEF Shape, JournalOK, CountOK, RoundsOK, CkptOK, CkptFits, PlaceOK,
     Call, Calls, Rounds, Gen, Ask, InRound, Asking

\* The tool of the probe at work is one of the model's.
LEMMA ToolKnown ==
    ASSUME Shape, JournalOK, CountOK, CkptOK(cp), PlaceOK, w.pc \in Tooling \cup {"tstart"}
    PROVE  Mine \in Tools
  BY BoundsAssumption DEF Shape, JournalOK, CountOK, RoundsOK, CkptOK, CkptFits, PlaceOK,
     Tools, Rounds, Mine, Tool, InRound, Tooling

\* A pending call is settled.
LEMMA SettlingMoves ==
    ASSUME NEW c \in j.calls, j.status # "stopped", count' = count, CallSettles(c)
    PROVE  Moves
  BY DEF Moves, JournalMoves

\* A tool slot moves.
LEMMA SlotsMove ==
    ASSUME NEW t \in j.slots, j.status # "stopped", count' = count, SlotMoves(t)
    PROVE  Moves
  BY DEF Moves, JournalMoves

\* The journal is stopped.
LEMMA StoppingMoves ==
    ASSUME NEW why, NEW r, j.status # "stopped", count' = count, j' = Stopped(why, r)
    PROVE  Moves
  BY DEF Moves, JournalMoves

\* The status changes.
LEMMA StatusMoves ==
    ASSUME NEW s \in {"running", "pause_requested", "paused"}, j.status # "stopped",
           count' = count, j' = [j EXCEPT !.status = s]
    PROVE  Moves
  BY DEF Moves, JournalMoves

\* The decision is one of the reasons a run may end with by itself, or none.
LEMMA DecisionKind == ASSUME NEW b PROVE DecisionOn(b) \in Natural \cup {None}
  BY DEF DecisionOn, Natural

\* A tool step is not a model call.
LEMMA ToolsAreNoCalls == Calls \cap Tools = {}
  BY DEF Calls, Tools, Gen, Ask, Tool

\* Every step makes one of the moves.
LEMMA MovesStep ==
    ASSUME Shape, JournalOK, CountOK, CkptOK(cp), PlaceOK, PendingOK, [Next]_vars
    PROVE  Moves
<1>1. CASE Claim
  BY <1>1
     DEF Claim, Disk, Hist, Env, JournalMoves, CallSettles, SlotMoves, Moves, JournalStays,
        BudgetMoves
<1>2. CASE Verify
  BY <1>2
     DEF Verify, At, Escape, Goto, Disk, Hist, Env, JournalMoves, CallSettles, SlotMoves,
        Moves, JournalStays, BudgetMoves
<1>3. CASE RecoverCall
<2>1. PICK c \in w.todo \cap Calls :
          RecoverEach(IF c \notin DOMAIN body THEN CallUncertain(c)
                      ELSE CallCompleted(c, IF c[1] = "gen" THEN Foreign ELSE body[c]),
                      w.todo \ {c})
  BY <1>3 DEF RecoverCall
<2>2. count' = count
  BY <1>3 DEF RecoverCall, Env
<2>3. CASE j.status = "stopped"
  BY <2>1, <2>2, <2>3 DEF RecoverEach, Moves, JournalStays
<2>4. CASE j.status # "stopped"
  <3>1. c \in j.calls
    BY <1>3, <2>4, ToolsAreNoCalls DEF RecoverCall, At, PendingOK, TodoOK, JournalOK
  <3>2. CallSettles(c)
    BY <2>1, <2>4 DEF RecoverEach, CallSettles
  <3> QED BY <2>2, <2>4, <3>1, <3>2, SettlingMoves
<2> QED BY <2>3, <2>4
<1>4. CASE RecoverTool
<2>1. PICK t \in w.todo :
          CASE t \notin DOMAIN body -> RecoverEach(ToolFailed(t), w.todo \ {t})
            [] t \in DOMAIN body /\ t \notin j.prep -> RecoverEach(ReceiptPrepared(t), w.todo)
            [] OTHER -> RecoverEach(ReceiptCommitted(t, body[t]), w.todo \ {t})
  BY <1>4 DEF RecoverTool
<2>2. count' = count
  BY <1>4 DEF RecoverTool, Env
<2>3. CASE j.status = "stopped"
  BY <2>1, <2>2, <2>3 DEF RecoverEach, Moves, JournalStays
<2>4. CASE j.status # "stopped"
  <3>1. t \in j.slots
    BY <1>4, <2>4, ToolsAreNoCalls DEF RecoverTool, At, PendingOK, TodoOK, JournalOK
  <3>2. SlotMoves(t)
    BY <2>1, <2>4 DEF RecoverEach, SlotMoves
  <3> QED BY <2>2, <2>4, <3>1, <3>2, SlotsMove
<2> QED BY <2>3, <2>4
<1>5. CASE Recovered
  BY <1>5
     DEF Recovered, At, Disk, Hist, Env, JournalMoves, CallSettles, SlotMoves, Moves,
        JournalStays, BudgetMoves
<1>6. CASE Enter
<2>1. /\ count' = count
      /\ \/ j' = j
         \/ j.status = "pause_requested" /\ j' = [j EXCEPT !.status = "paused"]
         \/ j.status = "running" /\ j' = Stopped("state_witness_changed", FALSE)
  BY <1>6 DEF Enter, Env
<2> QED BY <2>1, StoppingMoves, StatusMoves DEF Moves, JournalStays
<1>7. CASE WriteCheckpoint
  BY <1>7
     DEF WriteCheckpoint, At, Disk, Hist, Env, JournalMoves, CallSettles, SlotMoves, Moves,
        JournalStays, BudgetMoves
<1>8. CASE EndAttempt
  BY <1>8
     DEF EndAttempt, At, Disk, Hist, Env, JournalMoves, CallSettles, SlotMoves, Moves,
        JournalStays, BudgetMoves
<1>9. CASE Orient
  BY <1>9
     DEF Orient, AtNode, At, Honored, Disk, Hist, Env, JournalMoves, CallSettles, SlotMoves,
        Moves, JournalStays, BudgetMoves
<1>10. CASE OpenRound
  BY <1>10
     DEF OpenRound, At, Append, CanStartRound, NoPending, Disk, Hist, Env, JournalMoves,
        CallSettles, SlotMoves, Moves, JournalStays, BudgetMoves
<1>11. CASE Generate
  BY <1>11
     DEF Generate, AtNode, At, Honored, Disk, Hist, Env, JournalMoves, CallSettles, SlotMoves,
        Moves, JournalStays, BudgetMoves
<1>12. CASE StartCall
<2>1. /\ count' = count
      /\ j' = j \/ (j.status # "stopped" /\ CanStartCall(Call) /\ j' = CallStarted(Call))
  BY <1>12 DEF StartCall, Append, Env
<2>2. Call \in Calls
  BY <1>12, CallKnown DEF StartCall, At
<2>3. CASE j' = j
  BY <2>1, <2>3 DEF Moves, JournalStays
<2>4. CASE j.status # "stopped" /\ CanStartCall(Call) /\ j' = CallStarted(Call)
  <3>1. Call \notin j.unsure /\ ~Done(Call)
    BY <1>12, <2>4 DEF StartCall, At, PendingOK, CallPending, Done
  <3> QED BY <2>1, <2>2, <2>4, <3>1 DEF Moves, JournalMoves
<2> QED BY <2>1, <2>3, <2>4
<1>13. CASE Send
  BY <1>13
     DEF Send, At, Disk, Hist, Env, JournalMoves, CallSettles, SlotMoves, Moves, JournalStays,
        BudgetMoves
<1>14. CASE SendRefused
<2>1. Call \in j.calls \/ j.status = "stopped"
  BY <1>14 DEF SendRefused, At, PendingOK, CallPending, Asking
<2>2. count' = count /\ (j' = j \/ (j.status # "stopped" /\ j' = CallRejected(Call)))
  BY <1>14 DEF SendRefused, Rejected, Env
<2>3. CASE j' = j
  BY <2>2, <2>3 DEF Moves, JournalStays
<2>4. CASE j.status # "stopped" /\ j' = CallRejected(Call)
  BY <2>1, <2>2, <2>4, SettlingMoves DEF CallSettles
<2> QED BY <2>2, <2>3, <2>4
<1>15. CASE Answered
  BY <1>15
     DEF Answered, At, Disk, Hist, Env, JournalMoves, CallSettles, SlotMoves, Moves,
        JournalStays, BudgetMoves
<1>16. CASE AnswerUnknown
<2>1. Call \in j.calls \/ j.status = "stopped"
  BY <1>16 DEF AnswerUnknown, At, PendingOK, CallPending, Asking
<2>2. count' = count /\ (j' = j \/ (j.status # "stopped" /\ j' = CallUncertain(Call)))
  BY <1>16 DEF AnswerUnknown, Rejected, Env
<2>3. CASE j' = j
  BY <2>2, <2>3 DEF Moves, JournalStays
<2>4. CASE j.status # "stopped" /\ j' = CallUncertain(Call)
  BY <2>1, <2>2, <2>4, SettlingMoves DEF CallSettles
<2> QED BY <2>2, <2>3, <2>4
<1>17. CASE AnswerMalformed
<2>1. Call \in j.calls \/ j.status = "stopped"
  BY <1>17 DEF AnswerMalformed, At, PendingOK, CallPending, Asking
<2>2. count' = count /\ (j' = j \/ (j.status # "stopped" /\ j' = CallRejected(Call)))
  BY <1>17 DEF AnswerMalformed, Rejected, Env
<2>3. CASE j' = j
  BY <2>2, <2>3 DEF Moves, JournalStays
<2>4. CASE j.status # "stopped" /\ j' = CallRejected(Call)
  BY <2>1, <2>2, <2>4, SettlingMoves DEF CallSettles
<2> QED BY <2>2, <2>3, <2>4
<1>18. CASE AnswerUnavailable
<2>1. Call \in j.calls \/ j.status = "stopped"
  BY <1>18 DEF AnswerUnavailable, At, PendingOK, CallPending, Asking
<2>2. count' = count /\ (j' = j \/ (j.status # "stopped" /\ j' = CallRejected(Call)))
  BY <1>18 DEF AnswerUnavailable, Rejected, Env
<2>3. CASE j' = j
  BY <2>2, <2>3 DEF Moves, JournalStays
<2>4. CASE j.status # "stopped" /\ j' = CallRejected(Call)
  BY <2>1, <2>2, <2>4, SettlingMoves DEF CallSettles
<2> QED BY <2>2, <2>3, <2>4
<1>19. CASE KeepAnswer
  BY <1>19
     DEF KeepAnswer, At, Disk, Hist, Env, JournalMoves, CallSettles, SlotMoves, Moves,
        JournalStays, BudgetMoves
<1>20. CASE CompleteCall
  BY <1>20
     DEF CompleteCall, At, Append, Disk, Hist, Env, JournalMoves, CallSettles, SlotMoves,
        Moves, JournalStays, BudgetMoves
<1>21. CASE Schedule
  BY <1>21
     DEF Schedule, AtNode, At, Honored, Disk, Hist, Env, JournalMoves, CallSettles, SlotMoves,
        Moves, JournalStays, BudgetMoves
<1>22. CASE PassNode
  BY <1>22
     DEF PassNode, AtNode, At, Honored, Disk, Hist, Env, JournalMoves, CallSettles, SlotMoves,
        Moves, JournalStays, BudgetMoves
<1>23. CASE Execute
  BY <1>23
     DEF Execute, AtNode, At, Honored, Disk, Hist, Env, JournalMoves, CallSettles, SlotMoves,
        Moves, JournalStays, BudgetMoves
<1>24. CASE NextProbe
  BY <1>24
     DEF NextProbe, At, Here, Disk, Hist, Env, JournalMoves, CallSettles, SlotMoves, Moves,
        JournalStays, BudgetMoves
<1>25. CASE AskModel
  BY <1>25
     DEF AskModel, ProbeAt, At, ProbeTo, Disk, Hist, Env, JournalMoves, CallSettles,
        SlotMoves, Moves, JournalStays, BudgetMoves
<1>26. CASE UseTool
  BY <1>26
     DEF UseTool, ProbeAt, At, ProbeTo, Disk, Hist, Env, JournalMoves, CallSettles, SlotMoves,
        Moves, JournalStays, BudgetMoves
<1>27. CASE StartTool
<2>1. /\ count' = count
      /\ j' = j \/ (j.status # "stopped" /\ CanStartTool(Mine) /\ j' = ToolStarted(Mine))
  BY <1>27 DEF StartTool, Append, Env, Mine
<2>2. Mine \in Tools
  BY <1>27, ToolKnown DEF StartTool, At
<2>3. CASE j' = j
  BY <2>1, <2>3 DEF Moves, JournalStays
<2>4. CASE j.status # "stopped" /\ CanStartTool(Mine) /\ j' = ToolStarted(Mine)
  BY <2>1, <2>2, <2>4 DEF Moves, JournalMoves
<2> QED BY <2>1, <2>3, <2>4
<1>28. CASE RunTool
  BY <1>28
     DEF RunTool, At, Disk, Hist, Env, JournalMoves, CallSettles, SlotMoves, Moves,
        JournalStays, BudgetMoves
<1>29. CASE FailTool
<2>1. Mine \in j.slots \/ j.status = "stopped"
  BY <1>29 DEF FailTool, At, PendingOK, ToolPending, Tooling
<2>2. count' = count /\ (j' = j \/ (j.status # "stopped" /\ j' = ToolFailed(Mine)))
  BY <1>29 DEF FailTool, Env, Mine
<2>3. CASE j' = j
  BY <2>2, <2>3 DEF Moves, JournalStays
<2>4. CASE j.status # "stopped" /\ j' = ToolFailed(Mine)
  BY <2>1, <2>2, <2>4, SlotsMove DEF SlotMoves
<2> QED BY <2>2, <2>3, <2>4
<1>30. CASE KeepResult
  BY <1>30
     DEF KeepResult, At, Disk, Hist, Env, JournalMoves, CallSettles, SlotMoves, Moves,
        JournalStays, BudgetMoves
<1>31. CASE PrepareReceipt
  BY <1>31
     DEF PrepareReceipt, At, Append, Disk, Hist, Env, JournalMoves, CallSettles, SlotMoves,
        Moves, JournalStays, BudgetMoves
<1>32. CASE CommitReceipt
<2>1. /\ count' = count
      /\ j' = j \/ (j.status # "stopped" /\ Mine \in j.slots /\ j' = ReceiptCommitted(Mine, w.val))
  BY <1>32 DEF CommitReceipt, Append, Env, Mine, JournalOK
<2>2. CASE j' = j
  BY <2>1, <2>2 DEF Moves, JournalStays
<2>3. CASE j.status # "stopped" /\ Mine \in j.slots /\ j' = ReceiptCommitted(Mine, w.val)
  BY <2>1, <2>3, SlotsMove DEF SlotMoves
<2> QED BY <2>1, <2>2, <2>3
<1>33. CASE Reduce
  BY <1>33
     DEF Reduce, AtNode, At, Honored, ToSettle, Disk, Hist, Env, JournalMoves, CallSettles,
        SlotMoves, Moves, JournalStays, BudgetMoves
<1>34. CASE GateVerdict
  BY <1>34
     DEF GateVerdict, At, Append, NoPending, Disk, Hist, Env, JournalMoves, CallSettles,
        SlotMoves, Moves, JournalStays, BudgetMoves
<1>35. CASE PersistReduction
  BY <1>35
     DEF PersistReduction, At, Disk, Hist, Env, JournalMoves, CallSettles, SlotMoves, Moves,
        JournalStays, BudgetMoves
<1>36. CASE KeepReduction
  BY <1>36
     DEF KeepReduction, At, Disk, Hist, Env, JournalMoves, CallSettles, SlotMoves, Moves,
        JournalStays, BudgetMoves
<1>37. CASE CommitReduction
  BY <1>37
     DEF CommitReduction, At, Append, NoPending, ToSettle, Disk, Hist, Env, JournalMoves,
        CallSettles, SlotMoves, Moves, JournalStays, BudgetMoves
<1>38. CASE Settle
<2>1. /\ count' = count
      /\ j' = j \/ /\ j.status # "stopped" /\ NoPending /\ j.open
                   /\ j' = RoundSettled(cp.red, Decision)
  BY <1>38 DEF Settle, Append, Env
<2>2. Decision \in Natural \cup {None}
  BY DecisionKind DEF Decision
<2>3. CASE j' = j
  BY <2>1, <2>3 DEF Moves, JournalStays
<2>4. CASE j.status # "stopped" /\ NoPending /\ j.open /\ j' = RoundSettled(cp.red, Decision)
  BY <2>1, <2>2, <2>4 DEF Moves, JournalMoves
<2> QED BY <2>1, <2>3, <2>4
<1>39. CASE AfterSettle
  BY <1>39
     DEF AfterSettle, At, Honored, Disk, Hist, Env, JournalMoves, CallSettles, SlotMoves,
        Moves, JournalStays, BudgetMoves
<1>40. CASE Synthesize
  BY <1>40
     DEF Synthesize, AtNode, At, Honored, Disk, Hist, Env, JournalMoves, CallSettles,
        SlotMoves, Moves, JournalStays, BudgetMoves
<1>41. CASE Stop
<2>1. count' = count /\ (j' = j \/ (j.status # "stopped" /\ j' = Stopped(w.reason, w.report)))
  BY <1>41 DEF Stop, Env, CanStop
<2> QED BY <2>1, StoppingMoves DEF Moves, JournalStays
<1>42. CASE HandlePause
  BY <1>42
     DEF HandlePause, At, NoPending, Finish, Escape, Disk, Hist, Env, JournalMoves,
        CallSettles, SlotMoves, Moves, JournalStays, BudgetMoves
<1>43. CASE HandleCancel
  BY <1>43
     DEF HandleCancel, At, Finish, Disk, Hist, Env, JournalMoves, CallSettles, SlotMoves,
        Moves, JournalStays, BudgetMoves
<1>44. CASE HandleStop
  BY <1>44
     DEF HandleStop, At, Disk, Hist, Env, JournalMoves, CallSettles, SlotMoves, Moves,
        JournalStays, BudgetMoves
<1>45. CASE Crash
  BY <1>45
     DEF Crash, Disk, Hist, Env, JournalMoves, CallSettles, SlotMoves, Moves, JournalStays,
        BudgetMoves
<1>46. CASE Rerun
  BY <1>46
     DEF Rerun, Disk, Hist, Env, JournalMoves, CallSettles, SlotMoves, Moves, JournalStays,
        BudgetMoves
<1>47. CASE Pause
  BY <1>47
     DEF Pause, Disk, Hist, Env, JournalMoves, CallSettles, SlotMoves, Moves, JournalStays,
        BudgetMoves
<1>48. CASE Resume
<2>1. /\ count' = count /\ j.status = "paused"
      /\ \/ j' = Stopped("state_witness_changed", FALSE)
         \/ j' = [j EXCEPT !.status = "running"]
  BY <1>48 DEF Resume
<2> QED BY <2>1, StoppingMoves, StatusMoves
<1>49. CASE Launch
<2>1. /\ count'.amends = count.amends
      /\ j' = j \/ (j.status # "stopped" /\ j' = Stopped("failed", FALSE))
  BY <1>49 DEF Launch, Shape
<2> QED BY <2>1 DEF Moves, JournalStays, JournalMoves
<1>50. CASE Cancel
  BY <1>50
     DEF Cancel, Disk, Hist, Env, JournalMoves, CallSettles, SlotMoves, Moves, JournalStays,
        BudgetMoves
<1>51. CASE CancelJob
  BY <1>51
     DEF CancelJob, Disk, Hist, Env, JournalMoves, CallSettles, SlotMoves, Moves,
        JournalStays, BudgetMoves
<1>52. CASE ExtendBudget
<2>1. count.amends < MaxEvents
  BY <1>52, BoundsAssumption DEF ExtendBudget, Room, Shape
<2> QED BY <1>52, <2>1 DEF ExtendBudget, Moves, BudgetMoves
<1>53. CASE ChangeData
  BY <1>53
     DEF ChangeData, Disk, Hist, Env, JournalMoves, CallSettles, SlotMoves, Moves,
        JournalStays, BudgetMoves
<1>54. CASE UNCHANGED vars
  BY <1>54
     DEF vars, JournalMoves, CallSettles, SlotMoves, Moves, JournalStays, BudgetMoves
<1> QED
  BY <1>1, <1>2, <1>3, <1>4, <1>5, <1>6, <1>7, <1>8, <1>9, <1>10, <1>11, <1>12, <1>13, <1>14,
     <1>15, <1>16, <1>17, <1>18, <1>19, <1>20, <1>21, <1>22, <1>23, <1>24, <1>25, <1>26,
     <1>27, <1>28, <1>29, <1>30, <1>31, <1>32, <1>33, <1>34, <1>35, <1>36, <1>37, <1>38,
     <1>39, <1>40, <1>41, <1>42, <1>43, <1>44, <1>45, <1>46, <1>47, <1>48, <1>49, <1>50,
     <1>51, <1>52, <1>53, <1>54
     DEF Next, Worker

\* The digests once a call is completed.
LEMMA CallCompletedDigests ==
    ASSUME DOMAIN j = JFields, NEW c, NEW d, j' = CallCompleted(c, d)
    PROVE  /\ DOMAIN j'.dig = DOMAIN j.dig \cup {c}
           /\ j'.dig[c] = d
           /\ \A s \in DOMAIN j.dig : s # c => j'.dig[s] = j.dig[s]
<1>1. j'.dig = Put(j.dig, c, d)
  BY CallCompletedFields
<1> QED BY <1>1 DEF Put

\* The digests once a receipt is committed.
LEMMA ReceiptCommittedDigests ==
    ASSUME DOMAIN j = JFields, NEW t, NEW d, j' = ReceiptCommitted(t, d)
    PROVE  /\ DOMAIN j'.dig = DOMAIN j.dig \cup {t}
           /\ j'.dig[t] = d
           /\ \A s \in DOMAIN j.dig : s # t => j'.dig[s] = j.dig[s]
<1>1. j'.dig = Put(j.dig, t, d)
  BY ReceiptCommittedFields
<1> QED BY <1>1 DEF Put

\* What the settling of a call leaves.
LEMMA SettlingKeepsCalls ==
    ASSUME DOMAIN j = JFields, NEW c, j' = CallUncertain(c) \/ \E d : j' = CallCompleted(c, d)
    PROVE  j.calls \cup j.unsure \cup DOMAIN j.dig \subseteq j'.calls \cup j'.unsure \cup DOMAIN j'.dig
<1>1. CASE j' = CallUncertain(c)
  BY <1>1, CallUncertainFields
<1>2. CASE \E d : j' = CallCompleted(c, d)
  BY <1>2, CallCompletedFields, CallCompletedDigests
<1> QED BY <1>1, <1>2

\* A move of a tool slot leaves the calls alone.
LEMMA SlotsKeepCalls ==
    ASSUME DOMAIN j = JFields, NEW t, SlotMoves(t)
    PROVE  /\ j'.calls = j.calls /\ j'.unsure = j.unsure /\ j'.status = j.status
           /\ DOMAIN j.dig \subseteq DOMAIN j'.dig
<1>1. CASE \E d : j' = ReceiptCommitted(t, d)
  BY <1>1, ReceiptCommittedFields, ReceiptCommittedDigests
<1>2. CASE j' = ReceiptPrepared(t)
  BY <1>2, ReceiptPreparedFields
<1>3. CASE j' = ToolFailed(t)
  BY <1>3, ToolFailedFields
<1> QED BY <1>1, <1>2, <1>3 DEF SlotMoves

\* The journal keeps its fields.
LEMMA MovesShape ==
    ASSUME DOMAIN j = JFields, Moves
    PROVE  DOMAIN j' = JFields
<1>1. CASE JournalStays
  BY <1>1 DEF JournalStays
<1>2. CASE BudgetMoves
  BY <1>2, BudgetFields DEF BudgetMoves
<1>3. CASE JournalMoves
  <2>0. count'.amends = count.amends /\ j.status # "stopped"
    BY <1>3 DEF JournalMoves
  <2>1. CASE \E s \in {"running", "pause_requested", "paused"} : j' = [j EXCEPT !.status = s]
    BY <2>0, <2>1, StatusFields
  <2>2. CASE CanStartRound /\ j' = RoundStarted
    BY <2>0, <2>2, RoundStartedFields
       DEF CanStartRound, NoPending
  <2>3. CASE \E c \in Calls : /\ CanStartCall(c) /\ c \notin j.unsure /\ ~Done(c)
                              /\ j' = CallStarted(c)
    BY <2>0, <2>3, CallStartedFields
       DEF CanStartCall, Done
  <2>4. CASE \E c \in j.calls : \E d : j' = CallCompleted(c, d)
    BY <2>0, <2>4, CallCompletedFields
  <2>5. CASE \E c \in j.calls : j' = CallRejected(c)
    BY <2>0, <2>5, CallRejectedFields
  <2>6. CASE \E c \in j.calls : j' = CallUncertain(c)
    BY <2>0, <2>6, CallUncertainFields
  <2>7. CASE \E t \in Tools : CanStartTool(t) /\ j' = ToolStarted(t)
    BY <2>0, <2>7, ToolStartedFields
       DEF CanStartTool, Done
  <2>8. CASE \E t \in j.slots : j' = ReceiptPrepared(t)
    BY <2>0, <2>8, ReceiptPreparedFields
  <2>9. CASE \E t \in j.slots : \E d : j' = ReceiptCommitted(t, d)
    BY <2>0, <2>9, ReceiptCommittedFields
  <2>10. CASE \E t \in j.slots : j' = ToolFailed(t)
    BY <2>0, <2>10, ToolFailedFields
  <2>11. CASE \E g : j' = [j EXCEPT !.gated = g]
    BY <2>0, <2>11, GatedFields
  <2>12. CASE \E o : NoPending /\ j.open /\ j' = ReductionCommitted(o)
    BY <2>0, <2>12, ReductionCommittedFields
       DEF NoPending
  <2>13. CASE \E o : \E why \in Natural \cup {None} :
                 NoPending /\ j.open /\ j' = RoundSettled(o, why)
    BY <2>0, <2>13, RoundSettledFields
       DEF NoPending
  <2>14. CASE \E why, r : j' = Stopped(why, r)
    BY <2>0, <2>14, StoppedFields
  <2> QED BY <1>3, <2>1, <2>2, <2>3, <2>4, <2>5, <2>6, <2>7, <2>8, <2>9, <2>10, <2>11, <2>12,
             <2>13, <2>14
         DEF JournalMoves, CallSettles, SlotMoves
<1> QED BY <1>1, <1>2, <1>3 DEF Moves

\* A move keeps the journal consistent.
LEMMA MovesJournal ==
    ASSUME Shape, JournalOK, Moves
    PROVE  JournalOK'
<1>1. CASE JournalStays
  BY <1>1 DEF JournalStays, Shape, JournalOK, Natural
<1>2. CASE BudgetMoves
  BY <1>2, BudgetFields DEF BudgetMoves, Shape, JournalOK, Natural
<1>3. CASE JournalMoves
  <2>0. count'.amends = count.amends /\ j.status # "stopped"
    BY <1>3 DEF JournalMoves
  <2>1. CASE \E s \in {"running", "pause_requested", "paused"} : j' = [j EXCEPT !.status = s]
    BY <2>0, <2>1, StatusFields
       DEF Shape, JournalOK, Natural
  <2>2. CASE CanStartRound /\ j' = RoundStarted
    <3>2. j'.status \in {"running", "pause_requested", "paused", "stopped"} /\ j'.term \in Natural \cup {None}
      BY <2>0, <2>2, RoundStartedFields DEF Shape, JournalOK, CanStartRound, NoPending
    <3>3. j'.settled \in Nat /\ j'.rounds \in Nat
      BY <2>0, <2>2, RoundStartedFields DEF Shape, JournalOK, CanStartRound, NoPending
    <3>4. j'.calls \subseteq Calls /\ j'.unsure \subseteq Calls /\ j'.slots \subseteq Tools /\ j'.prep \subseteq j'.slots
      BY <2>0, <2>2, RoundStartedFields DEF Shape, JournalOK, CanStartRound, NoPending
    <3>5. DOMAIN j'.dig \subseteq Calls \cup Tools
      BY <2>0, <2>2, RoundStartedFields DEF Shape, JournalOK, CanStartRound, NoPending
    <3>6. j'.calls \cap (j'.unsure \cup DOMAIN j'.dig) = {}
      BY <2>0, <2>2, RoundStartedFields DEF Shape, JournalOK, CanStartRound, NoPending
    <3>7. j'.slots \cap DOMAIN j'.dig = {}
      BY <2>0, <2>2, RoundStartedFields DEF Shape, JournalOK, CanStartRound, NoPending
    <3>8. j'.status = "stopped" => j'.calls = {} /\ j'.slots = {} /\ j'.term = None
      BY <2>0, <2>2, RoundStartedFields DEF Shape, JournalOK, CanStartRound, NoPending
    <3>9. (j'.committed => j'.open) /\ (j'.term # None => ~j'.open)
      BY <2>0, <2>2, RoundStartedFields DEF Shape, JournalOK, CanStartRound, NoPending
    <3> QED BY <3>2, <3>3, <3>4, <3>5, <3>6, <3>7, <3>8, <3>9 DEF JournalOK
  <2>3. CASE \E c \in Calls : /\ CanStartCall(c) /\ c \notin j.unsure /\ ~Done(c)
                              /\ j' = CallStarted(c)
    BY <2>0, <2>3, CallStartedFields
       DEF CanStartCall, Done, Shape, JournalOK, Natural
  <2>4. CASE \E c \in j.calls : \E d : j' = CallCompleted(c, d)
    <3>1. PICK c, d : c \in j.calls /\ j' = CallCompleted(c, d)
      BY <2>4
    <3>0. DOMAIN j'.dig = DOMAIN j.dig \cup {c}
      <4>1. j'.dig = Put(j.dig, c, d)
        BY <3>1, CallCompletedFields DEF Shape
      <4> QED BY <4>1 DEF Put
    <3>2. j'.status \in {"running", "pause_requested", "paused", "stopped"} /\ j'.term \in Natural \cup {None}
      BY <2>0, <3>1, <3>0, CallCompletedFields, ToolsAreNoCalls DEF Shape, JournalOK
    <3>3. j'.settled \in Nat /\ j'.rounds \in Nat
      BY <2>0, <3>1, <3>0, CallCompletedFields, ToolsAreNoCalls DEF Shape, JournalOK
    <3>4. j'.calls \subseteq Calls /\ j'.unsure \subseteq Calls /\ j'.slots \subseteq Tools /\ j'.prep \subseteq j'.slots
      BY <2>0, <3>1, <3>0, CallCompletedFields, ToolsAreNoCalls DEF Shape, JournalOK
    <3>5. DOMAIN j'.dig \subseteq Calls \cup Tools
      BY <2>0, <3>1, <3>0, CallCompletedFields, ToolsAreNoCalls DEF Shape, JournalOK
    <3>6. j'.calls \cap (j'.unsure \cup DOMAIN j'.dig) = {}
      BY <2>0, <3>1, <3>0, CallCompletedFields, ToolsAreNoCalls DEF Shape, JournalOK
    <3>7. j'.slots \cap DOMAIN j'.dig = {}
      BY <2>0, <3>1, <3>0, CallCompletedFields, ToolsAreNoCalls DEF Shape, JournalOK
    <3>8. j'.status = "stopped" => j'.calls = {} /\ j'.slots = {} /\ j'.term = None
      BY <2>0, <3>1, <3>0, CallCompletedFields, ToolsAreNoCalls DEF Shape, JournalOK
    <3>9. (j'.committed => j'.open) /\ (j'.term # None => ~j'.open)
      BY <2>0, <3>1, <3>0, CallCompletedFields, ToolsAreNoCalls DEF Shape, JournalOK
    <3> QED BY <3>2, <3>3, <3>4, <3>5, <3>6, <3>7, <3>8, <3>9 DEF JournalOK
  <2>5. CASE \E c \in j.calls : j' = CallRejected(c)
    BY <2>0, <2>5, CallRejectedFields
       DEF Shape, JournalOK, Natural
  <2>6. CASE \E c \in j.calls : j' = CallUncertain(c)
    BY <2>0, <2>6, CallUncertainFields
       DEF Shape, JournalOK, Natural
  <2>7. CASE \E t \in Tools : CanStartTool(t) /\ j' = ToolStarted(t)
    BY <2>0, <2>7, ToolStartedFields
       DEF CanStartTool, Done, Shape, JournalOK, Natural
  <2>8. CASE \E t \in j.slots : j' = ReceiptPrepared(t)
    BY <2>0, <2>8, ReceiptPreparedFields
       DEF Shape, JournalOK, Natural
  <2>9. CASE \E t \in j.slots : \E d : j' = ReceiptCommitted(t, d)
    <3>1. PICK t, d : t \in j.slots /\ j' = ReceiptCommitted(t, d)
      BY <2>9
    <3>0. DOMAIN j'.dig = DOMAIN j.dig \cup {t}
      <4>1. j'.dig = Put(j.dig, t, d)
        BY <3>1, ReceiptCommittedFields DEF Shape
      <4> QED BY <4>1 DEF Put
    <3>2. j'.status \in {"running", "pause_requested", "paused", "stopped"} /\ j'.term \in Natural \cup {None}
      BY <2>0, <3>1, <3>0, ReceiptCommittedFields, ToolsAreNoCalls DEF Shape, JournalOK
    <3>3. j'.settled \in Nat /\ j'.rounds \in Nat
      BY <2>0, <3>1, <3>0, ReceiptCommittedFields, ToolsAreNoCalls DEF Shape, JournalOK
    <3>4. j'.calls \subseteq Calls /\ j'.unsure \subseteq Calls /\ j'.slots \subseteq Tools /\ j'.prep \subseteq j'.slots
      BY <2>0, <3>1, <3>0, ReceiptCommittedFields, ToolsAreNoCalls DEF Shape, JournalOK
    <3>5. DOMAIN j'.dig \subseteq Calls \cup Tools
      BY <2>0, <3>1, <3>0, ReceiptCommittedFields, ToolsAreNoCalls DEF Shape, JournalOK
    <3>6. j'.calls \cap (j'.unsure \cup DOMAIN j'.dig) = {}
      BY <2>0, <3>1, <3>0, ReceiptCommittedFields, ToolsAreNoCalls DEF Shape, JournalOK
    <3>7. j'.slots \cap DOMAIN j'.dig = {}
      BY <2>0, <3>1, <3>0, ReceiptCommittedFields, ToolsAreNoCalls DEF Shape, JournalOK
    <3>8. j'.status = "stopped" => j'.calls = {} /\ j'.slots = {} /\ j'.term = None
      BY <2>0, <3>1, <3>0, ReceiptCommittedFields, ToolsAreNoCalls DEF Shape, JournalOK
    <3>9. (j'.committed => j'.open) /\ (j'.term # None => ~j'.open)
      BY <2>0, <3>1, <3>0, ReceiptCommittedFields, ToolsAreNoCalls DEF Shape, JournalOK
    <3> QED BY <3>2, <3>3, <3>4, <3>5, <3>6, <3>7, <3>8, <3>9 DEF JournalOK
  <2>10. CASE \E t \in j.slots : j' = ToolFailed(t)
    BY <2>0, <2>10, ToolFailedFields
       DEF Shape, JournalOK, Natural
  <2>11. CASE \E g : j' = [j EXCEPT !.gated = g]
    BY <2>0, <2>11, GatedFields
       DEF Shape, JournalOK, Natural
  <2>12. CASE \E o : NoPending /\ j.open /\ j' = ReductionCommitted(o)
    BY <2>0, <2>12, ReductionCommittedFields
       DEF NoPending, Shape, JournalOK, Natural
  <2>13. CASE \E o : \E why \in Natural \cup {None} :
                 NoPending /\ j.open /\ j' = RoundSettled(o, why)
    <3>1. PICK o,
                     why : why \in Natural \cup {None} /\ NoPending /\ j.open /\ j' = RoundSettled(o, why)
      BY <2>13
    <3>2. j'.status \in {"running", "pause_requested", "paused", "stopped"} /\ j'.term \in Natural \cup {None}
      BY <2>0, <3>1, RoundSettledFields DEF Shape, JournalOK, NoPending
    <3>3. j'.settled \in Nat /\ j'.rounds \in Nat
      BY <2>0, <3>1, RoundSettledFields DEF Shape, JournalOK, NoPending
    <3>4. j'.calls \subseteq Calls /\ j'.unsure \subseteq Calls /\ j'.slots \subseteq Tools /\ j'.prep \subseteq j'.slots
      BY <2>0, <3>1, RoundSettledFields DEF Shape, JournalOK, NoPending
    <3>5. DOMAIN j'.dig \subseteq Calls \cup Tools
      BY <2>0, <3>1, RoundSettledFields DEF Shape, JournalOK, NoPending
    <3>6. j'.calls \cap (j'.unsure \cup DOMAIN j'.dig) = {}
      BY <2>0, <3>1, RoundSettledFields DEF Shape, JournalOK, NoPending
    <3>7. j'.slots \cap DOMAIN j'.dig = {}
      BY <2>0, <3>1, RoundSettledFields DEF Shape, JournalOK, NoPending
    <3>8. j'.status = "stopped" => j'.calls = {} /\ j'.slots = {} /\ j'.term = None
      BY <2>0, <3>1, RoundSettledFields DEF Shape, JournalOK, NoPending
    <3>9. (j'.committed => j'.open) /\ (j'.term # None => ~j'.open)
      BY <2>0, <3>1, RoundSettledFields DEF Shape, JournalOK, NoPending
    <3> QED BY <3>2, <3>3, <3>4, <3>5, <3>6, <3>7, <3>8, <3>9 DEF JournalOK
  <2>14. CASE \E why, r : j' = Stopped(why, r)
    BY <2>0, <2>14, StoppedFields
       DEF Shape, JournalOK, Natural
  <2> QED BY <1>3, <2>1, <2>2, <2>3, <2>4, <2>5, <2>6, <2>7, <2>8, <2>9, <2>10, <2>11, <2>12,
             <2>13, <2>14
         DEF JournalMoves, CallSettles, SlotMoves
<1> QED BY <1>1, <1>2, <1>3 DEF Moves

\* The rounds left, settled and open add up.
LEMMA MovesRounds ==
    ASSUME Shape, JournalOK, RoundsOK, Moves
    PROVE  RoundsOK'
<1>1. CASE JournalStays
  BY <1>1, BoundsAssumption DEF JournalStays, Shape, JournalOK, RoundsOK
<1>2. CASE BudgetMoves
  BY <1>2, BudgetFields, BoundsAssumption DEF BudgetMoves, Shape, JournalOK, RoundsOK
<1>3. CASE JournalMoves
  <2>0. count'.amends = count.amends /\ j.status # "stopped"
    BY <1>3 DEF JournalMoves
  <2>1. CASE \E s \in {"running", "pause_requested", "paused"} : j' = [j EXCEPT !.status = s]
    BY <2>0, <2>1, StatusFields, BoundsAssumption
       DEF Shape, JournalOK, RoundsOK
  <2>2. CASE CanStartRound /\ j' = RoundStarted
    BY <2>0, <2>2, RoundStartedFields, BoundsAssumption
       DEF CanStartRound, NoPending, Shape, JournalOK, RoundsOK
  <2>3. CASE \E c \in Calls : /\ CanStartCall(c) /\ c \notin j.unsure /\ ~Done(c)
                              /\ j' = CallStarted(c)
    BY <2>0, <2>3, CallStartedFields, BoundsAssumption
       DEF CanStartCall, Done, Shape, JournalOK, RoundsOK
  <2>4. CASE \E c \in j.calls : \E d : j' = CallCompleted(c, d)
    BY <2>0, <2>4, CallCompletedFields, BoundsAssumption
       DEF Shape, JournalOK, RoundsOK
  <2>5. CASE \E c \in j.calls : j' = CallRejected(c)
    BY <2>0, <2>5, CallRejectedFields, BoundsAssumption
       DEF Shape, JournalOK, RoundsOK
  <2>6. CASE \E c \in j.calls : j' = CallUncertain(c)
    BY <2>0, <2>6, CallUncertainFields, BoundsAssumption
       DEF Shape, JournalOK, RoundsOK
  <2>7. CASE \E t \in Tools : CanStartTool(t) /\ j' = ToolStarted(t)
    BY <2>0, <2>7, ToolStartedFields, BoundsAssumption
       DEF CanStartTool, Done, Shape, JournalOK, RoundsOK
  <2>8. CASE \E t \in j.slots : j' = ReceiptPrepared(t)
    BY <2>0, <2>8, ReceiptPreparedFields, BoundsAssumption
       DEF Shape, JournalOK, RoundsOK
  <2>9. CASE \E t \in j.slots : \E d : j' = ReceiptCommitted(t, d)
    BY <2>0, <2>9, ReceiptCommittedFields, BoundsAssumption
       DEF Shape, JournalOK, RoundsOK
  <2>10. CASE \E t \in j.slots : j' = ToolFailed(t)
    BY <2>0, <2>10, ToolFailedFields, BoundsAssumption
       DEF Shape, JournalOK, RoundsOK
  <2>11. CASE \E g : j' = [j EXCEPT !.gated = g]
    BY <2>0, <2>11, GatedFields, BoundsAssumption
       DEF Shape, JournalOK, RoundsOK
  <2>12. CASE \E o : NoPending /\ j.open /\ j' = ReductionCommitted(o)
    BY <2>0, <2>12, ReductionCommittedFields, BoundsAssumption
       DEF NoPending, Shape, JournalOK, RoundsOK
  <2>13. CASE \E o : \E why \in Natural \cup {None} :
                 NoPending /\ j.open /\ j' = RoundSettled(o, why)
    BY <2>0, <2>13, RoundSettledFields, BoundsAssumption
       DEF NoPending, Shape, JournalOK, RoundsOK
  <2>14. CASE \E why, r : j' = Stopped(why, r)
    BY <2>0, <2>14, StoppedFields, BoundsAssumption
       DEF Shape, JournalOK, RoundsOK
  <2> QED BY <1>3, <2>1, <2>2, <2>3, <2>4, <2>5, <2>6, <2>7, <2>8, <2>9, <2>10, <2>11, <2>12,
             <2>13, <2>14
         DEF JournalMoves, CallSettles, SlotMoves
<1> QED BY <1>1, <1>2, <1>3 DEF Moves

\* Every call pending can still be charged.
LEMMA MovesLlm ==
    ASSUME Shape, LlmOK, Moves
    PROVE  LlmOK'
<1>1. CASE JournalStays
  BY <1>1 DEF JournalStays, Shape, LlmOK
<1>2. CASE BudgetMoves
  BY <1>2, BudgetFields DEF BudgetMoves, Shape, LlmOK
<1>3. CASE JournalMoves
  <2>0. count'.amends = count.amends /\ j.status # "stopped"
    BY <1>3 DEF JournalMoves
  <2>1. CASE \E s \in {"running", "pause_requested", "paused"} : j' = [j EXCEPT !.status = s]
    BY <2>0, <2>1, StatusFields
       DEF Shape, LlmOK
  <2>2. CASE CanStartRound /\ j' = RoundStarted
    BY <2>0, <2>2, RoundStartedFields
       DEF CanStartRound, NoPending, Shape, LlmOK
  <2>3. CASE \E c \in Calls : /\ CanStartCall(c) /\ c \notin j.unsure /\ ~Done(c)
                              /\ j' = CallStarted(c)
    <3>1. PICK c \in Calls : CanStartCall(c) /\ j' = CallStarted(c)
      BY <2>3
    <3>2. j'.calls = j.calls \cup {c} /\ j'.llm = j.llm
      BY <3>1, CallStartedFields DEF Shape
    <3>3. c \notin j.calls /\ j.llm - Cardinality(j.calls) > 0
      BY <3>1 DEF CanStartCall
    <3>4. Cardinality(j'.calls) = Cardinality(j.calls) + 1 /\ IsFiniteSet(j'.calls)
      BY <3>2, <3>3, FS_AddElement DEF LlmOK
    <3>5. Cardinality(j.calls) \in Nat
      BY FS_CardinalityType DEF LlmOK
    <3> QED BY <3>2, <3>3, <3>4, <3>5 DEF LlmOK
  <2>4. CASE \E c \in j.calls : \E d : j' = CallCompleted(c, d)
    <3>1. PICK c, d : c \in j.calls /\ j' = CallCompleted(c, d)
      BY <2>4
    <3>2. j'.calls = j.calls \ {c} /\ j'.llm = j.llm - 1 /\ c \in j.calls
      BY <3>1, CallCompletedFields DEF Shape
    <3>3. Cardinality(j'.calls) = Cardinality(j.calls) - 1 /\ IsFiniteSet(j'.calls)
      BY <3>2, FS_RemoveElement, SMTT(60) DEF LlmOK
    <3>4. Cardinality(j'.calls) \in Nat /\ Cardinality(j.calls) \in Nat
      BY <3>3, FS_CardinalityType DEF LlmOK
    <3> QED BY <3>2, <3>3, <3>4 DEF LlmOK
  <2>5. CASE \E c \in j.calls : j' = CallRejected(c)
    <3>1. PICK c \in j.calls : j' = CallRejected(c)
      BY <2>5
    <3>2. j'.calls = j.calls \ {c} /\ j'.llm = j.llm - 1 /\ c \in j.calls
      BY <3>1, CallRejectedFields DEF Shape
    <3>3. Cardinality(j'.calls) = Cardinality(j.calls) - 1 /\ IsFiniteSet(j'.calls)
      BY <3>2, FS_RemoveElement, SMTT(60) DEF LlmOK
    <3>4. Cardinality(j'.calls) \in Nat /\ Cardinality(j.calls) \in Nat
      BY <3>3, FS_CardinalityType DEF LlmOK
    <3> QED BY <3>2, <3>3, <3>4 DEF LlmOK
  <2>6. CASE \E c \in j.calls : j' = CallUncertain(c)
    <3>1. PICK c \in j.calls : j' = CallUncertain(c)
      BY <2>6
    <3>2. j'.calls = j.calls \ {c} /\ j'.llm = j.llm - 1 /\ c \in j.calls
      BY <3>1, CallUncertainFields DEF Shape
    <3>3. Cardinality(j'.calls) = Cardinality(j.calls) - 1 /\ IsFiniteSet(j'.calls)
      BY <3>2, FS_RemoveElement DEF LlmOK
    <3>4. Cardinality(j'.calls) \in Nat /\ Cardinality(j.calls) \in Nat
      BY <3>3, FS_CardinalityType DEF LlmOK
    <3> QED BY <3>2, <3>3, <3>4 DEF LlmOK
  <2>7. CASE \E t \in Tools : CanStartTool(t) /\ j' = ToolStarted(t)
    BY <2>0, <2>7, ToolStartedFields
       DEF CanStartTool, Done, Shape, LlmOK
  <2>8. CASE \E t \in j.slots : j' = ReceiptPrepared(t)
    BY <2>0, <2>8, ReceiptPreparedFields
       DEF Shape, LlmOK
  <2>9. CASE \E t \in j.slots : \E d : j' = ReceiptCommitted(t, d)
    BY <2>0, <2>9, ReceiptCommittedFields
       DEF Shape, LlmOK
  <2>10. CASE \E t \in j.slots : j' = ToolFailed(t)
    BY <2>0, <2>10, ToolFailedFields
       DEF Shape, LlmOK
  <2>11. CASE \E g : j' = [j EXCEPT !.gated = g]
    BY <2>0, <2>11, GatedFields
       DEF Shape, LlmOK
  <2>12. CASE \E o : NoPending /\ j.open /\ j' = ReductionCommitted(o)
    BY <2>0, <2>12, ReductionCommittedFields
       DEF NoPending, Shape, LlmOK
  <2>13. CASE \E o : \E why \in Natural \cup {None} :
                 NoPending /\ j.open /\ j' = RoundSettled(o, why)
    BY <2>0, <2>13, RoundSettledFields
       DEF NoPending, Shape, LlmOK
  <2>14. CASE \E why, r : j' = Stopped(why, r)
    <3>1. j'.calls = {} /\ j'.llm = j.llm - Cardinality(j.calls)
      BY <2>14, StoppedFields DEF Shape
    <3>2. Cardinality(j'.calls) = 0 /\ IsFiniteSet(j'.calls)
      BY <3>1, FS_EmptySet
    <3>3. Cardinality(j.calls) \in Nat
      BY FS_CardinalityType DEF LlmOK
    <3> QED BY <3>1, <3>2, <3>3 DEF LlmOK
  <2> QED BY <1>3, <2>1, <2>2, <2>3, <2>4, <2>5, <2>6, <2>7, <2>8, <2>9, <2>10, <2>11, <2>12,
             <2>13, <2>14
         DEF JournalMoves, CallSettles, SlotMoves
<1> QED BY <1>1, <1>2, <1>3 DEF Moves

\* Every receipt is charged once.
LEMMA MovesTools ==
    ASSUME Shape, JournalOK, ToolsOK, Moves
    PROVE  ToolsOK'
<1>1. CASE JournalStays
  BY <1>1 DEF JournalStays, Shape, ToolsOK, Receipts
<1>2. CASE BudgetMoves
  <2>1. j'.tools = j.tools + 1 /\ j'.slots = j.slots /\ j'.dig = j.dig
    BY <1>2, BudgetFields DEF BudgetMoves, Shape
  <2>2. count'.amends = count.amends + 1 /\ count.amends \in Nat
    BY <1>2 DEF BudgetMoves, Shape
  <2>3. Cardinality(j.slots) \in Nat /\ Cardinality(Receipts) \in Nat
    BY FS_CardinalityType DEF ToolsOK
  <2> QED BY <2>1, <2>2, <2>3, BoundsAssumption DEF ToolsOK, Receipts
<1>3. CASE JournalMoves
  <2>0. count'.amends = count.amends /\ j.status # "stopped"
    BY <1>3 DEF JournalMoves
  <2>1. CASE \E s \in {"running", "pause_requested", "paused"} : j' = [j EXCEPT !.status = s]
    BY <2>0, <2>1, StatusFields
       DEF Shape, ToolsOK, Receipts
  <2>2. CASE CanStartRound /\ j' = RoundStarted
    BY <2>0, <2>2, RoundStartedFields
       DEF CanStartRound, NoPending, Shape, ToolsOK, Receipts
  <2>3. CASE \E c \in Calls : /\ CanStartCall(c) /\ c \notin j.unsure /\ ~Done(c)
                              /\ j' = CallStarted(c)
    BY <2>0, <2>3, CallStartedFields
       DEF CanStartCall, Done, Shape, ToolsOK, Receipts
  <2>4. CASE \E c \in j.calls : \E d : j' = CallCompleted(c, d)
    <3>1. PICK c, d : c \in j.calls /\ j' = CallCompleted(c, d)
      BY <2>4
    <3>2. j'.slots = j.slots /\ j'.tools = j.tools /\ j'.dig = Put(j.dig, c, d)
      BY <3>1, CallCompletedFields DEF Shape
    <3>3. c[1] # "tool"
      BY <3>1 DEF JournalOK, Calls, Gen, Ask
    <3>4. Receipts' = Receipts
      BY <3>2, <3>3 DEF Receipts, Put
    <3> QED BY <2>0, <3>2, <3>4 DEF ToolsOK
  <2>5. CASE \E c \in j.calls : j' = CallRejected(c)
    BY <2>0, <2>5, CallRejectedFields
       DEF Shape, ToolsOK, Receipts
  <2>6. CASE \E c \in j.calls : j' = CallUncertain(c)
    BY <2>0, <2>6, CallUncertainFields
       DEF Shape, ToolsOK, Receipts
  <2>7. CASE \E t \in Tools : CanStartTool(t) /\ j' = ToolStarted(t)
    <3>1. PICK t \in Tools : CanStartTool(t) /\ j' = ToolStarted(t)
      BY <2>7
    <3>2. j'.slots = j.slots \cup {t} /\ j'.tools = j.tools /\ j'.dig = j.dig
      BY <3>1, ToolStartedFields DEF Shape
    <3>3. t \notin j.slots /\ j.tools - Cardinality(j.slots) > 0
      BY <3>1 DEF CanStartTool
    <3>4. Cardinality(j'.slots) = Cardinality(j.slots) + 1 /\ IsFiniteSet(j'.slots)
      BY <3>2, <3>3, FS_AddElement DEF ToolsOK
    <3>5. Cardinality(j.slots) \in Nat
      BY FS_CardinalityType DEF ToolsOK
    <3> QED BY <2>0, <3>2, <3>3, <3>4, <3>5 DEF ToolsOK, Receipts
  <2>8. CASE \E t \in j.slots : j' = ReceiptPrepared(t)
    BY <2>0, <2>8, ReceiptPreparedFields
       DEF Shape, ToolsOK, Receipts
  <2>9. CASE \E t \in j.slots : \E d : j' = ReceiptCommitted(t, d)
    <3>1. PICK t, d : t \in j.slots /\ j' = ReceiptCommitted(t, d)
      BY <2>9
    <3>2. j'.slots = j.slots \ {t} /\ j'.tools = j.tools - 1 /\ j'.dig = Put(j.dig, t, d)
      BY <3>1, ReceiptCommittedFields DEF Shape
    <3>3. Cardinality(j'.slots) = Cardinality(j.slots) - 1 /\ IsFiniteSet(j'.slots)
      BY <3>1, <3>2, FS_RemoveElement DEF ToolsOK
    <3>4. Cardinality(j.slots) \in Nat /\ Cardinality(j'.slots) \in Nat /\ Cardinality(Receipts) \in Nat
      BY <3>3, FS_CardinalityType DEF ToolsOK
    <3>5. t[1] = "tool" /\ t \notin DOMAIN j.dig
      BY <3>1 DEF JournalOK, Tools, Tool
    <3>6. Receipts' = Receipts \cup {t} /\ t \notin Receipts
      BY <3>2, <3>5 DEF Receipts, Put
    <3>7. Cardinality(Receipts') = Cardinality(Receipts) + 1 /\ IsFiniteSet(Receipts')
      BY <3>6, FS_AddElement DEF ToolsOK
    <3> QED BY <2>0, <3>2, <3>3, <3>4, <3>7, BoundsAssumption DEF ToolsOK, Shape
  <2>10. CASE \E t \in j.slots : j' = ToolFailed(t)
    <3>1. PICK t \in j.slots : j' = ToolFailed(t)
      BY <2>10
    <3>2. j'.slots = j.slots \ {t} /\ j'.tools = j.tools /\ j'.dig = j.dig
      BY <3>1, ToolFailedFields DEF Shape
    <3>3. Cardinality(j'.slots) = Cardinality(j.slots) - 1 /\ IsFiniteSet(j'.slots)
      BY <3>1, <3>2, FS_RemoveElement DEF ToolsOK
    <3>4. Cardinality(j.slots) \in Nat
      BY FS_CardinalityType DEF ToolsOK
    <3> QED BY <2>0, <3>2, <3>3, <3>4 DEF ToolsOK, Receipts
  <2>11. CASE \E g : j' = [j EXCEPT !.gated = g]
    BY <2>0, <2>11, GatedFields
       DEF Shape, ToolsOK, Receipts
  <2>12. CASE \E o : NoPending /\ j.open /\ j' = ReductionCommitted(o)
    BY <2>0, <2>12, ReductionCommittedFields
       DEF NoPending, Shape, ToolsOK, Receipts
  <2>13. CASE \E o : \E why \in Natural \cup {None} :
                 NoPending /\ j.open /\ j' = RoundSettled(o, why)
    BY <2>0, <2>13, RoundSettledFields
       DEF NoPending, Shape, ToolsOK, Receipts
  <2>14. CASE \E why, r : j' = Stopped(why, r)
    <3>1. j'.slots = {} /\ j'.tools = j.tools /\ j'.dig = j.dig
      BY <2>14, StoppedFields DEF Shape
    <3>2. Cardinality(j'.slots) = 0 /\ IsFiniteSet(j'.slots)
      BY <3>1, FS_EmptySet, SMTT(60)
    <3> QED BY <2>0, <3>1, <3>2 DEF ToolsOK, Receipts
  <2> QED BY <1>3, <2>1, <2>2, <2>3, <2>4, <2>5, <2>6, <2>7, <2>8, <2>9, <2>10, <2>11, <2>12,
             <2>13, <2>14
         DEF JournalMoves, CallSettles, SlotMoves
<1> QED BY <1>1, <1>2, <1>3 DEF Moves

\* The shape of everything but the journal.
LEMMA RestShapeStep ==
    ASSUME Shape, NextOK, [Next]_vars
    PROVE  /\ DOMAIN w' = WFields /\ DOMAIN cp' = CFields /\ DOMAIN wf' = {"sched", "out"}
           /\ count' \in [pauses : Nat, crashes : Nat, amends : Nat, reqs : Nat]
           /\ changed' \in BOOLEAN /\ sent' \in [Calls -> Nat]
           /\ DOMAIN probe' = Rounds \X (1 .. NProbes)
<1>1. CASE ClaimFlat
  BY <1>1, FreshWorker
     DEF ClaimFlat, Shape, NextOK, CkptOK, CkptFits
<1>2. CASE VerifyFlat
  BY <1>2, GotoWorker, OffWorker, RecoverWorker
     DEF VerifyFlat, Shape, NextOK, CkptOK, CkptFits
<1>3. CASE RecoverCallFlat
  BY <1>3, OffWorker, SettleRestWorker
     DEF RecoverCallFlat, Shape, NextOK, CkptOK, CkptFits
<1>4. CASE RecoverToolFlat
  BY <1>4, OffWorker, SettleRestWorker
     DEF RecoverToolFlat, Shape, NextOK, CkptOK, CkptFits
<1>5. CASE RecoveredFlat
  BY <1>5, EnterWorker
     DEF RecoveredFlat, Shape, NextOK, CkptOK, CkptFits
<1>6. CASE EnterFlat
  BY <1>6, GotoWorker, FreshWorker
     DEF EnterFlat, Shape, NextOK, CkptOK, CkptFits
<1>7. CASE WriteCheckpointFlat
  BY <1>7, NodeWorker
     DEF WriteCheckpointFlat, Shape, NextOK, CkptOK, CkptFits
<1>8. CASE EndAttemptFlat
  BY <1>8, OffWorker
     DEF EndAttemptFlat, Shape, NextOK, CkptOK, CkptFits
<1>9. CASE OrientFlat
  BY <1>9, GotoWorker, RaiseWorker, CheckpointWorker
     DEF OrientFlat, Shape, NextOK, CkptOK, CkptFits
<1>10. CASE OpenRoundFlat
  BY <1>10, RaiseWorker, CheckpointWorker
     DEF OpenRoundFlat, Shape, NextOK, CkptOK, CkptFits
<1>11. CASE GenerateFlat
  BY <1>11, RaiseWorker, CheckpointWorker, StartWorker
     DEF GenerateFlat, Shape, NextOK, CkptOK, CkptFits
<1>12. CASE StartCallFlat
  BY <1>12, GotoWorker, RaiseWorker
     DEF StartCallFlat, Shape, NextOK, CkptOK, CkptFits
<1>13. CASE SendFlat
  <2>1. sent' \in [Calls -> Nat]
    <3>1. sent' = [sent EXCEPT ![Call] = sent[Call] + 1] /\ sent \in [Calls -> Nat]
      BY <1>13 DEF SendFlat, Shape
    <3>2. CASE Call \in Calls
      <4>1. sent[Call] + 1 \in Nat
        BY <3>1, <3>2
      <4> QED BY ONLY <3>1, <4>1
    <3>3. CASE Call \notin Calls
      BY ONLY <3>1, <3>3
    <3> QED BY <3>2, <3>3
  <2>2. count' \in [pauses : Nat, crashes : Nat, amends : Nat, reqs : Nat]
    BY <1>13 DEF SendFlat, Shape
  <2> QED BY <1>13, <2>1, <2>2, GotoWorker DEF SendFlat, Shape
<1>14. CASE SendRefusedFlat
  BY <1>14, RaiseWorker, ProbeLoopWorker
     DEF SendRefusedFlat, Shape, NextOK, CkptOK, CkptFits
<1>15. CASE AnsweredFlat
  BY <1>15, KeepWorker
     DEF AnsweredFlat, Shape, NextOK, CkptOK, CkptFits
<1>16. CASE AnswerUnknownFlat
  BY <1>16, RaiseWorker, ProbeLoopWorker
     DEF AnswerUnknownFlat, Shape, NextOK, CkptOK, CkptFits
<1>17. CASE AnswerMalformedFlat
  BY <1>17, RaiseWorker, ProbeLoopWorker, StartWorker
     DEF AnswerMalformedFlat, Shape, NextOK, CkptOK, CkptFits
<1>18. CASE AnswerUnavailableFlat
  BY <1>18, RaiseWorker, ProbeLoopWorker
     DEF AnswerUnavailableFlat, Shape, NextOK, CkptOK, CkptFits
<1>19. CASE KeepAnswerFlat
  BY <1>19, GotoWorker
     DEF KeepAnswerFlat, Shape, NextOK, CkptOK, CkptFits
<1>20. CASE CompleteCallFlat
  BY <1>20, RaiseWorker, CheckpointWorker, ProbeLoopWorker
     DEF CompleteCallFlat, Shape, NextOK, CkptOK, CkptFits
<1>21. CASE ScheduleFlat
  BY <1>21, RaiseWorker, CheckpointWorker
     DEF ScheduleFlat, Shape, NextOK, CkptOK, CkptFits
<1>22. CASE PassNodeFlat
  BY <1>22, RaiseWorker, CheckpointWorker
     DEF PassNodeFlat, Shape, NextOK, CkptOK, CkptFits
<1>23. CASE ExecuteFlat
  <2>0. /\ job = "live" /\ w.pc = "node" /\ cp.node = "execute_probes"
        /\ UNCHANGED <<j, body, wf, cp, probe, job, api, changed, sent, blame, count>>
    BY <1>23 DEF ExecuteFlat
  <2>1. CASE j.status # "running" /\ Raise(IF j.status = "stopped" THEN "cancel" ELSE "pause")
    BY <2>0, <2>1, RaiseWorker
       DEF Shape, NextOK, CkptOK, CkptFits
  <2>2. CASE j.status = "running" /\ ToProbes
    BY <2>0, <2>2, ProbesWorker, SMTT(60)
       DEF Shape, NextOK, CkptOK, CkptFits
  <2> QED BY <1>23, <2>1, <2>2 DEF ExecuteFlat
<1>24. CASE NextProbeFlat
  BY <1>24, RaiseWorker, CheckpointWorker, ProbeWorker
     DEF NextProbeFlat, Shape, NextOK, CkptOK, CkptFits
<1>25. CASE AskModelFlat
  BY <1>25, GotoWorker, ProbeLoopWorker
     DEF AskModelFlat, Shape, NextOK, CkptOK, CkptFits
<1>26. CASE UseToolFlat
  BY <1>26, GotoWorker, ProbeLoopWorker
     DEF UseToolFlat, Shape, NextOK, CkptOK, CkptFits
<1>27. CASE StartToolFlat
  BY <1>27, GotoWorker, RaiseWorker
     DEF StartToolFlat, Shape, NextOK, CkptOK, CkptFits
<1>28. CASE RunToolFlat
  BY <1>28, ResultWorker
     DEF RunToolFlat, Shape, NextOK, CkptOK, CkptFits
<1>29. CASE FailToolFlat
  BY <1>29, RaiseWorker, ProbeLoopWorker
     DEF FailToolFlat, Shape, NextOK, CkptOK, CkptFits
<1>30. CASE KeepResultFlat
  BY <1>30, PrepareWorker
     DEF KeepResultFlat, Shape, NextOK, CkptOK, CkptFits
<1>31. CASE PrepareReceiptFlat
  BY <1>31, GotoWorker, RaiseWorker
     DEF PrepareReceiptFlat, Shape, NextOK, CkptOK, CkptFits
<1>32. CASE CommitReceiptFlat
  BY <1>32, RaiseWorker, ProbeLoopWorker
     DEF CommitReceiptFlat, Shape, NextOK, CkptOK, CkptFits
<1>33. CASE ReduceFlat
  BY <1>33, GotoWorker, RaiseWorker, CheckpointWorker, OutcomeWorker
     DEF ReduceFlat, Shape, NextOK, CkptOK, CkptFits
<1>34. CASE GateVerdictFlat
  BY <1>34, GotoWorker, RaiseWorker
     DEF GateVerdictFlat, Shape, NextOK, CkptOK, CkptFits
<1>35. CASE PersistReductionFlat
  BY <1>35, OutcomeWorker
     DEF PersistReductionFlat, Shape, NextOK, CkptOK, CkptFits
<1>36. CASE KeepReductionFlat
  BY <1>36, GotoWorker, RaiseWorker
     DEF KeepReductionFlat, Shape, NextOK, CkptOK, CkptFits
<1>37. CASE CommitReductionFlat
  BY <1>37, RaiseWorker, CheckpointWorker
     DEF CommitReductionFlat, Shape, NextOK, CkptOK, CkptFits
<1>38. CASE SettleFlat
  BY <1>38, GotoWorker, RaiseWorker
     DEF SettleFlat, Shape, NextOK, CkptOK, CkptFits
<1>39. CASE AfterSettleFlat
  BY <1>39, RaiseWorker, CheckpointWorker
     DEF AfterSettleFlat, Shape, NextOK, CkptOK, CkptFits
<1>40. CASE SynthesizeFlat
  BY <1>40, RaiseWorker, StopWorker
     DEF SynthesizeFlat, Shape, NextOK, CkptOK, CkptFits
<1>41. CASE StopFlat
  BY <1>41, RaiseWorker, OffWorker, FreshWorker, BareWorker
     DEF StopFlat, Shape, NextOK, CkptOK, CkptFits
<1>42. CASE HandlePauseFlat
  BY <1>42, OffWorker, FreshWorker
     DEF HandlePauseFlat, Shape, NextOK, CkptOK, CkptFits
<1>43. CASE HandleCancelFlat
  BY <1>43, FreshWorker
     DEF HandleCancelFlat, Shape, NextOK, CkptOK, CkptFits
<1>44. CASE HandleStopFlat
  BY <1>44, RaiseWorker, StopWorker
     DEF HandleStopFlat, Shape, NextOK, CkptOK, CkptFits
<1>45. CASE CrashFlat
  BY <1>45, OffWorker
     DEF CrashFlat, Shape, NextOK, CkptOK, CkptFits
<1>46. CASE RerunFlat
  BY <1>46
     DEF RerunFlat, Shape, NextOK, CkptOK, CkptFits
<1>47. CASE PauseFlat
  BY <1>47
     DEF PauseFlat, Shape, NextOK, CkptOK, CkptFits
<1>48. CASE ResumeFlat
  BY <1>48
     DEF ResumeFlat, Shape, NextOK, CkptOK, CkptFits
<1>49. CASE LaunchFlat
  <2>1. count' \in [pauses : Nat, crashes : Nat, amends : Nat, reqs : Nat]
    <3>1. count' = count \/ count' = [count EXCEPT !.crashes = count.crashes + 1]
      BY <1>49 DEF LaunchFlat
    <3>2. count \in [pauses : Nat, crashes : Nat, amends : Nat, reqs : Nat]
      BY DEF Shape
    <3> QED BY ONLY <3>1, <3>2
  <2> QED BY <1>49, <2>1 DEF LaunchFlat, Shape
<1>50. CASE CancelFlat
  BY <1>50
     DEF CancelFlat, Shape, NextOK, CkptOK, CkptFits
<1>51. CASE CancelJobFlat
  BY <1>51, OffWorker
     DEF CancelJobFlat, Shape, NextOK, CkptOK, CkptFits
<1>52. CASE ExtendBudgetFlat
  BY <1>52
     DEF ExtendBudgetFlat, Shape, NextOK, CkptOK, CkptFits
<1>53. CASE ChangeDataFlat
  BY <1>53
     DEF ChangeDataFlat, Shape, NextOK, CkptOK, CkptFits
<1>54. CASE UNCHANGED vars
  BY <1>54 DEF vars, Shape, NextOK, CkptOK, CkptFits
<1>55. QED BY NextIsFlat, <1>1, <1>2, <1>3, <1>4, <1>5, <1>6, <1>7, <1>8, <1>9, <1>10, <1>11,
         <1>12, <1>13, <1>14, <1>15, <1>16, <1>17, <1>18, <1>19, <1>20, <1>21, <1>22, <1>23,
         <1>24, <1>25, <1>26, <1>27, <1>28, <1>29, <1>30, <1>31, <1>32, <1>33, <1>34, <1>35,
         <1>36, <1>37, <1>38, <1>39, <1>40, <1>41, <1>42, <1>43, <1>44, <1>45, <1>46, <1>47,
         <1>48, <1>49, <1>50, <1>51, <1>52, <1>53, <1>54 DEF NextFlat

-----------------------------------------------------------------------------
(* The round, the checkpoint and the place of the worker *)

\* Settling a call leaves the round alone.
LEMMA SettlingKeepsRound ==
    ASSUME DOMAIN j = JFields, NEW c, CallSettles(c)
    PROVE  RoundStays
<1>1. CASE \E d : j' = CallCompleted(c, d)
  BY <1>1, CallCompletedFields DEF RoundStays, Put
<1>2. CASE j' = CallRejected(c)
  BY <1>2, CallRejectedFields DEF RoundStays
<1>3. CASE j' = CallUncertain(c)
  BY <1>3, CallUncertainFields DEF RoundStays
<1> QED BY <1>1, <1>2, <1>3 DEF CallSettles

\* A move of a tool slot leaves the round alone.
LEMMA SlotsKeepRound ==
    ASSUME DOMAIN j = JFields, NEW t, SlotMoves(t)
    PROVE  RoundStays
<1>1. CASE \E d : j' = ReceiptCommitted(t, d)
  BY <1>1, ReceiptCommittedFields DEF RoundStays, Put
<1>2. CASE j' = ReceiptPrepared(t)
  BY <1>2, ReceiptPreparedFields DEF RoundStays
<1>3. CASE j' = ToolFailed(t)
  BY <1>3, ToolFailedFields DEF RoundStays
<1> QED BY <1>1, <1>2, <1>3 DEF SlotMoves

\* So does a stop, and a change of the status.
LEMMA StoppingKeepsRound ==
    ASSUME DOMAIN j = JFields, NEW why, NEW r, j' = Stopped(why, r)
    PROVE  RoundStays
  BY StoppedFields DEF RoundStays

\* A change of the status leaves the round alone.
LEMMA StatusKeepsRound ==
    ASSUME DOMAIN j = JFields, NEW s, j' = [j EXCEPT !.status = s]
    PROVE  RoundStays
  BY StatusFields DEF RoundStays

\* Only the start of a round, its reduction and its settlement change the round.
LEMMA RoundKept ==
    ASSUME DOMAIN j = JFields, [Next]_vars, ~OpenRound, ~CommitReduction, ~Settle
    PROVE  RoundStays
<1>1. CASE Claim
  BY <1>1
     DEF Claim, Disk, Hist, Env, RoundStays
<1>2. CASE Verify
  BY <1>2
     DEF Verify, At, Escape, Disk, Hist, Env, RoundStays
<1>3. CASE RecoverCall
<2>1. (\E c : CallSettles(c)) \/ j' = j
  BY <1>3 DEF RecoverCall, RecoverEach, CallSettles
<2> QED BY <2>1, SettlingKeepsRound DEF RoundStays
<1>4. CASE RecoverTool
<2>1. (\E t : SlotMoves(t)) \/ j' = j
  BY <1>4 DEF RecoverTool, RecoverEach, SlotMoves
<2> QED BY <2>1, SlotsKeepRound DEF RoundStays
<1>5. CASE Recovered
  BY <1>5
     DEF Recovered, At, Disk, Hist, Env, RoundStays
<1>6. CASE Enter
<2>1. \/ j' = j \/ j' = [j EXCEPT !.status = "paused"]
      \/ j' = Stopped("state_witness_changed", FALSE)
  BY <1>6 DEF Enter
<2> QED BY <2>1, StatusKeepsRound, StoppingKeepsRound DEF RoundStays
<1>7. CASE WriteCheckpoint
  BY <1>7
     DEF WriteCheckpoint, At, Disk, Hist, Env, RoundStays
<1>8. CASE EndAttempt
  BY <1>8
     DEF EndAttempt, At, Disk, Hist, Env, RoundStays
<1>9. CASE Orient
  BY <1>9
     DEF Orient, AtNode, At, Honored, Disk, Hist, Env, RoundStays
<1>10. CASE Generate
  BY <1>10
     DEF Generate, AtNode, At, Honored, Disk, Hist, Env, RoundStays
<1>11. CASE StartCall
  BY <1>11, CallStartedFields
     DEF StartCall, At, Append, CanStartCall, Disk, Hist, Env, RoundStays
<1>12. CASE Send
  BY <1>12
     DEF Send, At, Disk, Hist, Env, RoundStays
<1>13. CASE SendRefused
  BY <1>13, CallRejectedFields
     DEF SendRefused, At, Rejected, ProbeTo, Disk, Hist, Env, RoundStays
<1>14. CASE Answered
  BY <1>14
     DEF Answered, At, Disk, Hist, Env, RoundStays
<1>15. CASE AnswerUnknown
  BY <1>15, CallUncertainFields
     DEF AnswerUnknown, At, ProbeTo, Disk, Hist, Env, RoundStays
<1>16. CASE AnswerMalformed
  BY <1>16, CallRejectedFields
     DEF AnswerMalformed, At, Rejected, ProbeTo, Disk, Hist, Env, RoundStays
<1>17. CASE AnswerUnavailable
  BY <1>17, CallRejectedFields
     DEF AnswerUnavailable, At, Rejected, ProbeTo, Disk, Hist, Env, RoundStays
<1>18. CASE KeepAnswer
  BY <1>18
     DEF KeepAnswer, At, Disk, Hist, Env, RoundStays
<1>19. CASE CompleteCall
<2>1. CallSettles(Call) \/ j' = j
  BY <1>19 DEF CompleteCall, Append, CallSettles
<2> QED BY <2>1, SettlingKeepsRound DEF RoundStays
<1>20. CASE Schedule
  BY <1>20
     DEF Schedule, AtNode, At, Honored, Disk, Hist, Env, RoundStays
<1>21. CASE PassNode
  BY <1>21
     DEF PassNode, AtNode, At, Honored, Disk, Hist, Env, RoundStays
<1>22. CASE Execute
  BY <1>22
     DEF Execute, AtNode, At, Honored, Disk, Hist, Env, RoundStays
<1>23. CASE NextProbe
  BY <1>23
     DEF NextProbe, At, Here, Disk, Hist, Env, RoundStays
<1>24. CASE AskModel
  BY <1>24
     DEF AskModel, ProbeAt, At, ProbeTo, Disk, Hist, Env, RoundStays
<1>25. CASE UseTool
  BY <1>25
     DEF UseTool, ProbeAt, At, ProbeTo, Disk, Hist, Env, RoundStays
<1>26. CASE StartTool
  BY <1>26, ToolStartedFields
     DEF StartTool, At, Append, CanStartTool, Disk, Hist, Env, RoundStays
<1>27. CASE RunTool
  BY <1>27
     DEF RunTool, At, Disk, Hist, Env, RoundStays
<1>28. CASE FailTool
  BY <1>28, ToolFailedFields
     DEF FailTool, At, ProbeTo, Disk, Hist, Env, RoundStays
<1>29. CASE KeepResult
  BY <1>29
     DEF KeepResult, At, Disk, Hist, Env, RoundStays
<1>30. CASE PrepareReceipt
  BY <1>30, ReceiptPreparedFields
     DEF PrepareReceipt, At, Append, Disk, Hist, Env, RoundStays
<1>31. CASE CommitReceipt
<2>1. SlotMoves(Mine) \/ j' = j
  BY <1>31 DEF CommitReceipt, Append, SlotMoves, Mine
<2> QED BY <2>1, SlotsKeepRound DEF RoundStays
<1>32. CASE Reduce
  BY <1>32
     DEF Reduce, AtNode, At, Honored, ToSettle, Disk, Hist, Env, RoundStays
<1>33. CASE GateVerdict
  BY <1>33, GatedFields
     DEF GateVerdict, At, Append, NoPending, Disk, Hist, Env, RoundStays
<1>34. CASE PersistReduction
  BY <1>34
     DEF PersistReduction, At, Disk, Hist, Env, RoundStays
<1>35. CASE KeepReduction
  BY <1>35
     DEF KeepReduction, At, Disk, Hist, Env, RoundStays
<1>36. CASE AfterSettle
  BY <1>36
     DEF AfterSettle, At, Honored, Disk, Hist, Env, RoundStays
<1>37. CASE Synthesize
  BY <1>37
     DEF Synthesize, AtNode, At, Honored, Disk, Hist, Env, RoundStays
<1>38. CASE Stop
  BY <1>38, StoppedFields
     DEF Stop, At, Finish, Escape, Disk, Hist, Env, RoundStays
<1>39. CASE HandlePause
  BY <1>39, StatusFields
     DEF HandlePause, At, NoPending, Finish, Escape, Disk, Hist, Env, RoundStays
<1>40. CASE HandleCancel
  BY <1>40
     DEF HandleCancel, At, Finish, Disk, Hist, Env, RoundStays
<1>41. CASE HandleStop
  BY <1>41
     DEF HandleStop, At, Disk, Hist, Env, RoundStays
<1>42. CASE Crash
  BY <1>42
     DEF Crash, Disk, Hist, Env, RoundStays
<1>43. CASE Rerun
  BY <1>43
     DEF Rerun, Disk, Hist, Env, RoundStays
<1>44. CASE Pause
  BY <1>44, StatusFields
     DEF Pause, Disk, Hist, Env, RoundStays
<1>45. CASE Resume
<2>1. \/ j' = Stopped("state_witness_changed", FALSE)
      \/ j' = [j EXCEPT !.status = "running"]
  BY <1>45 DEF Resume
<2> QED BY <2>1, StatusKeepsRound, StoppingKeepsRound
<1>46. CASE Launch
  BY <1>46, StoppedFields
     DEF Launch, Disk, Hist, Env, RoundStays
<1>47. CASE Cancel
  BY <1>47, StoppedFields
     DEF Cancel, Disk, Hist, Env, RoundStays
<1>48. CASE CancelJob
  BY <1>48
     DEF CancelJob, Disk, Hist, Env, RoundStays
<1>49. CASE ExtendBudget
  BY <1>49, BudgetFields
     DEF ExtendBudget, Disk, Hist, Env, RoundStays
<1>50. CASE ChangeData
  BY <1>50
     DEF ChangeData, Disk, Hist, Env, RoundStays
<1>51. CASE UNCHANGED vars
  BY <1>51
     DEF vars, RoundStays
<1> QED
  BY <1>1, <1>2, <1>3, <1>4, <1>5, <1>6, <1>7, <1>8, <1>9, <1>10, <1>11, <1>12, <1>13, <1>14,
     <1>15, <1>16, <1>17, <1>18, <1>19, <1>20, <1>21, <1>22, <1>23, <1>24, <1>25, <1>26,
     <1>27, <1>28, <1>29, <1>30, <1>31, <1>32, <1>33, <1>34, <1>35, <1>36, <1>37, <1>38,
     <1>39, <1>40, <1>41, <1>42, <1>43, <1>44, <1>45, <1>46, <1>47, <1>48, <1>49, <1>50, <1>51
     DEF Next, Worker

\* A checkpoint that fits the journal still fits when the round stays.
LEMMA CkptStays ==
    ASSUME NEW c, CkptFits(c, j), RoundStays
    PROVE  CkptFits(c, j')
  BY DEF CkptFits, RoundStays

\* The checkpoint on disk fits the journal.
LEMMA CkptStep ==
    ASSUME Shape, JournalOK, CkptOK(cp), PlaceOK, NextOK, [Next]_vars
    PROVE  CkptOK(cp)'
<1>1. CASE OpenRound
  BY <1>1, RoundStartedFields DEF OpenRound, At, Append, CanStartRound, Disk, Shape, CkptOK,
     CkptFits, PlaceOK, InRound, JournalOK
<1>2. CASE CommitReduction
  BY <1>2, ReductionCommittedFields DEF CommitReduction, At, Append, Disk, Shape, CkptOK,
     CkptFits, PlaceOK, Reducing, InRound
<1>3. CASE Settle
  BY <1>3, RoundSettledFields DEF Settle, AtNode, Append, Disk, Shape, CkptOK, CkptFits,
     PlaceOK, InRound, JournalOK
<1>4. CASE WriteCheckpoint
  BY <1>4 DEF WriteCheckpoint, At, NextOK, CkptOK, CkptFits
<1>5. CASE ~OpenRound /\ ~CommitReduction /\ ~Settle /\ ~WriteCheckpoint
  <2>1. RoundStays
    <3>1. DOMAIN j = JFields
      BY ZenonT(60) DEF Shape
    <3> QED BY <1>5, <3>1, RoundKept
  <2>2. cp' = cp
    BY <1>5 DEF Next, Worker, vars, Disk, Claim, Verify, RecoverCall, RecoverTool, Recovered,
       Enter, EndAttempt, Orient, Generate, StartCall, Send, SendRefused, Answered,
       AnswerUnknown, AnswerMalformed, AnswerUnavailable, KeepAnswer, CompleteCall, Schedule,
       PassNode, Execute, NextProbe, AskModel, UseTool, StartTool, RunTool, FailTool,
       KeepResult, PrepareReceipt, CommitReceipt, Reduce, GateVerdict, PersistReduction,
       KeepReduction, AfterSettle, Synthesize, Stop, HandlePause, HandleCancel, HandleStop,
       Crash, Rerun, Pause, Resume, Launch, Cancel, CancelJob, ExtendBudget, ChangeData
  <2> QED BY <2>1, <2>2, CkptStays DEF CkptOK
<1> QED BY <1>1, <1>2, <1>3, <1>4, <1>5

\* A call that leaves the worker and its round alone leaves its next checkpoint alone.
LEMMA NextStays ==
    ASSUME NextOK, w' = w, RoundStays
    PROVE  NextOK'
  BY CkptStays DEF NextOK, CkptOK

\* The checkpoint about to be written fits the journal.
LEMMA NextStep ==
    ASSUME Shape, JournalOK, CountOK, CkptOK(cp), PlaceOK, NextOK, Kept, BodyOK, [Next]_vars
    PROVE  NextOK'
<1>1. CASE ClaimFlat
  BY <1>1, FreshWorker
     DEF ClaimFlat, NextOK, CkptOK, Shape
<1>2. CASE VerifyFlat
  <2>0. /\ job = "live" /\ w.pc = "verify"
        /\ UNCHANGED <<j, body, wf, cp, probe, api, changed, sent, count>>
    BY <1>2 DEF VerifyFlat
  <2>1. CASE changed /\ w' = Off /\ job' = "failed" /\ blame' = blame \cup {"witness"}
    BY <2>0, <2>1, OffWorker
       DEF NextOK, Shape
  <2>2. CASE j.status = "stopped" /\ Goto("enter") /\ UNCHANGED <<job, blame>>
    BY <2>0, <2>2, GotoWorker
       DEF NextOK, Shape
  <2>3. CASE /\ j.status # "stopped" /\ UNCHANGED <<job, blame>>
             /\ ToRecover(j.calls \cup j.slots)
    BY <2>0, <2>3, RecoverWorker
       DEF NextOK, Shape
  <2> QED BY <1>2, <2>1, <2>2, <2>3 DEF VerifyFlat
<1>3. CASE RecoverCallFlat
  BY <1>3, OffWorker, SettleRestWorker
     DEF RecoverCallFlat, NextOK, CkptOK, Shape
<1>4. CASE RecoverToolFlat
  BY <1>4, OffWorker, SettleRestWorker
     DEF RecoverToolFlat, NextOK, CkptOK, Shape
<1>5. CASE RecoveredFlat
  BY <1>5, EnterWorker
     DEF RecoveredFlat, NextOK, CkptOK, Shape
<1>6. CASE EnterFlat
  <2>0. /\ job = "live" /\ w.pc = "enter"
        /\ UNCHANGED <<body, wf, cp, probe, job, api, changed, sent, blame, count>>
    BY <1>6 DEF EnterFlat
  <2>1. CASE /\ j.status = "pause_requested" /\ j' = [j EXCEPT !.status = "paused"]
             /\ ToFresh("ending")
    BY <2>0, <2>1, FreshWorker
       DEF NextOK, Shape
  <2>2. CASE j.status \in {"stopped", "paused"} /\ j' = j /\ ToFresh("ending")
    BY <2>0, <2>2, FreshWorker
       DEF NextOK, Shape
  <2>3. CASE /\ j.status = "running" /\ j' = Stopped("state_witness_changed", FALSE)
             /\ ToFresh("ending")
    BY <2>0, <2>3, FreshWorker
       DEF NextOK, Shape
  <2>4. CASE j.status \notin {"pause_requested", "stopped", "paused"} /\ j' = j /\ Goto("node")
    BY <2>0, <2>4, GotoWorker
       DEF NextOK, Shape
  <2> QED BY <1>6, <2>1, <2>2, <2>3, <2>4 DEF EnterFlat
<1>7. CASE WriteCheckpointFlat
  BY <1>7, NodeWorker
     DEF WriteCheckpointFlat, NextOK, CkptOK, Shape
<1>8. CASE EndAttemptFlat
  BY <1>8, OffWorker
     DEF EndAttemptFlat, NextOK, CkptOK, Shape
<1>9. CASE OrientFlat
  <2>0. /\ job = "live" /\ w.pc = "node" /\ cp.node = "orient"
        /\ UNCHANGED <<j, body, wf, cp, probe, job, api, changed, sent, blame, count>>
    BY <1>9 DEF OrientFlat
  <2>1. CASE j.status # "running" /\ Raise(IF j.status = "stopped" THEN "cancel" ELSE "pause")
    BY <2>0, <2>1, RaiseWorker
       DEF NextOK, CkptOK, Shape
  <2>2. CASE j.status = "running" /\ Raise("budget")
    BY <2>0, <2>2, RaiseWorker
       DEF NextOK, CkptOK, Shape
  <2>3. CASE j.status = "running" /\ changed /\ Raise("witness")
    BY <2>0, <2>3, RaiseWorker
       DEF NextOK, CkptOK, Shape
  <2>4. CASE /\ j.status = "running" /\ j.open
             /\ Checkpoint([cp EXCEPT !.node = "generate", !.round = j.settled])
    <3>1. PICK c : c = [cp EXCEPT !.node = "generate", !.round = j.settled]
      OBVIOUS
    <3>2. w'.out = c
      BY <2>4, <3>1, CheckpointWorker DEF Shape
    <3>3. DOMAIN c = CFields /\ c.node = "generate" /\ c.round = j.settled /\ c.n = cp.n
      BY <3>1 DEF Shape, CFields
    <3>5. CkptFits(c, j')
      BY <2>0, <2>4, <3>3, BoundsAssumption
         DEF CkptOK, CkptFits, InRound, Nodes, JournalOK, PlaceOK, Reducing
    <3> QED BY <3>2, <3>5 DEF NextOK, CkptOK
  <2>5. CASE j.status = "running" /\ ~j.open /\ ~(j.rounds <= 0) /\ Goto("open")
    BY <2>0, <2>5, GotoWorker
       DEF NextOK, CkptOK, Shape
  <2> QED BY <1>9, <2>1, <2>2, <2>3, <2>4, <2>5 DEF OrientFlat
<1>10. CASE OpenRoundFlat
  <2>0. /\ job = "live" /\ w.pc = "open"
        /\ UNCHANGED <<body, wf, cp, probe, job, api, changed, sent, blame, count>>
    BY <1>10 DEF OpenRoundFlat
  <2>1. CASE /\ CanStartRound /\ j' = RoundStarted
             /\ Checkpoint([cp EXCEPT !.node = "generate", !.round = j.settled])
    <3>1. PICK c : c = [cp EXCEPT !.node = "generate", !.round = j.settled]
      OBVIOUS
    <3>2. w'.out = c
      BY <2>1, <3>1, CheckpointWorker DEF Shape
    <3>3. DOMAIN c = CFields /\ c.node = "generate" /\ c.round = j.settled /\ c.n = cp.n
      BY <3>1 DEF Shape, CFields
    <3>4. j'.open /\ j'.settled = j.settled /\ ~j'.committed /\ j'.dig = j.dig
      BY <2>0, <2>1, RoundStartedFields DEF Shape
    <3>5. CkptFits(c, j')
      BY <2>0, <2>1, <3>3, <3>4, BoundsAssumption
         DEF CkptOK, CkptFits, InRound, Nodes, JournalOK, PlaceOK, Reducing
    <3> QED BY <3>2, <3>5 DEF NextOK, CkptOK
  <2>2. CASE ~(j.status # "stopped" /\ CanStartRound) /\ j' = j /\ Raise("error")
    BY <2>0, <2>2, RaiseWorker
       DEF NextOK, CkptOK, Shape
  <2> QED BY <1>10, <2>1, <2>2 DEF OpenRoundFlat
<1>11. CASE GenerateFlat
  <2>0. /\ job = "live" /\ w.pc = "node" /\ cp.node = "generate"
        /\ UNCHANGED <<j, body, wf, cp, probe, job, api, changed, sent, blame, count>>
    BY <1>11 DEF GenerateFlat
  <2>1. CASE j.status # "running" /\ Raise(IF j.status = "stopped" THEN "cancel" ELSE "pause")
    BY <2>0, <2>1, RaiseWorker
       DEF NextOK, CkptOK, Shape
  <2>2. CASE /\ j.status = "running" /\ Done(Call) /\ j.dig[Call] = body[Call]
             /\ Checkpoint([cp EXCEPT !.node = "schedule"])
    <3>1. PICK c : c = [cp EXCEPT !.node = "schedule"]
      OBVIOUS
    <3>2. w'.out = c
      BY <2>2, <3>1, CheckpointWorker DEF Shape
    <3>3. DOMAIN c = CFields /\ c.node = "schedule" /\ c.round = cp.round /\ c.n = cp.n
      BY <3>1 DEF Shape, CFields
    <3>5. CkptFits(c, j')
      BY <2>0, <2>2, <3>3, BoundsAssumption
         DEF CkptOK, CkptFits, InRound, Nodes, JournalOK, PlaceOK, Reducing, Done, Call
    <3> QED BY <3>2, <3>5 DEF NextOK, CkptOK
  <2>3. CASE j.status = "running" /\ Done(Call) /\ j.dig[Call] # body[Call] /\ Raise("error")
    BY <2>0, <2>3, RaiseWorker
       DEF NextOK, CkptOK, Shape
  <2>4. CASE j.status = "running" /\ ~Done(Call) /\ Call \in j.unsure /\ Raise("error")
    BY <2>0, <2>4, RaiseWorker
       DEF NextOK, CkptOK, Shape
  <2>5. CASE j.status = "running" /\ Raise("budget")
    BY <2>0, <2>5, RaiseWorker
       DEF NextOK, CkptOK, Shape
  <2>6. CASE /\ j.status = "running" /\ ~Done(Call) /\ Call \notin j.unsure /\ CanSend
             /\ ToStart(1)
    BY <2>0, <2>6, StartWorker
       DEF NextOK, CkptOK, Shape
  <2> QED BY <1>11, <2>1, <2>2, <2>3, <2>4, <2>5, <2>6 DEF GenerateFlat
<1>12. CASE StartCallFlat
  BY <1>12, GotoWorker, RaiseWorker
     DEF StartCallFlat, NextOK, CkptOK, Shape
<1>13. CASE SendFlat
  BY <1>13, GotoWorker
     DEF SendFlat, NextOK, CkptOK, Shape
<1>14. CASE SendRefusedFlat
  BY <1>14, RaiseWorker, ProbeLoopWorker
     DEF SendRefusedFlat, NextOK, CkptOK, Shape
<1>15. CASE AnsweredFlat
  BY <1>15, KeepWorker
     DEF AnsweredFlat, NextOK, CkptOK, Shape
<1>16. CASE AnswerUnknownFlat
  BY <1>16, RaiseWorker, ProbeLoopWorker
     DEF AnswerUnknownFlat, NextOK, CkptOK, Shape
<1>17. CASE AnswerMalformedFlat
  BY <1>17, RaiseWorker, ProbeLoopWorker, StartWorker
     DEF AnswerMalformedFlat, NextOK, CkptOK, Shape
<1>18. CASE AnswerUnavailableFlat
  BY <1>18, RaiseWorker, ProbeLoopWorker
     DEF AnswerUnavailableFlat, NextOK, CkptOK, Shape
<1>19. CASE KeepAnswerFlat
  BY <1>19, GotoWorker
     DEF KeepAnswerFlat, NextOK, CkptOK, Shape
<1>20. CASE CompleteCallFlat
  <2>0. /\ job = "live" /\ w.pc = "complete"
        /\ UNCHANGED <<body, wf, cp, probe, job, api, changed, sent, blame, count>>
    BY <1>20 DEF CompleteCallFlat
  <2>1. CASE /\ j.status # "stopped" /\ Call \in j.calls
             /\ j' = CallCompleted(Call, w.val) /\ cp.node = "generate"
             /\ Checkpoint([cp EXCEPT !.node = "schedule"])
    <3>1. PICK c : c = [cp EXCEPT !.node = "schedule"]
      OBVIOUS
    <3>2. w'.out = c
      BY <2>1, <3>1, CheckpointWorker DEF Shape
    <3>3. DOMAIN c = CFields /\ c.node = "schedule" /\ c.round = cp.round /\ c.n = cp.n
      BY <3>1 DEF Shape, CFields
    <3>4. /\ j'.open = j.open /\ j'.settled = j.settled /\ j'.committed = j.committed
          /\ DOMAIN j'.dig = DOMAIN j.dig \cup {Gen(cp.round)}
      BY <2>0, <2>1, CallCompletedFields DEF Shape, Put, Call
    <3>5. CkptFits(c, j')
      BY <2>0, <2>1, <3>3, <3>4, BoundsAssumption
         DEF CkptOK, CkptFits, InRound, Nodes, JournalOK, PlaceOK, Reducing
    <3> QED BY <3>2, <3>5 DEF NextOK, CkptOK
  <2>2. CASE /\ j.status # "stopped" /\ Call \in j.calls
             /\ j' = CallCompleted(Call, w.val) /\ cp.node # "generate" /\ ProbeLoop
    BY <2>0, <2>2, ProbeLoopWorker
       DEF NextOK, CkptOK, Shape
  <2>3. CASE ~(j.status # "stopped" /\ Call \in j.calls) /\ j' = j /\ Raise("error")
    BY <2>0, <2>3, RaiseWorker
       DEF NextOK, CkptOK, Shape
  <2> QED BY <1>20, <2>1, <2>2, <2>3 DEF CompleteCallFlat
<1>21. CASE ScheduleFlat
  <2>1. job = "live" /\ w.pc = "node" /\ cp.node = "schedule" /\ j' = j
    BY <1>21 DEF ScheduleFlat
  <2>2. cp.round \in Rounds /\ Gen(cp.round) \in DOMAIN j.dig
    BY <2>1, BoundsAssumption DEF CkptOK, CkptFits, InRound, Rounds, CountOK, RoundsOK,
         JournalOK, Shape
  <2>3. body[Gen(cp.round)] \in 0 .. NProbes
    BY <2>2 DEF Kept, DigestsStand, BodyOK
  <2>c. PICK c : c = [cp EXCEPT !.node = IF body[Gen(cp.round)] > 0 THEN "select" ELSE "reduce",
                                !.n = body[Gen(cp.round)]]
    OBVIOUS
  <2>4. Checkpoint(c) \/ w'.pc = "raised"
    BY <1>21, <2>c, RaiseWorker DEF ScheduleFlat
  <2>5. w'.out = c \/ w'.pc = "raised"
    BY <2>4, CheckpointWorker DEF Shape
  <2>d. /\ DOMAIN c = CFields /\ c.round = cp.round /\ c.n = body[Gen(cp.round)]
        /\ c.node \in {"select", "reduce"}
    BY <2>c DEF Shape, CFields
  <2>6. CkptFits(c, j')
    BY <2>1, <2>2, <2>3, <2>d DEF CkptOK, CkptFits, InRound, Nodes, JournalOK
  <2> QED BY <2>5, <2>6 DEF NextOK, CkptOK
<1>22. CASE PassNodeFlat
  <2>0. /\ job = "live" /\ w.pc = "node" /\ cp.node \in {"select", "validate"}
        /\ UNCHANGED <<j, body, wf, cp, probe, job, api, changed, sent, blame, count>>
    BY <1>22 DEF PassNodeFlat
  <2>1. CASE j.status # "running" /\ Raise(IF j.status = "stopped" THEN "cancel" ELSE "pause")
    BY <2>0, <2>1, RaiseWorker
       DEF NextOK, CkptOK, Shape
  <2>2. CASE /\ j.status = "running"
             /\ Checkpoint([cp EXCEPT !.node = IF cp.node = "select"
                                               THEN "execute_probes" ELSE "reduce"])
    <3>1. PICK c : c = [cp EXCEPT !.node = IF cp.node = "select" THEN "execute_probes" ELSE "reduce"]
      OBVIOUS
    <3>2. w'.out = c
      BY <2>2, <3>1, CheckpointWorker DEF Shape
    <3>3. DOMAIN c = CFields /\ c.node = (IF cp.node = "select" THEN "execute_probes" ELSE "reduce") /\ c.round = cp.round /\ c.n = cp.n
      BY <3>1 DEF Shape, CFields
    <3>5. CkptFits(c, j')
      BY <2>0, <2>2, <3>3, BoundsAssumption
         DEF CkptOK, CkptFits, InRound, Nodes, JournalOK, PlaceOK, Reducing
    <3> QED BY <3>2, <3>5 DEF NextOK, CkptOK
  <2> QED BY <1>22, <2>1, <2>2 DEF PassNodeFlat
<1>23. CASE ExecuteFlat
  <2>0. /\ job = "live" /\ w.pc = "node" /\ cp.node = "execute_probes"
        /\ UNCHANGED <<j, body, wf, cp, probe, job, api, changed, sent, blame, count>>
    BY <1>23 DEF ExecuteFlat
  <2>1. CASE j.status # "running" /\ Raise(IF j.status = "stopped" THEN "cancel" ELSE "pause")
    BY <2>0, <2>1, RaiseWorker
       DEF NextOK, CkptOK, Shape
  <2>2. CASE j.status = "running" /\ ToProbes
    BY <2>0, <2>2, ProbesWorker
       DEF NextOK, CkptOK, Shape
  <2> QED BY <1>23, <2>1, <2>2 DEF ExecuteFlat
<1>24. CASE NextProbeFlat
  <2>0. /\ job = "live" /\ w.pc = "probes"
        /\ UNCHANGED <<j, body, wf, cp, probe, job, api, changed, sent, blame, count>>
    BY <1>24 DEF NextProbeFlat
  <2>1. CASE \E spent : Checkpoint([cp EXCEPT !.node = "validate", !.spent = spent])
    <3>0. PICK s : Checkpoint([cp EXCEPT !.node = "validate", !.spent = s])
      BY <2>1
    <3>1. PICK c : c = [cp EXCEPT !.node = "validate", !.spent = s]
      OBVIOUS
    <3>2. w'.out = c
      BY <3>0, <3>1, CheckpointWorker DEF Shape
    <3>3. DOMAIN c = CFields /\ c.node = "validate" /\ c.round = cp.round /\ c.n = cp.n
      BY <3>1 DEF Shape, CFields
    <3>5. CkptFits(c, j')
      BY <2>0, <2>1, <3>3, BoundsAssumption
         DEF CkptOK, CkptFits, InRound, Nodes, JournalOK, PlaceOK, Reducing
    <3> QED BY <3>2, <3>5 DEF NextOK, CkptOK
  <2>2. CASE ~(w.p > cp.n) /\ probe[Here] = "bad" /\ Raise("error")
    BY <2>0, <2>2, RaiseWorker
       DEF NextOK, CkptOK, Shape
  <2>3. CASE ~(w.p > cp.n) /\ ToProbe(w.p + 1)
    BY <2>0, <2>3, ProbeWorker
       DEF NextOK, CkptOK, Shape
  <2> QED BY <1>24, <2>1, <2>2, <2>3 DEF NextProbeFlat
<1>25. CASE AskModelFlat
  BY <1>25, GotoWorker, ProbeLoopWorker
     DEF AskModelFlat, NextOK, CkptOK, Shape
<1>26. CASE UseToolFlat
  BY <1>26, GotoWorker, ProbeLoopWorker
     DEF UseToolFlat, NextOK, CkptOK, Shape
<1>27. CASE StartToolFlat
  BY <1>27, GotoWorker, RaiseWorker
     DEF StartToolFlat, NextOK, CkptOK, Shape
<1>28. CASE RunToolFlat
  BY <1>28, ResultWorker
     DEF RunToolFlat, NextOK, CkptOK, Shape
<1>29. CASE FailToolFlat
  BY <1>29, RaiseWorker, ProbeLoopWorker
     DEF FailToolFlat, NextOK, CkptOK, Shape
<1>30. CASE KeepResultFlat
  BY <1>30, PrepareWorker
     DEF KeepResultFlat, NextOK, CkptOK, Shape
<1>31. CASE PrepareReceiptFlat
  BY <1>31, GotoWorker, RaiseWorker
     DEF PrepareReceiptFlat, NextOK, CkptOK, Shape
<1>32. CASE CommitReceiptFlat
  BY <1>32, RaiseWorker, ProbeLoopWorker
     DEF CommitReceiptFlat, NextOK, CkptOK, Shape
<1>33. CASE ReduceFlat
  <2>0. /\ job = "live" /\ w.pc = "node" /\ cp.node = "reduce"
        /\ UNCHANGED <<j, body, wf, cp, probe, job, api, changed, sent, blame, count>>
    BY <1>33 DEF ReduceFlat
  <2>1. CASE j.status # "running" /\ Raise(IF j.status = "stopped" THEN "cancel" ELSE "pause")
    BY <2>0, <2>1, RaiseWorker
       DEF NextOK, CkptOK, Shape
  <2>2. CASE /\ j.status = "running" /\ j.committed /\ j.redn = body[Red(cp.round)]
             /\ Checkpoint([cp EXCEPT !.node = "settle", !.red = j.redn, !.before = Snapshot])
    <3>1. PICK c : c = [cp EXCEPT !.node = "settle", !.red = j.redn, !.before = Snapshot]
      OBVIOUS
    <3>2. w'.out = c
      BY <2>2, <3>1, CheckpointWorker DEF Shape
    <3>3. DOMAIN c = CFields /\ c.node = "settle" /\ c.round = cp.round /\ c.n = cp.n
      BY <3>1 DEF Shape, CFields
    <3>5. CkptFits(c, j')
      BY <2>0, <2>2, <3>3, BoundsAssumption
         DEF CkptOK, CkptFits, InRound, Nodes, JournalOK, PlaceOK, Reducing
    <3> QED BY <3>2, <3>5 DEF NextOK, CkptOK
  <2>3. CASE /\ j.status = "running" /\ j.committed /\ j.redn # body[Red(cp.round)]
             /\ Raise("error")
    BY <2>0, <2>3, RaiseWorker
       DEF NextOK, CkptOK, Shape
  <2>4. CASE j.status = "running" /\ ~j.committed /\ Goto("gate")
    BY <2>0, <2>4, GotoWorker
       DEF NextOK, CkptOK, Shape
  <2>5. CASE /\ j.status = "running" /\ ~j.committed
             /\ ToOutcome([v |-> "dry", fresh |-> TRUE])
    BY <2>0, <2>5, OutcomeWorker
       DEF NextOK, CkptOK, Shape
  <2> QED BY <1>33, <2>1, <2>2, <2>3, <2>4, <2>5 DEF ReduceFlat
<1>34. CASE GateVerdictFlat
  BY <1>34, GotoWorker, RaiseWorker
     DEF GateVerdictFlat, NextOK, CkptOK, Shape
<1>35. CASE PersistReductionFlat
  BY <1>35, OutcomeWorker
     DEF PersistReductionFlat, NextOK, CkptOK, Shape
<1>36. CASE KeepReductionFlat
  BY <1>36, GotoWorker, RaiseWorker
     DEF KeepReductionFlat, NextOK, CkptOK, Shape
<1>37. CASE CommitReductionFlat
  <2>0. /\ job = "live" /\ w.pc = "reduce"
        /\ UNCHANGED <<body, wf, cp, probe, job, api, changed, sent, blame, count>>
    BY <1>37 DEF CommitReductionFlat
  <2>1. CASE /\ j.status = "running" /\ NoPending /\ j.open /\ j' = ReductionCommitted(w.val)
             /\ Checkpoint([cp EXCEPT !.node = "settle", !.red = w.val, !.before = Snapshot])
    <3>1. PICK c : c = [cp EXCEPT !.node = "settle", !.red = w.val, !.before = Snapshot]
      OBVIOUS
    <3>2. w'.out = c
      BY <2>1, <3>1, CheckpointWorker DEF Shape
    <3>3. DOMAIN c = CFields /\ c.node = "settle" /\ c.round = cp.round /\ c.n = cp.n
      BY <3>1 DEF Shape, CFields
    <3>4. j'.open /\ j'.settled = j.settled /\ j'.committed /\ j'.dig = j.dig
      BY <2>0, <2>1, ReductionCommittedFields DEF Shape
    <3>5. CkptFits(c, j')
      BY <2>0, <2>1, <3>3, <3>4, BoundsAssumption
         DEF CkptOK, CkptFits, InRound, Nodes, JournalOK, PlaceOK, Reducing
    <3> QED BY <3>2, <3>5 DEF NextOK, CkptOK
  <2>2. CASE ~(j.status = "running" /\ NoPending /\ j.open) /\ j' = j /\ Raise("error")
    BY <2>0, <2>2, RaiseWorker
       DEF NextOK, CkptOK, Shape
  <2> QED BY <1>37, <2>1, <2>2 DEF CommitReductionFlat
<1>38. CASE SettleFlat
  BY <1>38, GotoWorker, RaiseWorker
     DEF SettleFlat, NextOK, CkptOK, Shape
<1>39. CASE AfterSettleFlat
  <2>0. /\ job = "live" /\ w.pc = "after"
        /\ UNCHANGED <<j, body, wf, cp, probe, job, api, changed, sent, blame, count>>
    BY <1>39 DEF AfterSettleFlat
  <2>1. CASE /\ Decision # None
             /\ Checkpoint([cp EXCEPT !.node = "synthesize", !.reason = Decision])
    <3>1. PICK c : c = [cp EXCEPT !.node = "synthesize", !.reason = Decision]
      OBVIOUS
    <3>2. w'.out = c
      BY <2>1, <3>1, CheckpointWorker DEF Shape
    <3>3. DOMAIN c = CFields /\ c.node = "synthesize" /\ c.round = cp.round /\ c.n = cp.n
      BY <3>1 DEF Shape, CFields
    <3>5. CkptFits(c, j')
      BY <2>0, <2>1, <3>3, BoundsAssumption
         DEF CkptOK, CkptFits, InRound, Nodes, JournalOK, PlaceOK, Reducing
    <3> QED BY <3>2, <3>5 DEF NextOK, CkptOK
  <2>2. CASE /\ Decision = None /\ j.status # "running"
             /\ Raise(IF j.status = "stopped" THEN "cancel" ELSE "pause")
    BY <2>0, <2>2, RaiseWorker
       DEF NextOK, CkptOK, Shape
  <2>3. CASE /\ Decision = None /\ j.status = "running"
             /\ Checkpoint([cp EXCEPT !.node = "orient", !.red = None,
                                      !.before = None, !.n = 0, !.spent = FALSE])
    <3>1. PICK c : c = [cp EXCEPT !.node = "orient", !.red = None, !.before = None, !.n = 0,
                     !.spent = FALSE]
      OBVIOUS
    <3>2. w'.out = c
      BY <2>3, <3>1, CheckpointWorker DEF Shape
    <3>3. DOMAIN c = CFields /\ c.node = "orient" /\ c.round = cp.round /\ c.n = 0
      BY <3>1 DEF Shape, CFields
    <3>5. CkptFits(c, j')
      BY <2>0, <2>3, <3>3, BoundsAssumption
         DEF CkptOK, CkptFits, InRound, Nodes, JournalOK, PlaceOK, Reducing
    <3> QED BY <3>2, <3>5 DEF NextOK, CkptOK
  <2> QED BY <1>39, <2>1, <2>2, <2>3 DEF AfterSettleFlat
<1>40. CASE SynthesizeFlat
  BY <1>40, RaiseWorker, StopWorker
     DEF SynthesizeFlat, NextOK, CkptOK, Shape
<1>41. CASE StopFlat
  BY <1>41, RaiseWorker, OffWorker, FreshWorker, BareWorker
     DEF StopFlat, NextOK, CkptOK, Shape
<1>42. CASE HandlePauseFlat
  BY <1>42, OffWorker, FreshWorker
     DEF HandlePauseFlat, NextOK, CkptOK, Shape
<1>43. CASE HandleCancelFlat
  BY <1>43, FreshWorker
     DEF HandleCancelFlat, NextOK, CkptOK, Shape
<1>44. CASE HandleStopFlat
  BY <1>44, RaiseWorker, StopWorker
     DEF HandleStopFlat, NextOK, CkptOK, Shape
<1>45. CASE CrashFlat
  BY <1>45, OffWorker
     DEF CrashFlat, NextOK, CkptOK, Shape
<1>46. CASE PauseFlat
  BY <1>46, NextStays, StatusFields DEF PauseFlat, Shape, RoundStays
<1>47. CASE ResumeFlat
  BY <1>47, NextStays, StoppedFields, StatusFields DEF ResumeFlat, Shape, RoundStays
<1>48. CASE LaunchFlat
  BY <1>48, NextStays, StoppedFields DEF LaunchFlat, Shape, RoundStays
<1>49. CASE CancelFlat
  BY <1>49, NextStays, StoppedFields DEF CancelFlat, Shape, RoundStays
<1>50. CASE CancelJobFlat
  BY <1>50, OffWorker
     DEF CancelJobFlat, NextOK, CkptOK, Shape
<1>51. CASE ExtendBudgetFlat
  BY <1>51, NextStays, BudgetFields DEF ExtendBudgetFlat, Shape, RoundStays
<1>52. CASE UNCHANGED <<j, w>>
  BY <1>52 DEF NextOK, CkptOK, Shape
<1>53. QED
  BY NextIsFlat, <1>1, <1>2, <1>3, <1>4, <1>5, <1>6, <1>7, <1>8, <1>9, <1>10, <1>11, <1>12,
         <1>13, <1>14, <1>15, <1>16, <1>17, <1>18, <1>19, <1>20, <1>21, <1>22, <1>23, <1>24,
         <1>25, <1>26, <1>27, <1>28, <1>29, <1>30, <1>31, <1>32, <1>33, <1>34, <1>35, <1>36,
         <1>37, <1>38, <1>39, <1>40, <1>41, <1>42, <1>43, <1>44, <1>45, <1>46, <1>47, <1>48,
         <1>49, <1>50, <1>51, <1>52
     DEF NextFlat, vars, RerunFlat, ChangeDataFlat

\* The worker is where its checkpoint lets it be.
LEMMA PlaceStep ==
    ASSUME Shape, JournalOK, CkptOK(cp), PlaceOK, [Next]_vars
    PROVE  PlaceOK'
<1>1. CASE ClaimFlat
  BY <1>1, FreshWorker
     DEF ClaimFlat, PlaceOK, Shape, Places, Waiting, Asking, Tooling, Reducing
<1>2. CASE VerifyFlat
  BY <1>2, GotoWorker, OffWorker, RecoverWorker
     DEF VerifyFlat, PlaceOK, Shape, Places, Waiting, Asking, Tooling, Reducing
<1>3. CASE RecoverCallFlat
  BY <1>3, OffWorker, SettleRestWorker
     DEF RecoverCallFlat, PlaceOK, Shape, Places, Waiting, Asking, Tooling, Reducing
<1>4. CASE RecoverToolFlat
  BY <1>4, OffWorker, SettleRestWorker
     DEF RecoverToolFlat, PlaceOK, Shape, Places, Waiting, Asking, Tooling, Reducing
<1>5. CASE RecoveredFlat
  BY <1>5, EnterWorker
     DEF RecoveredFlat, PlaceOK, Shape, Places, Waiting, Asking, Tooling, Reducing
<1>6. CASE EnterFlat
  <2>0. /\ job = "live" /\ w.pc = "enter"
        /\ UNCHANGED <<body, wf, cp, probe, job, api, changed, sent, blame, count>>
    BY <1>6 DEF EnterFlat
  <2>1. CASE /\ j.status = "pause_requested" /\ j' = [j EXCEPT !.status = "paused"]
             /\ ToFresh("ending")
    BY <2>0, <2>1, FreshWorker
       DEF PlaceOK, Shape, Places, Waiting, Asking, Tooling, Reducing
  <2>2. CASE j.status \in {"stopped", "paused"} /\ j' = j /\ ToFresh("ending")
    BY <2>0, <2>2, FreshWorker
       DEF PlaceOK, Shape, Places, Waiting, Asking, Tooling, Reducing
  <2>3. CASE /\ j.status = "running" /\ j' = Stopped("state_witness_changed", FALSE)
             /\ ToFresh("ending")
    <3>1. w'.pc = "ending"
      BY <2>3, FreshWorker
    <3> QED BY <2>0, <3>1 DEF PlaceOK, Places, Waiting, Asking, Tooling, Reducing
  <2>4. CASE j.status \notin {"pause_requested", "stopped", "paused"} /\ j' = j /\ Goto("node")
    BY <2>0, <2>4, GotoWorker
       DEF PlaceOK, Shape, Places, Waiting, Asking, Tooling, Reducing
  <2> QED BY <1>6, <2>1, <2>2, <2>3, <2>4 DEF EnterFlat
<1>7. CASE WriteCheckpointFlat
  BY <1>7, NodeWorker
     DEF WriteCheckpointFlat, PlaceOK, Shape, Places, Waiting, Asking, Tooling, Reducing
<1>8. CASE EndAttemptFlat
  BY <1>8, OffWorker
     DEF EndAttemptFlat, PlaceOK, Shape, Places, Waiting, Asking, Tooling, Reducing
<1>9. CASE OrientFlat
  BY <1>9, GotoWorker, RaiseWorker, CheckpointWorker
     DEF OrientFlat, PlaceOK, Shape, Places, Waiting, Asking, Tooling, Reducing
<1>10. CASE OpenRoundFlat
  BY <1>10, RaiseWorker, CheckpointWorker
     DEF OpenRoundFlat, PlaceOK, Shape, Places, Waiting, Asking, Tooling, Reducing
<1>11. CASE GenerateFlat
  BY <1>11, RaiseWorker, CheckpointWorker, StartWorker
     DEF GenerateFlat, PlaceOK, Shape, Places, Waiting, Asking, Tooling, Reducing
<1>12. CASE StartCallFlat
  BY <1>12, GotoWorker, RaiseWorker
     DEF StartCallFlat, PlaceOK, Shape, Places, Waiting, Asking, Tooling, Reducing
<1>13. CASE SendFlat
  BY <1>13, GotoWorker
     DEF SendFlat, PlaceOK, Shape, Places, Waiting, Asking, Tooling, Reducing
<1>14. CASE SendRefusedFlat
  BY <1>14, RaiseWorker, ProbeLoopWorker
     DEF SendRefusedFlat, PlaceOK, Shape, Places, Waiting, Asking, Tooling, Reducing
<1>15. CASE AnsweredFlat
  BY <1>15, KeepWorker
     DEF AnsweredFlat, PlaceOK, Shape, Places, Waiting, Asking, Tooling, Reducing
<1>16. CASE AnswerUnknownFlat
  BY <1>16, RaiseWorker, ProbeLoopWorker
     DEF AnswerUnknownFlat, PlaceOK, Shape, Places, Waiting, Asking, Tooling, Reducing
<1>17. CASE AnswerMalformedFlat
  BY <1>17, RaiseWorker, ProbeLoopWorker, StartWorker
     DEF AnswerMalformedFlat, PlaceOK, Shape, Places, Waiting, Asking, Tooling, Reducing
<1>18. CASE AnswerUnavailableFlat
  BY <1>18, RaiseWorker, ProbeLoopWorker
     DEF AnswerUnavailableFlat, PlaceOK, Shape, Places, Waiting, Asking, Tooling, Reducing
<1>19. CASE KeepAnswerFlat
  BY <1>19, GotoWorker
     DEF KeepAnswerFlat, PlaceOK, Shape, Places, Waiting, Asking, Tooling, Reducing
<1>20. CASE CompleteCallFlat
  BY <1>20, RaiseWorker, CheckpointWorker, ProbeLoopWorker
     DEF CompleteCallFlat, PlaceOK, Shape, Places, Waiting, Asking, Tooling, Reducing
<1>21. CASE ScheduleFlat
  BY <1>21, RaiseWorker, CheckpointWorker
     DEF ScheduleFlat, PlaceOK, Shape, Places, Waiting, Asking, Tooling, Reducing
<1>22. CASE PassNodeFlat
  BY <1>22, RaiseWorker, CheckpointWorker
     DEF PassNodeFlat, PlaceOK, Shape, Places, Waiting, Asking, Tooling, Reducing
<1>23. CASE ExecuteFlat
  <2>0. /\ job = "live" /\ w.pc = "node" /\ cp.node = "execute_probes"
        /\ UNCHANGED <<j, body, wf, cp, probe, job, api, changed, sent, blame, count>>
    BY <1>23 DEF ExecuteFlat
  <2>1. CASE j.status # "running" /\ Raise(IF j.status = "stopped" THEN "cancel" ELSE "pause")
    BY <2>0, <2>1, RaiseWorker
       DEF PlaceOK, Shape, Places, Waiting, Asking, Tooling, Reducing
  <2>2. CASE j.status = "running" /\ ToProbes
    BY <2>0, <2>2, ProbesWorker
       DEF PlaceOK, Shape, Places, Waiting, Asking, Tooling, Reducing
  <2> QED BY <1>23, <2>1, <2>2 DEF ExecuteFlat
<1>24. CASE NextProbeFlat
  <2>0. /\ job = "live" /\ w.pc = "probes"
        /\ UNCHANGED <<j, body, wf, cp, probe, job, api, changed, sent, blame, count>>
    BY <1>24 DEF NextProbeFlat
  <2>1. CASE \E spent : Checkpoint([cp EXCEPT !.node = "validate", !.spent = spent])
    BY <2>0, <2>1, CheckpointWorker
       DEF PlaceOK, Shape, Places, Waiting, Asking, Tooling, Reducing
  <2>2. CASE ~(w.p > cp.n) /\ probe[Here] = "bad" /\ Raise("error")
    BY <2>0, <2>2, RaiseWorker
       DEF PlaceOK, Shape, Places, Waiting, Asking, Tooling, Reducing
  <2>3. CASE ~(w.p > cp.n) /\ ToProbe(w.p + 1)
    BY <2>0, <2>3, ProbeWorker
       DEF PlaceOK, Shape, Places, Waiting, Asking, Tooling, Reducing
  <2> QED BY <1>24, <2>1, <2>2, <2>3 DEF NextProbeFlat
<1>25. CASE AskModelFlat
  BY <1>25, GotoWorker, ProbeLoopWorker
     DEF AskModelFlat, PlaceOK, Shape, Places, Waiting, Asking, Tooling, Reducing
<1>26. CASE UseToolFlat
  BY <1>26, GotoWorker, ProbeLoopWorker
     DEF UseToolFlat, PlaceOK, Shape, Places, Waiting, Asking, Tooling, Reducing
<1>27. CASE StartToolFlat
  BY <1>27, GotoWorker, RaiseWorker
     DEF StartToolFlat, PlaceOK, Shape, Places, Waiting, Asking, Tooling, Reducing
<1>28. CASE RunToolFlat
  BY <1>28, ResultWorker
     DEF RunToolFlat, PlaceOK, Shape, Places, Waiting, Asking, Tooling, Reducing
<1>29. CASE FailToolFlat
  BY <1>29, RaiseWorker, ProbeLoopWorker
     DEF FailToolFlat, PlaceOK, Shape, Places, Waiting, Asking, Tooling, Reducing
<1>30. CASE KeepResultFlat
  BY <1>30, PrepareWorker
     DEF KeepResultFlat, PlaceOK, Shape, Places, Waiting, Asking, Tooling, Reducing
<1>31. CASE PrepareReceiptFlat
  BY <1>31, GotoWorker, RaiseWorker
     DEF PrepareReceiptFlat, PlaceOK, Shape, Places, Waiting, Asking, Tooling, Reducing
<1>32. CASE CommitReceiptFlat
  <2>0. /\ job = "live" /\ w.pc = "commit"
        /\ UNCHANGED <<body, wf, cp, probe, job, api, changed, sent, blame, count>>
    BY <1>32 DEF CommitReceiptFlat
  <2>1. CASE /\ j.status # "stopped" /\ Mine \in j.prep
             /\ j' = ReceiptCommitted(Mine, w.val) /\ ProbeLoop
    BY <2>0, <2>1, ProbeLoopWorker
       DEF PlaceOK, Shape, Places, Waiting, Asking, Tooling, Reducing
  <2>2. CASE ~(j.status # "stopped" /\ Mine \in j.prep) /\ j' = j /\ Raise("error")
    BY <2>0, <2>2, RaiseWorker
       DEF PlaceOK, Shape, Places, Waiting, Asking, Tooling, Reducing
  <2> QED BY <1>32, <2>1, <2>2 DEF CommitReceiptFlat
<1>33. CASE ReduceFlat
  <2>0. /\ job = "live" /\ w.pc = "node" /\ cp.node = "reduce"
        /\ UNCHANGED <<j, body, wf, cp, probe, job, api, changed, sent, blame, count>>
    BY <1>33 DEF ReduceFlat
  <2>1. CASE j.status # "running" /\ Raise(IF j.status = "stopped" THEN "cancel" ELSE "pause")
    BY <2>0, <2>1, RaiseWorker
       DEF PlaceOK, Shape, Places, Waiting, Asking, Tooling, Reducing
  <2>2. CASE /\ j.status = "running" /\ j.committed /\ j.redn = body[Red(cp.round)]
             /\ Checkpoint([cp EXCEPT !.node = "settle", !.red = j.redn, !.before = Snapshot])
    BY <2>0, <2>2, CheckpointWorker
       DEF PlaceOK, Shape, Places, Waiting, Asking, Tooling, Reducing
  <2>3. CASE /\ j.status = "running" /\ j.committed /\ j.redn # body[Red(cp.round)]
             /\ Raise("error")
    BY <2>0, <2>3, RaiseWorker
       DEF PlaceOK, Shape, Places, Waiting, Asking, Tooling, Reducing
  <2>4. CASE j.status = "running" /\ ~j.committed /\ Goto("gate")
    BY <2>0, <2>4, GotoWorker
       DEF PlaceOK, Shape, Places, Waiting, Asking, Tooling, Reducing
  <2>5. CASE /\ j.status = "running" /\ ~j.committed
             /\ ToOutcome([v |-> "dry", fresh |-> TRUE])
    BY <2>0, <2>5, OutcomeWorker
       DEF PlaceOK, Shape, Places, Waiting, Asking, Tooling, Reducing
  <2> QED BY <1>33, <2>1, <2>2, <2>3, <2>4, <2>5 DEF ReduceFlat
<1>34. CASE GateVerdictFlat
  BY <1>34, GotoWorker, RaiseWorker
     DEF GateVerdictFlat, PlaceOK, Shape, Places, Waiting, Asking, Tooling, Reducing
<1>35. CASE PersistReductionFlat
  BY <1>35, OutcomeWorker
     DEF PersistReductionFlat, PlaceOK, Shape, Places, Waiting, Asking, Tooling, Reducing
<1>36. CASE KeepReductionFlat
  BY <1>36, GotoWorker, RaiseWorker
     DEF KeepReductionFlat, PlaceOK, Shape, Places, Waiting, Asking, Tooling, Reducing
<1>37. CASE CommitReductionFlat
  BY <1>37, RaiseWorker, CheckpointWorker
     DEF CommitReductionFlat, PlaceOK, Shape, Places, Waiting, Asking, Tooling, Reducing
<1>38. CASE SettleFlat
  <2>0. /\ job = "live" /\ w.pc = "node" /\ cp.node = "settle"
        /\ UNCHANGED <<body, wf, cp, probe, job, api, changed, sent, blame, count>>
    BY <1>38 DEF SettleFlat
  <2>1. CASE /\ j.settled <= cp.round /\ j.status # "stopped" /\ NoPending /\ j.open
             /\ j' = RoundSettled(cp.red, Decision) /\ Goto("after")
    BY <2>0, <2>1, GotoWorker, RoundSettledFields
       DEF PlaceOK, Shape, Places, Waiting, Asking, Tooling, Reducing, CkptOK, CkptFits
  <2>2. CASE /\ j.settled <= cp.round /\ ~(j.status # "stopped" /\ NoPending /\ j.open)
             /\ j' = j /\ Raise("error")
    BY <2>0, <2>2, RaiseWorker
       DEF PlaceOK, Shape, Places, Waiting, Asking, Tooling, Reducing
  <2>3. CASE ~(j.settled <= cp.round) /\ j' = j /\ Goto("after")
    BY <2>0, <2>3, GotoWorker
       DEF PlaceOK, Shape, Places, Waiting, Asking, Tooling, Reducing, CkptOK, CkptFits
  <2> QED BY <1>38, <2>1, <2>2, <2>3 DEF SettleFlat
<1>39. CASE AfterSettleFlat
  BY <1>39, RaiseWorker, CheckpointWorker
     DEF AfterSettleFlat, PlaceOK, Shape, Places, Waiting, Asking, Tooling, Reducing
<1>40. CASE SynthesizeFlat
  <2>0. /\ job = "live" /\ w.pc = "node" /\ cp.node = "synthesize"
        /\ UNCHANGED <<j, body, wf, cp, probe, job, api, changed, sent, blame, count>>
    BY <1>40 DEF SynthesizeFlat
  <2>1. CASE j.status # "running" /\ Raise(IF j.status = "stopped" THEN "cancel" ELSE "pause")
    BY <2>0, <2>1, RaiseWorker
       DEF PlaceOK, Shape, Places, Waiting, Asking, Tooling, Reducing
  <2>2. CASE j.status = "running" /\ ToStop(cp.reason, TRUE)
    BY <2>0, <2>2, StopWorker, ZenonT(60)
       DEF PlaceOK, Shape, Places, Waiting, Asking, Tooling, Reducing
  <2> QED BY <1>40, <2>1, <2>2 DEF SynthesizeFlat
<1>41. CASE StopFlat
  BY <1>41, RaiseWorker, OffWorker, FreshWorker, BareWorker
     DEF StopFlat, PlaceOK, Shape, Places, Waiting, Asking, Tooling, Reducing
<1>42. CASE HandlePauseFlat
  BY <1>42, OffWorker, FreshWorker
     DEF HandlePauseFlat, PlaceOK, Shape, Places, Waiting, Asking, Tooling, Reducing
<1>43. CASE HandleCancelFlat
  BY <1>43, FreshWorker
     DEF HandleCancelFlat, PlaceOK, Shape, Places, Waiting, Asking, Tooling, Reducing
<1>44. CASE HandleStopFlat
  BY <1>44, RaiseWorker, StopWorker
     DEF HandleStopFlat, PlaceOK, Shape, Places, Waiting, Asking, Tooling, Reducing
<1>45. CASE CrashFlat
  BY <1>45, OffWorker
     DEF CrashFlat, PlaceOK, Shape, Places, Waiting, Asking, Tooling, Reducing
<1>46. CASE RerunFlat
  BY <1>46
     DEF RerunFlat, PlaceOK, Shape, Places, Waiting, Asking, Tooling, Reducing
<1>47. CASE PauseFlat
  BY <1>47, StatusFields
     DEF PauseFlat, PlaceOK, Shape, Places, Waiting, Asking, Tooling, Reducing
<1>48. CASE ResumeFlat
  <2>0. /\ j.status = "paused" /\ api = "idle"
        /\ UNCHANGED <<body, wf, cp, probe, w, job, changed, sent, blame, count>>
    BY <1>48 DEF ResumeFlat
  <2>1. CASE changed /\ j' = Stopped("state_witness_changed", FALSE) /\ api' = api
    BY <2>0, <2>1, StoppedFields, ZenonT(60)
       DEF PlaceOK, Shape, Places, Waiting, Asking, Tooling, Reducing
  <2>2. CASE /\ job \notin {"queued", "live"} /\ j' = [j EXCEPT !.status = "running"]
             /\ api' = "launching"
    BY <2>0, <2>2, StatusFields
       DEF PlaceOK, Shape, Places, Waiting, Asking, Tooling, Reducing
  <2> QED BY <1>48, <2>1, <2>2 DEF ResumeFlat
<1>49. CASE LaunchFlat
  BY <1>49, StoppedFields
     DEF LaunchFlat, PlaceOK, Shape, Places, Waiting, Asking, Tooling, Reducing
<1>50. CASE CancelFlat
  BY <1>50, StoppedFields, ZenonT(60)
     DEF CancelFlat, PlaceOK, Shape, Places, Waiting, Asking, Tooling, Reducing
<1>51. CASE CancelJobFlat
  BY <1>51, OffWorker
     DEF CancelJobFlat, PlaceOK, Shape, Places, Waiting, Asking, Tooling, Reducing
<1>52. CASE ExtendBudgetFlat
  BY <1>52, BudgetFields
     DEF ExtendBudgetFlat, PlaceOK, Shape, Places, Waiting, Asking, Tooling, Reducing
<1>53. CASE ChangeDataFlat
  BY <1>53
     DEF ChangeDataFlat, PlaceOK, Shape, Places, Waiting, Asking, Tooling, Reducing
<1>54. CASE UNCHANGED vars
  BY <1>54, SMTT(60) DEF vars, PlaceOK, Shape, Places, Waiting, Asking, Tooling, Reducing
<1>55. QED BY NextIsFlat, <1>1, <1>2, <1>3, <1>4, <1>5, <1>6, <1>7, <1>8, <1>9, <1>10, <1>11,
         <1>12, <1>13, <1>14, <1>15, <1>16, <1>17, <1>18, <1>19, <1>20, <1>21, <1>22, <1>23,
         <1>24, <1>25, <1>26, <1>27, <1>28, <1>29, <1>30, <1>31, <1>32, <1>33, <1>34, <1>35,
         <1>36, <1>37, <1>38, <1>39, <1>40, <1>41, <1>42, <1>43, <1>44, <1>45, <1>46, <1>47,
         <1>48, <1>49, <1>50, <1>51, <1>52, <1>53, <1>54 DEF NextFlat

\* The requests stay within the ordinary part of the budget.
LEMMA ReqsStep ==
    ASSUME Shape, ReqsOK, [Next]_vars
    PROVE  ReqsOK'
<1>1. CASE SendFlat
  BY <1>1, BoundsAssumption
     DEF SendFlat, ReqsOK, Shape, CanSend
<1>2. CASE CrashFlat
  BY <1>2, BoundsAssumption
     DEF CrashFlat, ReqsOK, Shape, CanSend
<1>3. CASE PauseFlat
  BY <1>3, BoundsAssumption
     DEF PauseFlat, ReqsOK, Shape, CanSend
<1>4. CASE LaunchFlat
  BY <1>4, BoundsAssumption
     DEF LaunchFlat, ReqsOK, Shape, CanSend
<1>5. CASE ExtendBudgetFlat
  BY <1>5, BoundsAssumption
     DEF ExtendBudgetFlat, ReqsOK, Shape, CanSend
<1>6. CASE UNCHANGED <<count>>
  BY <1>6, BoundsAssumption DEF ReqsOK, Shape, CanSend
<1>7. QED
  BY NextIsFlat, <1>1, <1>2, <1>3, <1>4, <1>5, <1>6
     DEF NextFlat, vars, ClaimFlat, VerifyFlat, RecoverCallFlat, RecoverToolFlat,
         RecoveredFlat, EnterFlat, WriteCheckpointFlat, EndAttemptFlat, OrientFlat,
         OpenRoundFlat, GenerateFlat, StartCallFlat, SendRefusedFlat, AnsweredFlat,
         AnswerUnknownFlat, AnswerMalformedFlat, AnswerUnavailableFlat, KeepAnswerFlat,
         CompleteCallFlat, ScheduleFlat, PassNodeFlat, ExecuteFlat, NextProbeFlat,
         AskModelFlat, UseToolFlat, StartToolFlat, RunToolFlat, FailToolFlat, KeepResultFlat,
         PrepareReceiptFlat, CommitReceiptFlat, ReduceFlat, GateVerdictFlat,
         PersistReductionFlat, KeepReductionFlat, CommitReductionFlat, SettleFlat,
         AfterSettleFlat, SynthesizeFlat, StopFlat, HandlePauseFlat, HandleCancelFlat,
         HandleStopFlat, RerunFlat, ResumeFlat, CancelFlat, CancelJobFlat, ChangeDataFlat

-----------------------------------------------------------------------------
(* What is pending *)

\* At most the call at hand is pending while a worker works.
LEMMA CallPendingStep ==
    ASSUME Shape, JournalOK, CkptOK(cp), PlaceOK, PendingOK, [Next]_vars
    PROVE  CallPending'
<1>1. CASE ClaimFlat
  BY <1>1, FreshWorker
     DEF ClaimFlat, Shape, CallPending, Asking, Waiting, Call, PendingOK
<1>2. CASE VerifyFlat
  <2>0. /\ job = "live" /\ w.pc = "verify"
        /\ UNCHANGED <<j, body, wf, cp, probe, api, changed, sent, count>>
    BY <1>2 DEF VerifyFlat
  <2>1. CASE changed /\ w' = Off /\ job' = "failed" /\ blame' = blame \cup {"witness"}
    BY <2>0, <2>1, OffWorker
       DEF Shape, CallPending, Asking, Waiting, Call, PendingOK
  <2>2. CASE j.status = "stopped" /\ Goto("enter") /\ UNCHANGED <<job, blame>>
    BY <2>0, <2>2, GotoWorker
       DEF Shape, CallPending, Asking, Waiting, Call, PendingOK, JournalOK
  <2>3. CASE /\ j.status # "stopped" /\ UNCHANGED <<job, blame>>
             /\ ToRecover(j.calls \cup j.slots)
    BY <2>0, <2>3, RecoverWorker
       DEF Shape, CallPending, Asking, Waiting, Call, PendingOK
  <2> QED BY <1>2, <2>1, <2>2, <2>3 DEF VerifyFlat
<1>3. CASE RecoverCallFlat
  BY <1>3, OffWorker, SettleRestWorker, CallUncertainFields, CallCompletedFields
     DEF RecoverCallFlat, Shape, CallPending, Asking, Waiting, Call, PendingOK
<1>4. CASE RecoverToolFlat
  BY <1>4, OffWorker, SettleRestWorker, ToolFailedFields, ReceiptPreparedFields,
         ReceiptCommittedFields
     DEF RecoverToolFlat, Shape, CallPending, Asking, Waiting, Call, PendingOK
<1>5. CASE RecoveredFlat
  BY <1>5, EnterWorker
     DEF RecoveredFlat, Shape, CallPending, Asking, Waiting, Call, PendingOK, TodoOK, JournalOK
<1>6. CASE EnterFlat
  <2>0. /\ job = "live" /\ w.pc = "enter"
        /\ UNCHANGED <<body, wf, cp, probe, job, api, changed, sent, blame, count>>
    BY <1>6 DEF EnterFlat
  <2>1. CASE /\ j.status = "pause_requested" /\ j' = [j EXCEPT !.status = "paused"]
             /\ ToFresh("ending")
    BY <2>0, <2>1, FreshWorker, StatusFields
       DEF Shape, CallPending, Asking, Waiting, Call, PendingOK
  <2>2. CASE j.status \in {"stopped", "paused"} /\ j' = j /\ ToFresh("ending")
    BY <2>0, <2>2, FreshWorker
       DEF Shape, CallPending, Asking, Waiting, Call, PendingOK
  <2>3. CASE /\ j.status = "running" /\ j' = Stopped("state_witness_changed", FALSE)
             /\ ToFresh("ending")
    <3>1. w'.pc = "ending"
      BY <2>3, FreshWorker
    <3>2. j'.status = "stopped" /\ j'.calls = {} /\ j'.slots = {}
      BY <2>3, StoppedFields DEF Shape
    <3> QED BY <2>0, <3>1, <3>2 DEF CallPending, Asking, Waiting
  <2>4. CASE j.status \notin {"pause_requested", "stopped", "paused"} /\ j' = j /\ Goto("node")
    BY <2>0, <2>4, GotoWorker
       DEF Shape, CallPending, Asking, Waiting, Call, PendingOK
  <2> QED BY <1>6, <2>1, <2>2, <2>3, <2>4 DEF EnterFlat
<1>7. CASE WriteCheckpointFlat
  BY <1>7, NodeWorker
     DEF WriteCheckpointFlat, Shape, CallPending, Asking, Waiting, Call, PendingOK
<1>8. CASE EndAttemptFlat
  BY <1>8, OffWorker
     DEF EndAttemptFlat, Shape, CallPending, Asking, Waiting, Call, PendingOK
<1>9. CASE OrientFlat
  BY <1>9, GotoWorker, RaiseWorker, CheckpointWorker
     DEF OrientFlat, Shape, CallPending, Asking, Waiting, Call, PendingOK
<1>10. CASE OpenRoundFlat
  <2>0. /\ job = "live" /\ w.pc = "open"
        /\ UNCHANGED <<body, wf, cp, probe, job, api, changed, sent, blame, count>>
    BY <1>10 DEF OpenRoundFlat
  <2>1. CASE /\ CanStartRound /\ j' = RoundStarted
             /\ Checkpoint([cp EXCEPT !.node = "generate", !.round = j.settled])
    BY <2>0, <2>1, CheckpointWorker, RoundStartedFields
       DEF Shape, CallPending, Asking, Waiting, Call, PendingOK
  <2>2. CASE ~(j.status # "stopped" /\ CanStartRound) /\ j' = j /\ Raise("error")
    BY <2>0, <2>2, RaiseWorker
       DEF Shape, CallPending, Asking, Waiting, Call, PendingOK
  <2> QED BY <1>10, <2>1, <2>2 DEF OpenRoundFlat
<1>11. CASE GenerateFlat
  <2>0. /\ job = "live" /\ w.pc = "node" /\ cp.node = "generate"
        /\ UNCHANGED <<j, body, wf, cp, probe, job, api, changed, sent, blame, count>>
    BY <1>11 DEF GenerateFlat
  <2>1. CASE j.status # "running" /\ Raise(IF j.status = "stopped" THEN "cancel" ELSE "pause")
    BY <2>0, <2>1, RaiseWorker
       DEF Shape, CallPending, Asking, Waiting, Call, PendingOK, Done
  <2>2. CASE /\ j.status = "running" /\ Done(Call) /\ j.dig[Call] = body[Call]
             /\ Checkpoint([cp EXCEPT !.node = "schedule"])
    BY <2>0, <2>2, CheckpointWorker
       DEF Shape, CallPending, Asking, Waiting, Call, PendingOK, Done
  <2>3. CASE j.status = "running" /\ Done(Call) /\ j.dig[Call] # body[Call] /\ Raise("error")
    BY <2>0, <2>3, RaiseWorker
       DEF Shape, CallPending, Asking, Waiting, Call, PendingOK, Done
  <2>4. CASE j.status = "running" /\ ~Done(Call) /\ Call \in j.unsure /\ Raise("error")
    BY <2>0, <2>4, RaiseWorker
       DEF Shape, CallPending, Asking, Waiting, Call, PendingOK, Done
  <2>5. CASE j.status = "running" /\ Raise("budget")
    BY <2>0, <2>5, RaiseWorker
       DEF Shape, CallPending, Asking, Waiting, Call, PendingOK, Done
  <2>6. CASE /\ j.status = "running" /\ ~Done(Call) /\ Call \notin j.unsure /\ CanSend
             /\ ToStart(1)
    BY <2>0, <2>6, StartWorker
       DEF Shape, CallPending, Asking, Waiting, Call, PendingOK, Done
  <2> QED BY <1>11, <2>1, <2>2, <2>3, <2>4, <2>5, <2>6 DEF GenerateFlat
<1>12. CASE StartCallFlat
  <2>0. /\ job = "live" /\ w.pc = "start"
        /\ UNCHANGED <<body, wf, cp, probe, job, api, changed, sent, blame, count>>
    BY <1>12, SMTT(60) DEF StartCallFlat
  <2>1. CASE CanStartCall(Call) /\ j' = CallStarted(Call) /\ Goto("send")
    BY <2>0, <2>1, GotoWorker, CallStartedFields
       DEF Shape, CallPending, Asking, Waiting, Call, PendingOK, Tooling
  <2>2. CASE ~(j.status # "stopped" /\ CanStartCall(Call)) /\ j' = j /\ Raise("error")
    BY <2>0, <2>2, RaiseWorker
       DEF Shape, CallPending, Asking, Waiting, Call, PendingOK
  <2> QED BY <1>12, <2>1, <2>2 DEF StartCallFlat
<1>13. CASE SendFlat
  BY <1>13, GotoWorker
     DEF SendFlat, Shape, CallPending, Asking, Waiting, Call, PendingOK
<1>14. CASE SendRefusedFlat
  <2>0. /\ job = "live" /\ w.pc = "send"
        /\ blame' = blame \cup {"refused"}
        /\ UNCHANGED <<body, wf, cp, job, api, changed, sent, count>>
    BY <1>14 DEF SendRefusedFlat
  <2>1. CASE j.status = "stopped" /\ Raise("error") /\ UNCHANGED <<j, probe>>
    BY <2>0, <2>1, RaiseWorker
       DEF Shape, CallPending, Asking, Waiting, Call, PendingOK, JournalOK
  <2>2. CASE /\ j.status # "stopped" /\ j' = CallRejected(Call) /\ cp.node = "generate"
             /\ Raise("budget") /\ probe' = probe
    BY <2>0, <2>2, RaiseWorker, CallRejectedFields, SMTT(60)
       DEF Shape, CallPending, Asking, Waiting, Call, PendingOK
  <2>3. CASE /\ j.status # "stopped" /\ j' = CallRejected(Call) /\ cp.node # "generate"
             /\ probe' = [probe EXCEPT ![Here] = "spent"] /\ ProbeLoop
    BY <2>0, <2>3, ProbeLoopWorker, CallRejectedFields
       DEF Shape, CallPending, Asking, Waiting, Call, PendingOK
  <2> QED BY <1>14, <2>1, <2>2, <2>3 DEF SendRefusedFlat
<1>15. CASE AnsweredFlat
  BY <1>15, KeepWorker
     DEF AnsweredFlat, Shape, CallPending, Asking, Waiting, Call, PendingOK
<1>16. CASE AnswerUnknownFlat
  <2>0. /\ job = "live" /\ w.pc = "answer"
        /\ blame' = blame \cup {"provider"}
        /\ UNCHANGED <<body, wf, cp, job, api, changed, sent, count>>
    BY <1>16 DEF AnswerUnknownFlat
  <2>1. CASE j.status = "stopped" /\ Raise("error") /\ UNCHANGED <<j, probe>>
    BY <2>0, <2>1, RaiseWorker
       DEF Shape, CallPending, Asking, Waiting, Call, PendingOK, JournalOK
  <2>2. CASE /\ j.status # "stopped" /\ j' = CallUncertain(Call) /\ cp.node = "generate"
             /\ Raise("error") /\ probe' = probe
    BY <2>0, <2>2, RaiseWorker, CallUncertainFields
       DEF Shape, CallPending, Asking, Waiting, Call, PendingOK
  <2>3. CASE /\ j.status # "stopped" /\ j' = CallUncertain(Call) /\ cp.node # "generate"
             /\ probe' = [probe EXCEPT ![Here] = "bad"] /\ ProbeLoop
    BY <2>0, <2>3, ProbeLoopWorker, CallUncertainFields
       DEF Shape, CallPending, Asking, Waiting, Call, PendingOK
  <2> QED BY <1>16, <2>1, <2>2, <2>3 DEF AnswerUnknownFlat
<1>17. CASE AnswerMalformedFlat
  <2>0. /\ job = "live" /\ w.pc = "answer"
        /\ sent' = [sent EXCEPT ![Call] = 0]
        /\ UNCHANGED <<body, wf, cp, job, api, changed, blame, count>>
    BY <1>17 DEF AnswerMalformedFlat
  <2>1. CASE j.status = "stopped" /\ Raise("error") /\ UNCHANGED <<j, probe>>
    BY <2>0, <2>1, RaiseWorker
       DEF Shape, CallPending, Asking, Waiting, Call, PendingOK, JournalOK
  <2>2. CASE /\ j.status # "stopped" /\ j' = CallRejected(Call) /\ cp.node = "generate"
             /\ ToStart(2) /\ probe' = probe
    BY <2>0, <2>2, StartWorker, CallRejectedFields, SMTT(60)
       DEF Shape, CallPending, Asking, Waiting, Call, PendingOK, JournalOK
  <2>3. CASE /\ j.status # "stopped" /\ j' = CallRejected(Call) /\ cp.node # "generate"
             /\ probe' = [probe EXCEPT ![Here] = "end"] /\ ProbeLoop
    BY <2>0, <2>3, ProbeLoopWorker, CallRejectedFields
       DEF Shape, CallPending, Asking, Waiting, Call, PendingOK
  <2> QED BY <1>17, <2>1, <2>2, <2>3 DEF AnswerMalformedFlat
<1>18. CASE AnswerUnavailableFlat
  <2>0. /\ job = "live" /\ w.pc = "answer"
        /\ sent' = [sent EXCEPT ![Call] = 0]
        /\ blame' = blame \cup {"provider"}
        /\ UNCHANGED <<body, wf, cp, job, api, changed, count>>
    BY <1>18 DEF AnswerUnavailableFlat
  <2>1. CASE j.status = "stopped" /\ Raise("error") /\ UNCHANGED <<j, probe>>
    BY <2>0, <2>1, RaiseWorker
       DEF Shape, CallPending, Asking, Waiting, Call, PendingOK, JournalOK
  <2>2. CASE /\ j.status # "stopped" /\ j' = CallRejected(Call) /\ cp.node = "generate"
             /\ Raise("error") /\ probe' = probe
    BY <2>0, <2>2, RaiseWorker, CallRejectedFields, SMTT(60)
       DEF Shape, CallPending, Asking, Waiting, Call, PendingOK
  <2>3. CASE /\ j.status # "stopped" /\ j' = CallRejected(Call) /\ cp.node # "generate"
             /\ probe' = [probe EXCEPT ![Here] = "end"] /\ ProbeLoop
    BY <2>0, <2>3, ProbeLoopWorker, CallRejectedFields
       DEF Shape, CallPending, Asking, Waiting, Call, PendingOK
  <2> QED BY <1>18, <2>1, <2>2, <2>3 DEF AnswerUnavailableFlat
<1>19. CASE KeepAnswerFlat
  BY <1>19, GotoWorker
     DEF KeepAnswerFlat, Shape, CallPending, Asking, Waiting, Call, PendingOK
<1>20. CASE CompleteCallFlat
  <2>0. /\ job = "live" /\ w.pc = "complete"
        /\ UNCHANGED <<body, wf, cp, probe, job, api, changed, sent, blame, count>>
    BY <1>20 DEF CompleteCallFlat
  <2>1. CASE /\ j.status # "stopped" /\ Call \in j.calls
             /\ j' = CallCompleted(Call, w.val) /\ cp.node = "generate"
             /\ Checkpoint([cp EXCEPT !.node = "schedule"])
    BY <2>0, <2>1, CheckpointWorker, CallCompletedFields, SMTT(60)
       DEF Shape, CallPending, Asking, Waiting, Call, PendingOK
  <2>2. CASE /\ j.status # "stopped" /\ Call \in j.calls
             /\ j' = CallCompleted(Call, w.val) /\ cp.node # "generate" /\ ProbeLoop
    BY <2>0, <2>2, ProbeLoopWorker, CallCompletedFields
       DEF Shape, CallPending, Asking, Waiting, Call, PendingOK
  <2>3. CASE ~(j.status # "stopped" /\ Call \in j.calls) /\ j' = j /\ Raise("error")
    BY <2>0, <2>3, RaiseWorker
       DEF Shape, CallPending, Asking, Waiting, Call, PendingOK, JournalOK
  <2> QED BY <1>20, <2>1, <2>2, <2>3 DEF CompleteCallFlat
<1>21. CASE ScheduleFlat
  BY <1>21, RaiseWorker, CheckpointWorker
     DEF ScheduleFlat, Shape, CallPending, Asking, Waiting, Call, PendingOK
<1>22. CASE PassNodeFlat
  BY <1>22, RaiseWorker, CheckpointWorker
     DEF PassNodeFlat, Shape, CallPending, Asking, Waiting, Call, PendingOK
<1>23. CASE ExecuteFlat
  <2>0. /\ job = "live" /\ w.pc = "node" /\ cp.node = "execute_probes"
        /\ UNCHANGED <<j, body, wf, cp, probe, job, api, changed, sent, blame, count>>
    BY <1>23 DEF ExecuteFlat
  <2>1. CASE j.status # "running" /\ Raise(IF j.status = "stopped" THEN "cancel" ELSE "pause")
    BY <2>0, <2>1, RaiseWorker
       DEF Shape, CallPending, Asking, Waiting, Call, PendingOK
  <2>2. CASE j.status = "running" /\ ToProbes
    BY <2>0, <2>2, ProbesWorker, SMTT(60)
       DEF Shape, CallPending, Asking, Waiting, Call, PendingOK
  <2> QED BY <1>23, <2>1, <2>2 DEF ExecuteFlat
<1>24. CASE NextProbeFlat
  BY <1>24, RaiseWorker, CheckpointWorker, ProbeWorker
     DEF NextProbeFlat, Shape, CallPending, Asking, Waiting, Call, PendingOK
<1>25. CASE AskModelFlat
  <2>0. /\ job = "live" /\ w.pc = "probes" /\ w.p <= cp.n
        /\ UNCHANGED <<j, body, wf, cp, job, api, changed, sent, blame, count>>
    BY <1>25 DEF AskModelFlat
  <2>1. CASE Call \in j.unsure /\ probe' = [probe EXCEPT ![Here] = "bad"] /\ ProbeLoop
    BY <2>0, <2>1, ProbeLoopWorker
       DEF Shape, CallPending, Asking, Waiting, Call, PendingOK, Done
  <2>2. CASE /\ Done(Call) /\ j.dig[Call] # body[Call]
             /\ probe' = [probe EXCEPT ![Here] = "bad"] /\ ProbeLoop
    BY <2>0, <2>2, ProbeLoopWorker
       DEF Shape, CallPending, Asking, Waiting, Call, PendingOK, Done
  <2>3. CASE /\ \E x \in {"tools", "end", "spent"} : probe' = [probe EXCEPT ![Here] = x]
             /\ ProbeLoop
    BY <2>0, <2>3, ProbeLoopWorker
       DEF Shape, CallPending, Asking, Waiting, Call, PendingOK, Done
  <2>4. CASE /\ ~Done(Call) /\ Call \notin j.unsure /\ CanSend
             /\ Goto("start") /\ probe' = probe
    BY <2>0, <2>4, GotoWorker
       DEF Shape, CallPending, Asking, Waiting, Call, PendingOK, Done
  <2> QED BY <1>25, <2>1, <2>2, <2>3, <2>4 DEF AskModelFlat
<1>26. CASE UseToolFlat
  BY <1>26, GotoWorker, ProbeLoopWorker
     DEF UseToolFlat, Shape, CallPending, Asking, Waiting, Call, PendingOK
<1>27. CASE StartToolFlat
  BY <1>27, GotoWorker, RaiseWorker, ToolStartedFields
     DEF StartToolFlat, Shape, CallPending, Asking, Waiting, Call, PendingOK
<1>28. CASE RunToolFlat
  BY <1>28, ResultWorker
     DEF RunToolFlat, Shape, CallPending, Asking, Waiting, Call, PendingOK
<1>29. CASE FailToolFlat
  BY <1>29, RaiseWorker, ProbeLoopWorker, ToolFailedFields
     DEF FailToolFlat, Shape, CallPending, Asking, Waiting, Call, PendingOK
<1>30. CASE KeepResultFlat
  BY <1>30, PrepareWorker
     DEF KeepResultFlat, Shape, CallPending, Asking, Waiting, Call, PendingOK
<1>31. CASE PrepareReceiptFlat
  BY <1>31, GotoWorker, RaiseWorker, ReceiptPreparedFields
     DEF PrepareReceiptFlat, Shape, CallPending, Asking, Waiting, Call, PendingOK
<1>32. CASE CommitReceiptFlat
  BY <1>32, RaiseWorker, ProbeLoopWorker, ReceiptCommittedFields
     DEF CommitReceiptFlat, Shape, CallPending, Asking, Waiting, Call, PendingOK
<1>33. CASE ReduceFlat
  BY <1>33, GotoWorker, RaiseWorker, CheckpointWorker, OutcomeWorker
     DEF ReduceFlat, Shape, CallPending, Asking, Waiting, Call, PendingOK
<1>34. CASE GateVerdictFlat
  BY <1>34, GotoWorker, RaiseWorker, GatedFields
     DEF GateVerdictFlat, Shape, CallPending, Asking, Waiting, Call, PendingOK
<1>35. CASE PersistReductionFlat
  BY <1>35, OutcomeWorker
     DEF PersistReductionFlat, Shape, CallPending, Asking, Waiting, Call, PendingOK
<1>36. CASE KeepReductionFlat
  BY <1>36, GotoWorker, RaiseWorker
     DEF KeepReductionFlat, Shape, CallPending, Asking, Waiting, Call, PendingOK
<1>37. CASE CommitReductionFlat
  BY <1>37, RaiseWorker, CheckpointWorker, ReductionCommittedFields
     DEF CommitReductionFlat, Shape, CallPending, Asking, Waiting, Call, PendingOK
<1>38. CASE SettleFlat
  BY <1>38, GotoWorker, RaiseWorker, RoundSettledFields
     DEF SettleFlat, Shape, CallPending, Asking, Waiting, Call, PendingOK
<1>39. CASE AfterSettleFlat
  BY <1>39, RaiseWorker, CheckpointWorker
     DEF AfterSettleFlat, Shape, CallPending, Asking, Waiting, Call, PendingOK
<1>40. CASE SynthesizeFlat
  BY <1>40, RaiseWorker, StopWorker
     DEF SynthesizeFlat, Shape, CallPending, Asking, Waiting, Call, PendingOK
<1>41. CASE StopFlat
  BY <1>41, RaiseWorker, OffWorker, FreshWorker, BareWorker, StoppedFields
     DEF StopFlat, Shape, CallPending, Asking, Waiting, Call, PendingOK
<1>42. CASE HandlePauseFlat
  BY <1>42, HandlePauseMoves
     DEF Shape, CallPending, Asking, Waiting, Call, PendingOK
<1>43. CASE HandleCancelFlat
  BY <1>43, FreshWorker
     DEF HandleCancelFlat, Shape, CallPending, Asking, Waiting, Call, PendingOK
<1>44. CASE HandleStopFlat
  BY <1>44, RaiseWorker, StopWorker
     DEF HandleStopFlat, Shape, CallPending, Asking, Waiting, Call, PendingOK
<1>45. CASE CrashFlat
  BY <1>45, OffWorker
     DEF CrashFlat, Shape, CallPending, Asking, Waiting, Call, PendingOK
<1>46. CASE RerunFlat
  BY <1>46
     DEF RerunFlat, Shape, CallPending, Asking, Waiting, Call, PendingOK
<1>47. CASE PauseFlat
  BY <1>47, PauseMoves
     DEF Shape, CallPending, Asking, Waiting, Call, PendingOK
<1>48. CASE ResumeFlat
  <2>0. /\ j.status = "paused" /\ api = "idle"
        /\ UNCHANGED <<body, wf, cp, probe, w, job, changed, sent, blame, count>>
    BY <1>48 DEF ResumeFlat
  <2>1. CASE changed /\ j' = Stopped("state_witness_changed", FALSE) /\ api' = api
    BY <2>0, <2>1, StoppedFields
       DEF Shape, CallPending, Asking, Waiting, Call, PendingOK
  <2>2. CASE /\ job \notin {"queued", "live"} /\ j' = [j EXCEPT !.status = "running"]
             /\ api' = "launching"
    BY <2>0, <2>2, StatusFields
       DEF Shape, CallPending, Asking, Waiting, Call, PendingOK
  <2> QED BY <1>48, <2>1, <2>2 DEF ResumeFlat
<1>49. CASE LaunchFlat
  <2>0. /\ api = "launching"
        /\ api' = "idle"
        /\ UNCHANGED <<body, wf, cp, probe, w, changed, sent>>
    BY <1>49 DEF LaunchFlat
  <2>1. CASE job' = "queued" /\ UNCHANGED <<j, blame, count>>
    BY <2>0, <2>1
       DEF Shape, CallPending, Asking, Waiting, Call, PendingOK
  <2>2. CASE /\ j.status = "stopped" /\ j' = j
             /\ blame' = blame \cup {"launch"} /\ UNCHANGED <<job, count>>
    BY <2>0, <2>2
       DEF Shape, CallPending, Asking, Waiting, Call, PendingOK
  <2>3. CASE /\ j.status # "stopped" /\ j' = Stopped("failed", FALSE)
             /\ blame' = blame \cup {"launch"} /\ UNCHANGED <<job, count>>
    BY <2>0, <2>3, StoppedFields
       DEF Shape, CallPending, Asking, Waiting, Call, PendingOK
  <2>4. CASE /\ Room /\ count' = [count EXCEPT !.crashes = @ + 1]
             /\ blame' = blame \cup {"api"} /\ UNCHANGED <<j, job>>
    BY <2>0, <2>4
       DEF Shape, CallPending, Asking, Waiting, Call, PendingOK
  <2> QED BY <1>49, <2>1, <2>2, <2>3, <2>4 DEF LaunchFlat
<1>50. CASE CancelFlat
  BY <1>50, CancelMoves
     DEF Shape, CallPending, Asking, Waiting, Call, PendingOK
<1>51. CASE CancelJobFlat
  BY <1>51, OffWorker
     DEF CancelJobFlat, Shape, CallPending, Asking, Waiting, Call, PendingOK
<1>52. CASE ExtendBudgetFlat
  BY <1>52, ExtendBudgetMoves
     DEF Shape, CallPending, Asking, Waiting, Call, PendingOK
<1>53. CASE ChangeDataFlat
  BY <1>53
     DEF ChangeDataFlat, Shape, CallPending, Asking, Waiting, Call, PendingOK
<1>54. CASE UNCHANGED vars
  BY <1>54 DEF vars, Shape, CallPending, Asking, Waiting, Call, PendingOK
<1>55. QED BY NextIsFlat, <1>1, <1>2, <1>3, <1>4, <1>5, <1>6, <1>7, <1>8, <1>9, <1>10, <1>11,
         <1>12, <1>13, <1>14, <1>15, <1>16, <1>17, <1>18, <1>19, <1>20, <1>21, <1>22, <1>23,
         <1>24, <1>25, <1>26, <1>27, <1>28, <1>29, <1>30, <1>31, <1>32, <1>33, <1>34, <1>35,
         <1>36, <1>37, <1>38, <1>39, <1>40, <1>41, <1>42, <1>43, <1>44, <1>45, <1>46, <1>47,
         <1>48, <1>49, <1>50, <1>51, <1>52, <1>53, <1>54 DEF NextFlat

\* At most the tool at hand is pending while a worker works.
LEMMA ToolPendingStep ==
    ASSUME Shape, JournalOK, CkptOK(cp), PlaceOK, PendingOK, [Next]_vars
    PROVE  ToolPending'
<1>1. CASE ClaimFlat
  BY <1>1, FreshWorker
     DEF ClaimFlat, Shape, ToolPending, Tooling, Waiting, Mine, PendingOK
<1>2. CASE VerifyFlat
  <2>0. /\ job = "live" /\ w.pc = "verify"
        /\ UNCHANGED <<j, body, wf, cp, probe, api, changed, sent, count>>
    BY <1>2 DEF VerifyFlat
  <2>1. CASE changed /\ w' = Off /\ job' = "failed" /\ blame' = blame \cup {"witness"}
    BY <2>0, <2>1, OffWorker
       DEF Shape, ToolPending, Tooling, Waiting, Mine, PendingOK
  <2>2. CASE j.status = "stopped" /\ Goto("enter") /\ UNCHANGED <<job, blame>>
    BY <2>0, <2>2, GotoWorker
       DEF Shape, ToolPending, Tooling, Waiting, Mine, PendingOK, JournalOK
  <2>3. CASE /\ j.status # "stopped" /\ UNCHANGED <<job, blame>>
             /\ ToRecover(j.calls \cup j.slots)
    BY <2>0, <2>3, RecoverWorker
       DEF Shape, ToolPending, Tooling, Waiting, Mine, PendingOK
  <2> QED BY <1>2, <2>1, <2>2, <2>3 DEF VerifyFlat
<1>3. CASE RecoverCallFlat
  BY <1>3, OffWorker, SettleRestWorker, CallUncertainFields, CallCompletedFields
     DEF RecoverCallFlat, Shape, ToolPending, Tooling, Waiting, Mine, PendingOK
<1>4. CASE RecoverToolFlat
  BY <1>4, OffWorker, SettleRestWorker, ToolFailedFields, ReceiptPreparedFields,
         ReceiptCommittedFields
     DEF RecoverToolFlat, Shape, ToolPending, Tooling, Waiting, Mine, PendingOK
<1>5. CASE RecoveredFlat
  BY <1>5, EnterWorker
     DEF RecoveredFlat, Shape, ToolPending, Tooling, Waiting, Mine, PendingOK, TodoOK, JournalOK
<1>6. CASE EnterFlat
  <2>0. /\ job = "live" /\ w.pc = "enter"
        /\ UNCHANGED <<body, wf, cp, probe, job, api, changed, sent, blame, count>>
    BY <1>6 DEF EnterFlat
  <2>1. CASE /\ j.status = "pause_requested" /\ j' = [j EXCEPT !.status = "paused"]
             /\ ToFresh("ending")
    BY <2>0, <2>1, FreshWorker, StatusFields
       DEF Shape, ToolPending, Tooling, Waiting, Mine, PendingOK
  <2>2. CASE j.status \in {"stopped", "paused"} /\ j' = j /\ ToFresh("ending")
    BY <2>0, <2>2, FreshWorker
       DEF Shape, ToolPending, Tooling, Waiting, Mine, PendingOK
  <2>3. CASE /\ j.status = "running" /\ j' = Stopped("state_witness_changed", FALSE)
             /\ ToFresh("ending")
    <3>1. w'.pc = "ending"
      BY <2>3, FreshWorker
    <3>2. j'.status = "stopped" /\ j'.calls = {} /\ j'.slots = {}
      BY <2>3, StoppedFields DEF Shape
    <3> QED BY <2>0, <3>1, <3>2 DEF ToolPending, Tooling, Waiting
  <2>4. CASE j.status \notin {"pause_requested", "stopped", "paused"} /\ j' = j /\ Goto("node")
    BY <2>0, <2>4, GotoWorker
       DEF Shape, ToolPending, Tooling, Waiting, Mine, PendingOK
  <2> QED BY <1>6, <2>1, <2>2, <2>3, <2>4 DEF EnterFlat
<1>7. CASE WriteCheckpointFlat
  BY <1>7, NodeWorker
     DEF WriteCheckpointFlat, Shape, ToolPending, Tooling, Waiting, Mine, PendingOK
<1>8. CASE EndAttemptFlat
  BY <1>8, OffWorker
     DEF EndAttemptFlat, Shape, ToolPending, Tooling, Waiting, Mine, PendingOK
<1>9. CASE OrientFlat
  <2>0. /\ job = "live" /\ w.pc = "node" /\ cp.node = "orient"
        /\ UNCHANGED <<j, body, wf, cp, probe, job, api, changed, sent, blame, count>>
    BY <1>9 DEF OrientFlat
  <2>1. CASE j.status # "running" /\ Raise(IF j.status = "stopped" THEN "cancel" ELSE "pause")
    BY <2>0, <2>1, RaiseWorker
       DEF Shape, ToolPending, Tooling, Waiting, Mine, PendingOK
  <2>2. CASE j.status = "running" /\ Raise("budget")
    BY <2>0, <2>2, RaiseWorker
       DEF Shape, ToolPending, Tooling, Waiting, Mine, PendingOK
  <2>3. CASE j.status = "running" /\ changed /\ Raise("witness")
    BY <2>0, <2>3, RaiseWorker
       DEF Shape, ToolPending, Tooling, Waiting, Mine, PendingOK
  <2>4. CASE /\ j.status = "running" /\ j.open
             /\ Checkpoint([cp EXCEPT !.node = "generate", !.round = j.settled])
    BY <2>0, <2>4, CheckpointWorker
       DEF Shape, ToolPending, Tooling, Waiting, Mine, PendingOK
  <2>5. CASE j.status = "running" /\ ~j.open /\ ~(j.rounds <= 0) /\ Goto("open")
    BY <2>0, <2>5, GotoWorker
       DEF Shape, ToolPending, Tooling, Waiting, Mine, PendingOK
  <2> QED BY <1>9, <2>1, <2>2, <2>3, <2>4, <2>5 DEF OrientFlat
<1>10. CASE OpenRoundFlat
  BY <1>10, RaiseWorker, CheckpointWorker, RoundStartedFields
     DEF OpenRoundFlat, Shape, ToolPending, Tooling, Waiting, Mine, PendingOK
<1>11. CASE GenerateFlat
  BY <1>11, RaiseWorker, CheckpointWorker, StartWorker
     DEF GenerateFlat, Shape, ToolPending, Tooling, Waiting, Mine, PendingOK
<1>12. CASE StartCallFlat
  BY <1>12, GotoWorker, RaiseWorker, CallStartedFields
     DEF StartCallFlat, Shape, ToolPending, Tooling, Waiting, Mine, PendingOK
<1>13. CASE SendFlat
  BY <1>13, GotoWorker
     DEF SendFlat, Shape, ToolPending, Tooling, Waiting, Mine, PendingOK
<1>14. CASE SendRefusedFlat
  BY <1>14, RaiseWorker, ProbeLoopWorker, CallRejectedFields
     DEF SendRefusedFlat, Shape, ToolPending, Tooling, Waiting, Mine, PendingOK
<1>15. CASE AnsweredFlat
  BY <1>15, KeepWorker
     DEF AnsweredFlat, Shape, ToolPending, Tooling, Waiting, Mine, PendingOK
<1>16. CASE AnswerUnknownFlat
  BY <1>16, RaiseWorker, ProbeLoopWorker, CallUncertainFields
     DEF AnswerUnknownFlat, Shape, ToolPending, Tooling, Waiting, Mine, PendingOK
<1>17. CASE AnswerMalformedFlat
  BY <1>17, RaiseWorker, ProbeLoopWorker, StartWorker, CallRejectedFields
     DEF AnswerMalformedFlat, Shape, ToolPending, Tooling, Waiting, Mine, PendingOK
<1>18. CASE AnswerUnavailableFlat
  BY <1>18, RaiseWorker, ProbeLoopWorker, CallRejectedFields
     DEF AnswerUnavailableFlat, Shape, ToolPending, Tooling, Waiting, Mine, PendingOK
<1>19. CASE KeepAnswerFlat
  BY <1>19, GotoWorker
     DEF KeepAnswerFlat, Shape, ToolPending, Tooling, Waiting, Mine, PendingOK
<1>20. CASE CompleteCallFlat
  BY <1>20, RaiseWorker, CheckpointWorker, ProbeLoopWorker, CallCompletedFields
     DEF CompleteCallFlat, Shape, ToolPending, Tooling, Waiting, Mine, PendingOK
<1>21. CASE ScheduleFlat
  BY <1>21, RaiseWorker, CheckpointWorker
     DEF ScheduleFlat, Shape, ToolPending, Tooling, Waiting, Mine, PendingOK
<1>22. CASE PassNodeFlat
  BY <1>22, RaiseWorker, CheckpointWorker
     DEF PassNodeFlat, Shape, ToolPending, Tooling, Waiting, Mine, PendingOK
<1>23. CASE ExecuteFlat
  <2>0. /\ job = "live" /\ w.pc = "node" /\ cp.node = "execute_probes"
        /\ UNCHANGED <<j, body, wf, cp, probe, job, api, changed, sent, blame, count>>
    BY <1>23 DEF ExecuteFlat
  <2>1. CASE j.status # "running" /\ Raise(IF j.status = "stopped" THEN "cancel" ELSE "pause")
    BY <2>0, <2>1, RaiseWorker
       DEF Shape, ToolPending, Tooling, Waiting, Mine, PendingOK
  <2>2. CASE j.status = "running" /\ ToProbes
    BY <2>0, <2>2, ProbesWorker, SMTT(60)
       DEF Shape, ToolPending, Tooling, Waiting, Mine, PendingOK
  <2> QED BY <1>23, <2>1, <2>2 DEF ExecuteFlat
<1>24. CASE NextProbeFlat
  BY <1>24, RaiseWorker, CheckpointWorker, ProbeWorker
     DEF NextProbeFlat, Shape, ToolPending, Tooling, Waiting, Mine, PendingOK
<1>25. CASE AskModelFlat
  BY <1>25, GotoWorker, ProbeLoopWorker
     DEF AskModelFlat, Shape, ToolPending, Tooling, Waiting, Mine, PendingOK
<1>26. CASE UseToolFlat
  <2>0. /\ job = "live" /\ w.pc = "probes" /\ w.p <= cp.n
        /\ UNCHANGED <<j, body, wf, cp, job, api, changed, sent, blame, count>>
    BY <1>26 DEF UseToolFlat
  <2>1. CASE Done(Mine) /\ Mine \notin DOMAIN body /\ probe' = [probe EXCEPT ![Here] = "bad"] /\ ProbeLoop
    BY <2>0, <2>1, ProbeLoopWorker
       DEF Shape, ToolPending, Tooling, Waiting, Mine, PendingOK, Done
  <2>2. CASE /\ \E x \in {"end", "spent"} : probe' = [probe EXCEPT ![Here] = x]
             /\ ProbeLoop
    BY <2>0, <2>2, ProbeLoopWorker
       DEF Shape, ToolPending, Tooling, Waiting, Mine, PendingOK, Done
  <2>3. CASE ~Done(Mine) /\ ~(w.led <= 0) /\ Goto("tstart") /\ probe' = probe
    BY <2>0, <2>3, GotoWorker
       DEF Shape, ToolPending, Tooling, Waiting, Mine, PendingOK, Done
  <2> QED BY <1>26, <2>1, <2>2, <2>3 DEF UseToolFlat
<1>27. CASE StartToolFlat
  BY <1>27, GotoWorker, RaiseWorker, ToolStartedFields
     DEF StartToolFlat, Shape, ToolPending, Tooling, Waiting, Mine, PendingOK
<1>28. CASE RunToolFlat
  BY <1>28, ResultWorker
     DEF RunToolFlat, Shape, ToolPending, Tooling, Waiting, Mine, PendingOK
<1>29. CASE FailToolFlat
  <2>0. /\ job = "live" /\ w.pc = "run"
        /\ UNCHANGED <<body, wf, cp, job, api, changed, sent, blame, count>>
    BY <1>29 DEF FailToolFlat
  <2>1. CASE j.status = "stopped" /\ Raise("error") /\ UNCHANGED <<j, probe>>
    BY <2>0, <2>1, RaiseWorker
       DEF Shape, ToolPending, Tooling, Waiting, Mine, PendingOK, JournalOK
  <2>2. CASE /\ j.status # "stopped" /\ j' = ToolFailed(Mine)
             /\ probe' = [probe EXCEPT ![Here] = "end"] /\ ProbeLoop
    BY <2>0, <2>2, ProbeLoopWorker, ToolFailedFields
       DEF Shape, ToolPending, Tooling, Waiting, Mine, PendingOK
  <2> QED BY <1>29, <2>1, <2>2 DEF FailToolFlat
<1>30. CASE KeepResultFlat
  BY <1>30, PrepareWorker
     DEF KeepResultFlat, Shape, ToolPending, Tooling, Waiting, Mine, PendingOK
<1>31. CASE PrepareReceiptFlat
  <2>0. /\ job = "live" /\ w.pc = "prepare"
        /\ UNCHANGED <<body, wf, cp, probe, job, api, changed, sent, blame, count>>
    BY <1>31 DEF PrepareReceiptFlat
  <2>1. CASE /\ j.status # "stopped" /\ Mine \in j.slots
             /\ j' = ReceiptPrepared(Mine) /\ Goto("commit")
    BY <2>0, <2>1, GotoWorker, ReceiptPreparedFields
       DEF Shape, ToolPending, Tooling, Waiting, Mine, PendingOK
  <2>2. CASE ~(j.status # "stopped" /\ Mine \in j.slots) /\ j' = j /\ Raise("error")
    BY <2>0, <2>2, RaiseWorker
       DEF Shape, ToolPending, Tooling, Waiting, Mine, PendingOK, JournalOK
  <2> QED BY <1>31, <2>1, <2>2 DEF PrepareReceiptFlat
<1>32. CASE CommitReceiptFlat
  <2>0. /\ job = "live" /\ w.pc = "commit"
        /\ UNCHANGED <<body, wf, cp, probe, job, api, changed, sent, blame, count>>
    BY <1>32 DEF CommitReceiptFlat
  <2>1. CASE /\ j.status # "stopped" /\ Mine \in j.prep
             /\ j' = ReceiptCommitted(Mine, w.val) /\ ProbeLoop
    BY <2>0, <2>1, ProbeLoopWorker, ReceiptCommittedFields
       DEF Shape, ToolPending, Tooling, Waiting, Mine, PendingOK
  <2>2. CASE ~(j.status # "stopped" /\ Mine \in j.prep) /\ j' = j /\ Raise("error")
    BY <2>0, <2>2, RaiseWorker
       DEF Shape, ToolPending, Tooling, Waiting, Mine, PendingOK, JournalOK
  <2> QED BY <1>32, <2>1, <2>2 DEF CommitReceiptFlat
<1>33. CASE ReduceFlat
  <2>0. /\ job = "live" /\ w.pc = "node" /\ cp.node = "reduce"
        /\ UNCHANGED <<j, body, wf, cp, probe, job, api, changed, sent, blame, count>>
    BY <1>33 DEF ReduceFlat
  <2>1. CASE j.status # "running" /\ Raise(IF j.status = "stopped" THEN "cancel" ELSE "pause")
    BY <2>0, <2>1, RaiseWorker
       DEF Shape, ToolPending, Tooling, Waiting, Mine, PendingOK
  <2>2. CASE /\ j.status = "running" /\ j.committed /\ j.redn = body[Red(cp.round)]
             /\ Checkpoint([cp EXCEPT !.node = "settle", !.red = j.redn, !.before = Snapshot])
    BY <2>0, <2>2, CheckpointWorker
       DEF Shape, ToolPending, Tooling, Waiting, Mine, PendingOK
  <2>3. CASE /\ j.status = "running" /\ j.committed /\ j.redn # body[Red(cp.round)]
             /\ Raise("error")
    BY <2>0, <2>3, RaiseWorker
       DEF Shape, ToolPending, Tooling, Waiting, Mine, PendingOK
  <2>4. CASE j.status = "running" /\ ~j.committed /\ Goto("gate")
    BY <2>0, <2>4, GotoWorker
       DEF Shape, ToolPending, Tooling, Waiting, Mine, PendingOK
  <2>5. CASE /\ j.status = "running" /\ ~j.committed
             /\ ToOutcome([v |-> "dry", fresh |-> TRUE])
    BY <2>0, <2>5, OutcomeWorker
       DEF Shape, ToolPending, Tooling, Waiting, Mine, PendingOK
  <2> QED BY <1>33, <2>1, <2>2, <2>3, <2>4, <2>5 DEF ReduceFlat
<1>34. CASE GateVerdictFlat
  <2>0. /\ job = "live" /\ w.pc = "gate"
        /\ UNCHANGED <<body, wf, cp, probe, job, api, changed, sent, blame, count>>
    BY <1>34 DEF GateVerdictFlat
  <2>1. CASE /\ j' = j \/ (j.status = "running" /\ j' = [j EXCEPT !.gated = @ \cup {cp.round}])
             /\ Goto("persist")
    BY <2>0, <2>1, GotoWorker, GatedFields
       DEF Shape, ToolPending, Tooling, Waiting, Mine, PendingOK
  <2>2. CASE ~(j.status = "running" /\ NoPending /\ j.open) /\ j' = j /\ Raise("error")
    BY <2>0, <2>2, RaiseWorker
       DEF Shape, ToolPending, Tooling, Waiting, Mine, PendingOK
  <2> QED BY <1>34, <2>1, <2>2 DEF GateVerdictFlat
<1>35. CASE PersistReductionFlat
  BY <1>35, OutcomeWorker
     DEF PersistReductionFlat, Shape, ToolPending, Tooling, Waiting, Mine, PendingOK
<1>36. CASE KeepReductionFlat
  BY <1>36, GotoWorker, RaiseWorker
     DEF KeepReductionFlat, Shape, ToolPending, Tooling, Waiting, Mine, PendingOK
<1>37. CASE CommitReductionFlat
  BY <1>37, RaiseWorker, CheckpointWorker, ReductionCommittedFields
     DEF CommitReductionFlat, Shape, ToolPending, Tooling, Waiting, Mine, PendingOK
<1>38. CASE SettleFlat
  BY <1>38, GotoWorker, RaiseWorker, RoundSettledFields
     DEF SettleFlat, Shape, ToolPending, Tooling, Waiting, Mine, PendingOK
<1>39. CASE AfterSettleFlat
  BY <1>39, RaiseWorker, CheckpointWorker
     DEF AfterSettleFlat, Shape, ToolPending, Tooling, Waiting, Mine, PendingOK
<1>40. CASE SynthesizeFlat
  BY <1>40, RaiseWorker, StopWorker
     DEF SynthesizeFlat, Shape, ToolPending, Tooling, Waiting, Mine, PendingOK
<1>41. CASE StopFlat
  BY <1>41, RaiseWorker, OffWorker, FreshWorker, BareWorker, StoppedFields
     DEF StopFlat, Shape, ToolPending, Tooling, Waiting, Mine, PendingOK
<1>42. CASE HandlePauseFlat
  BY <1>42, HandlePauseMoves
     DEF Shape, ToolPending, Tooling, Waiting, Mine, PendingOK
<1>43. CASE HandleCancelFlat
  BY <1>43, FreshWorker
     DEF HandleCancelFlat, Shape, ToolPending, Tooling, Waiting, Mine, PendingOK
<1>44. CASE HandleStopFlat
  BY <1>44, RaiseWorker, StopWorker
     DEF HandleStopFlat, Shape, ToolPending, Tooling, Waiting, Mine, PendingOK
<1>45. CASE CrashFlat
  BY <1>45, OffWorker
     DEF CrashFlat, Shape, ToolPending, Tooling, Waiting, Mine, PendingOK
<1>46. CASE RerunFlat
  BY <1>46
     DEF RerunFlat, Shape, ToolPending, Tooling, Waiting, Mine, PendingOK
<1>47. CASE PauseFlat
  BY <1>47, PauseMoves
     DEF Shape, ToolPending, Tooling, Waiting, Mine, PendingOK
<1>48. CASE ResumeFlat
  <2>0. /\ j.status = "paused" /\ api = "idle"
        /\ UNCHANGED <<body, wf, cp, probe, w, job, changed, sent, blame, count>>
    BY <1>48 DEF ResumeFlat
  <2>1. CASE changed /\ j' = Stopped("state_witness_changed", FALSE) /\ api' = api
    BY <2>0, <2>1, StoppedFields
       DEF Shape, ToolPending, Tooling, Waiting, Mine, PendingOK
  <2>2. CASE /\ job \notin {"queued", "live"} /\ j' = [j EXCEPT !.status = "running"]
             /\ api' = "launching"
    BY <2>0, <2>2, StatusFields
       DEF Shape, ToolPending, Tooling, Waiting, Mine, PendingOK
  <2> QED BY <1>48, <2>1, <2>2 DEF ResumeFlat
<1>49. CASE LaunchFlat
  <2>0. /\ api = "launching"
        /\ api' = "idle"
        /\ UNCHANGED <<body, wf, cp, probe, w, changed, sent>>
    BY <1>49 DEF LaunchFlat
  <2>1. CASE job' = "queued" /\ UNCHANGED <<j, blame, count>>
    BY <2>0, <2>1
       DEF Shape, ToolPending, Tooling, Waiting, Mine, PendingOK
  <2>2. CASE /\ j.status = "stopped" /\ j' = j
             /\ blame' = blame \cup {"launch"} /\ UNCHANGED <<job, count>>
    BY <2>0, <2>2
       DEF Shape, ToolPending, Tooling, Waiting, Mine, PendingOK
  <2>3. CASE /\ j.status # "stopped" /\ j' = Stopped("failed", FALSE)
             /\ blame' = blame \cup {"launch"} /\ UNCHANGED <<job, count>>
    BY <2>0, <2>3, StoppedFields
       DEF Shape, ToolPending, Tooling, Waiting, Mine, PendingOK
  <2>4. CASE /\ Room /\ count' = [count EXCEPT !.crashes = @ + 1]
             /\ blame' = blame \cup {"api"} /\ UNCHANGED <<j, job>>
    BY <2>0, <2>4
       DEF Shape, ToolPending, Tooling, Waiting, Mine, PendingOK
  <2> QED BY <1>49, <2>1, <2>2, <2>3, <2>4 DEF LaunchFlat
<1>50. CASE CancelFlat
  BY <1>50, CancelMoves
     DEF Shape, ToolPending, Tooling, Waiting, Mine, PendingOK
<1>51. CASE CancelJobFlat
  BY <1>51, OffWorker
     DEF CancelJobFlat, Shape, ToolPending, Tooling, Waiting, Mine, PendingOK
<1>52. CASE ExtendBudgetFlat
  BY <1>52, ExtendBudgetMoves
     DEF Shape, ToolPending, Tooling, Waiting, Mine, PendingOK
<1>53. CASE ChangeDataFlat
  BY <1>53
     DEF ChangeDataFlat, Shape, ToolPending, Tooling, Waiting, Mine, PendingOK
<1>54. CASE UNCHANGED vars
  BY <1>54 DEF vars, Shape, ToolPending, Tooling, Waiting, Mine, PendingOK
<1>55. QED BY NextIsFlat, <1>1, <1>2, <1>3, <1>4, <1>5, <1>6, <1>7, <1>8, <1>9, <1>10, <1>11,
         <1>12, <1>13, <1>14, <1>15, <1>16, <1>17, <1>18, <1>19, <1>20, <1>21, <1>22, <1>23,
         <1>24, <1>25, <1>26, <1>27, <1>28, <1>29, <1>30, <1>31, <1>32, <1>33, <1>34, <1>35,
         <1>36, <1>37, <1>38, <1>39, <1>40, <1>41, <1>42, <1>43, <1>44, <1>45, <1>46, <1>47,
         <1>48, <1>49, <1>50, <1>51, <1>52, <1>53, <1>54 DEF NextFlat

\* A recovery settles what it found pending, and nothing else.
LEMMA TodoStep ==
    ASSUME Shape, JournalOK, CkptOK(cp), PlaceOK, PendingOK, [Next]_vars
    PROVE  TodoOK'
<1>1. CASE ClaimFlat
  BY <1>1, FreshWorker
     DEF ClaimFlat, TodoOK, PendingOK, Shape
<1>2. CASE VerifyFlat
  <2>0. /\ job = "live" /\ w.pc = "verify"
        /\ UNCHANGED <<j, body, wf, cp, probe, api, changed, sent, count>>
    BY <1>2 DEF VerifyFlat
  <2>1. CASE changed /\ w' = Off /\ job' = "failed" /\ blame' = blame \cup {"witness"}
    BY <2>0, <2>1, OffWorker
       DEF TodoOK, PendingOK, Shape
  <2>2. CASE j.status = "stopped" /\ Goto("enter") /\ UNCHANGED <<job, blame>>
    BY <2>0, <2>2, GotoWorker
       DEF TodoOK, PendingOK, Shape
  <2>3. CASE /\ j.status # "stopped" /\ UNCHANGED <<job, blame>>
             /\ ToRecover(j.calls \cup j.slots)
    BY <2>0, <2>3, RecoverWorker
       DEF TodoOK, PendingOK, Shape, JournalOK
  <2> QED BY <1>2, <2>1, <2>2, <2>3 DEF VerifyFlat
<1>3. CASE RecoverCallFlat
  <2>1. PICK c \in w.todo \cap Calls :
           \/ w' = Off
           \/ /\ j.status # "stopped" /\ ToSettleRest(w.todo \ {c})
              /\ CallSettles(c)
    BY <1>3 DEF RecoverCallFlat, CallSettles
  <2>2. CASE w' = Off
    BY <2>2, OffWorker DEF TodoOK
  <2>3. CASE j.status # "stopped" /\ ToSettleRest(w.todo \ {c}) /\ CallSettles(c)
    <3>1. w.pc = "recover"
      BY <1>3 DEF RecoverCallFlat
    <3>2. w'.todo = w.todo \ {c} /\ w'.pc = w.pc
      BY <2>3, SettleRestWorker DEF Shape
    <3>3. j'.calls = j.calls \ {c} /\ j'.slots = j.slots
      BY <2>3, CallCompletedFields, CallRejectedFields, CallUncertainFields DEF CallSettles,
         Shape
    <3>4. c \notin j.slots
      BY ToolsAreNoCalls DEF JournalOK
    <3> QED BY <2>3, <3>1, <3>2, <3>3, <3>4 DEF TodoOK, PendingOK
  <2> QED BY <2>1, <2>2, <2>3
<1>4. CASE RecoverToolFlat
  <2>1. PICK t \in w.todo :
           \/ w' = Off
           \/ /\ j.status # "stopped"
              /\ \/ j' = ToolFailed(t) /\ ToSettleRest(w.todo \ {t})
                 \/ j' = ReceiptPrepared(t) /\ ToSettleRest(w.todo)
                 \/ j' = ReceiptCommitted(t, body[t]) /\ ToSettleRest(w.todo \ {t})
    BY <1>4 DEF RecoverToolFlat
  <2>2. w.pc = "recover" /\ w.todo \cap Calls = {}
    BY <1>4 DEF RecoverToolFlat
  <2>3. CASE w' = Off
    BY <2>3, OffWorker DEF TodoOK
  <2>4. CASE j.status # "stopped" /\ j' = ToolFailed(t) /\ ToSettleRest(w.todo \ {t})
    BY <2>2, <2>4, ToolFailedFields, SettleRestWorker DEF TodoOK, PendingOK, Shape, JournalOK
  <2>5. CASE j.status # "stopped" /\ j' = ReceiptPrepared(t) /\ ToSettleRest(w.todo)
    BY <2>2, <2>5, ReceiptPreparedFields, SettleRestWorker DEF TodoOK, PendingOK, Shape
  <2>6. CASE /\ j.status # "stopped" /\ j' = ReceiptCommitted(t, body[t])
             /\ ToSettleRest(w.todo \ {t})
    BY <2>2, <2>6, ReceiptCommittedFields, SettleRestWorker DEF TodoOK, PendingOK, Shape,
         JournalOK
  <2> QED BY <2>1, <2>3, <2>4, <2>5, <2>6
<1>5. CASE RecoveredFlat
  BY <1>5, EnterWorker
     DEF RecoveredFlat, TodoOK, PendingOK, Shape
<1>6. CASE EnterFlat
  <2>0. /\ job = "live" /\ w.pc = "enter"
        /\ UNCHANGED <<body, wf, cp, probe, job, api, changed, sent, blame, count>>
    BY <1>6 DEF EnterFlat
  <2>1. CASE /\ j.status = "pause_requested" /\ j' = [j EXCEPT !.status = "paused"]
             /\ ToFresh("ending")
    BY <2>0, <2>1, FreshWorker
       DEF TodoOK, PendingOK, Shape
  <2>2. CASE j.status \in {"stopped", "paused"} /\ j' = j /\ ToFresh("ending")
    BY <2>0, <2>2, FreshWorker
       DEF TodoOK, PendingOK, Shape
  <2>3. CASE /\ j.status = "running" /\ j' = Stopped("state_witness_changed", FALSE)
             /\ ToFresh("ending")
    <3>1. w'.pc = "ending"
      BY <2>3, FreshWorker
    <3> QED BY <2>0, <3>1 DEF TodoOK
  <2>4. CASE j.status \notin {"pause_requested", "stopped", "paused"} /\ j' = j /\ Goto("node")
    BY <2>0, <2>4, GotoWorker
       DEF TodoOK, PendingOK, Shape
  <2> QED BY <1>6, <2>1, <2>2, <2>3, <2>4 DEF EnterFlat
<1>7. CASE WriteCheckpointFlat
  BY <1>7, NodeWorker
     DEF WriteCheckpointFlat, TodoOK, PendingOK, Shape
<1>8. CASE EndAttemptFlat
  BY <1>8, OffWorker
     DEF EndAttemptFlat, TodoOK, PendingOK, Shape
<1>9. CASE OrientFlat
  BY <1>9, GotoWorker, RaiseWorker, CheckpointWorker
     DEF OrientFlat, TodoOK, PendingOK, Shape
<1>10. CASE OpenRoundFlat
  BY <1>10, RaiseWorker, CheckpointWorker
     DEF OpenRoundFlat, TodoOK, PendingOK, Shape
<1>11. CASE GenerateFlat
  BY <1>11, RaiseWorker, CheckpointWorker, StartWorker
     DEF GenerateFlat, TodoOK, PendingOK, Shape
<1>12. CASE StartCallFlat
  BY <1>12, GotoWorker, RaiseWorker
     DEF StartCallFlat, TodoOK, PendingOK, Shape
<1>13. CASE SendFlat
  BY <1>13, GotoWorker
     DEF SendFlat, TodoOK, PendingOK, Shape
<1>14. CASE SendRefusedFlat
  BY <1>14, RaiseWorker, ProbeLoopWorker
     DEF SendRefusedFlat, TodoOK, PendingOK, Shape
<1>15. CASE AnsweredFlat
  BY <1>15, KeepWorker
     DEF AnsweredFlat, TodoOK, PendingOK, Shape
<1>16. CASE AnswerUnknownFlat
  BY <1>16, RaiseWorker, ProbeLoopWorker
     DEF AnswerUnknownFlat, TodoOK, PendingOK, Shape
<1>17. CASE AnswerMalformedFlat
  BY <1>17, RaiseWorker, ProbeLoopWorker, StartWorker
     DEF AnswerMalformedFlat, TodoOK, PendingOK, Shape
<1>18. CASE AnswerUnavailableFlat
  BY <1>18, RaiseWorker, ProbeLoopWorker
     DEF AnswerUnavailableFlat, TodoOK, PendingOK, Shape
<1>19. CASE KeepAnswerFlat
  BY <1>19, GotoWorker
     DEF KeepAnswerFlat, TodoOK, PendingOK, Shape
<1>20. CASE CompleteCallFlat
  BY <1>20, RaiseWorker, CheckpointWorker, ProbeLoopWorker
     DEF CompleteCallFlat, TodoOK, PendingOK, Shape
<1>21. CASE ScheduleFlat
  BY <1>21, RaiseWorker, CheckpointWorker
     DEF ScheduleFlat, TodoOK, PendingOK, Shape
<1>22. CASE PassNodeFlat
  BY <1>22, RaiseWorker, CheckpointWorker
     DEF PassNodeFlat, TodoOK, PendingOK, Shape
<1>23. CASE ExecuteFlat
  <2>0. /\ job = "live" /\ w.pc = "node" /\ cp.node = "execute_probes"
        /\ UNCHANGED <<j, body, wf, cp, probe, job, api, changed, sent, blame, count>>
    BY <1>23 DEF ExecuteFlat
  <2>1. CASE j.status # "running" /\ Raise(IF j.status = "stopped" THEN "cancel" ELSE "pause")
    BY <2>0, <2>1, RaiseWorker
       DEF TodoOK, PendingOK, Shape
  <2>2. CASE j.status = "running" /\ ToProbes
    BY <2>0, <2>2, ProbesWorker, SMTT(60)
       DEF TodoOK, PendingOK, Shape
  <2> QED BY <1>23, <2>1, <2>2 DEF ExecuteFlat
<1>24. CASE NextProbeFlat
  BY <1>24, RaiseWorker, CheckpointWorker, ProbeWorker
     DEF NextProbeFlat, TodoOK, PendingOK, Shape
<1>25. CASE AskModelFlat
  BY <1>25, GotoWorker, ProbeLoopWorker
     DEF AskModelFlat, TodoOK, PendingOK, Shape
<1>26. CASE UseToolFlat
  BY <1>26, GotoWorker, ProbeLoopWorker
     DEF UseToolFlat, TodoOK, PendingOK, Shape
<1>27. CASE StartToolFlat
  BY <1>27, GotoWorker, RaiseWorker
     DEF StartToolFlat, TodoOK, PendingOK, Shape
<1>28. CASE RunToolFlat
  BY <1>28, ResultWorker
     DEF RunToolFlat, TodoOK, PendingOK, Shape
<1>29. CASE FailToolFlat
  BY <1>29, RaiseWorker, ProbeLoopWorker
     DEF FailToolFlat, TodoOK, PendingOK, Shape
<1>30. CASE KeepResultFlat
  BY <1>30, PrepareWorker
     DEF KeepResultFlat, TodoOK, PendingOK, Shape
<1>31. CASE PrepareReceiptFlat
  BY <1>31, GotoWorker, RaiseWorker
     DEF PrepareReceiptFlat, TodoOK, PendingOK, Shape
<1>32. CASE CommitReceiptFlat
  BY <1>32, RaiseWorker, ProbeLoopWorker
     DEF CommitReceiptFlat, TodoOK, PendingOK, Shape
<1>33. CASE ReduceFlat
  BY <1>33, GotoWorker, RaiseWorker, CheckpointWorker, OutcomeWorker
     DEF ReduceFlat, TodoOK, PendingOK, Shape
<1>34. CASE GateVerdictFlat
  BY <1>34, GotoWorker, RaiseWorker
     DEF GateVerdictFlat, TodoOK, PendingOK, Shape
<1>35. CASE PersistReductionFlat
  BY <1>35, OutcomeWorker
     DEF PersistReductionFlat, TodoOK, PendingOK, Shape
<1>36. CASE KeepReductionFlat
  BY <1>36, GotoWorker, RaiseWorker
     DEF KeepReductionFlat, TodoOK, PendingOK, Shape
<1>37. CASE CommitReductionFlat
  BY <1>37, RaiseWorker, CheckpointWorker
     DEF CommitReductionFlat, TodoOK, PendingOK, Shape
<1>38. CASE SettleFlat
  BY <1>38, GotoWorker, RaiseWorker
     DEF SettleFlat, TodoOK, PendingOK, Shape
<1>39. CASE AfterSettleFlat
  BY <1>39, RaiseWorker, CheckpointWorker
     DEF AfterSettleFlat, TodoOK, PendingOK, Shape
<1>40. CASE SynthesizeFlat
  BY <1>40, RaiseWorker, StopWorker
     DEF SynthesizeFlat, TodoOK, PendingOK, Shape
<1>41. CASE StopFlat
  BY <1>41, RaiseWorker, OffWorker, FreshWorker, BareWorker
     DEF StopFlat, TodoOK, PendingOK, Shape
<1>42. CASE HandlePauseFlat
  BY <1>42, OffWorker, FreshWorker
     DEF HandlePauseFlat, TodoOK, PendingOK, Shape
<1>43. CASE HandleCancelFlat
  BY <1>43, FreshWorker
     DEF HandleCancelFlat, TodoOK, PendingOK, Shape
<1>44. CASE HandleStopFlat
  BY <1>44, RaiseWorker, StopWorker
     DEF HandleStopFlat, TodoOK, PendingOK, Shape
<1>45. CASE CrashFlat
  BY <1>45, OffWorker
     DEF CrashFlat, TodoOK, PendingOK, Shape
<1>46. CASE PauseFlat
  BY <1>46, StatusFields
     DEF PauseFlat, TodoOK, PendingOK, Shape
<1>47. CASE ResumeFlat
  BY <1>47, StatusFields, StoppedFields
     DEF ResumeFlat, TodoOK, PendingOK, Shape
<1>48. CASE LaunchFlat
  BY <1>48, StoppedFields
     DEF LaunchFlat, TodoOK, PendingOK, Shape
<1>49. CASE CancelFlat
  BY <1>49, StoppedFields
     DEF CancelFlat, TodoOK, PendingOK, Shape
<1>50. CASE CancelJobFlat
  BY <1>50, OffWorker
     DEF CancelJobFlat, TodoOK, PendingOK, Shape
<1>51. CASE ExtendBudgetFlat
  BY <1>51, BudgetFields
     DEF ExtendBudgetFlat, TodoOK, PendingOK, Shape
<1>52. CASE UNCHANGED <<j, w>>
  BY <1>52 DEF TodoOK, PendingOK, Shape
<1>53. QED
  BY NextIsFlat, <1>1, <1>2, <1>3, <1>4, <1>5, <1>6, <1>7, <1>8, <1>9, <1>10, <1>11, <1>12,
         <1>13, <1>14, <1>15, <1>16, <1>17, <1>18, <1>19, <1>20, <1>21, <1>22, <1>23, <1>24,
         <1>25, <1>26, <1>27, <1>28, <1>29, <1>30, <1>31, <1>32, <1>33, <1>34, <1>35, <1>36,
         <1>37, <1>38, <1>39, <1>40, <1>41, <1>42, <1>43, <1>44, <1>45, <1>46, <1>47, <1>48,
         <1>49, <1>50, <1>51, <1>52
     DEF NextFlat, vars, RerunFlat, ChangeDataFlat

=============================================================================
