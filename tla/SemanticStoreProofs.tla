------------------------ MODULE SemanticStoreProofs ------------------------
(***************************************************************************)
(* Proofs about SemanticStore, for every number of processes, request      *)
(* keys, operations, previews, crashes and edits.                          *)
(***************************************************************************)
EXTENDS SemanticStore, TLAPS, FiniteSetTheorems

-----------------------------------------------------------------------------
(* The inductive invariant *)

Used == {o \in OpIds : ops[o].state # "none"}

\* A generation that is the head or is older than it.
Past(g) ==
    /\ head # NoHead /\ g.version <= head.version
    /\ g.version = head.version => g = head

\* Operations are journalled in the order of their numbers.
Dense == \E n \in Nat : Used = 1 .. n

\* What an operation adds to its base, and what makes its key its own.
OpOK(o) ==
    /\ head # NoHead
    /\ ops[o].key \in Requests
    /\ ops[o].target = [seeds   |-> ops[o].base.seeds \cup {Adds(ops[o].key)},
                        version |-> ops[o].base.version + 1]
    /\ ops[o].state = "done" => Past(ops[o].target)
    /\ ops[o].key \in Gens =>
          commands[ops[o].key].state # "none" /\ commands[ops[o].key].op = o

OpsOK == \A o \in Used : OpOK(o)

KeysOnce == \A o, q \in Used : ops[o].key = ops[q].key => o = q

\* Before the first head the files are as they were, or edited.
HeadOK ==
    /\ head # NoHead => head \in Committed
    /\ head = NoHead => files.seeds \in {{}, Foreign.seeds}
                        /\ files.version \in {0, Foreign.version}

CommandOK(g) ==
    /\ commands[g].op \in Used /\ ops[commands[g].op].key = g
    /\ commands[g].state = "executing" => ops[commands[g].op].state # "aborted"
    /\ commands[g].state = "committed" => ops[commands[g].op].state = "done"

CommandsOK == \A g \in Gens : commands[g].state # "none" => CommandOK(g)

RowOK ==
    /\ row.status \in {"executing", "consumed"} =>
          /\ row.gen \in Gens /\ commands[row.gen].state \in {"executing", "committed"}
          /\ row.key = commands[row.gen].op
    /\ row.status = "consumed" => commands[row.gen].state = "committed"

\* The generation a process compares with, and the one it has read.
SnapshotOK(p) ==
    /\ pc[p] \in {"read", "compare"} /\ loc[p].want # NoHead =>
          Past(loc[p].want) /\ loc[p].want \in Committed
    /\ pc[p] \in {"replay", "digest", "reserve"} => Past(loc[p].seen)
    /\ loc[p].reply # NoHead => loc[p].reply \in Committed

\* The command a promotion works for.
Bound(p) ==
    /\ loc[p].key \in Gens /\ commands[loc[p].key].state # "none"
    /\ commands[loc[p].key].op = loc[p].op

PlaceOK(p) ==
    /\ loc[p].goal = "update" => loc[p].key \in Keys
    /\ loc[p].goal = "promote" => loc[p].key \in Gens
    /\ pc[p] = "command" => loc[p].goal = "promote"
    /\ pc[p] \in {"read", "digest", "lock", "check", "replace"} => loc[p].item \in 1 .. 2
    /\ pc[p] \in {"lock", "check", "replace", "mark", "verify", "commit", "bind",
                  "compensate"} =>
          /\ loc[p].op \in Used
          /\ loc[p].own /\ loc[p].goal = "promote" => Bound(p)
    /\ pc[p] = "bind" => Bound(p) /\ ops[loc[p].op].state = "done"
    /\ pc[p] = "compensate" => Bound(p)

ProcOK(p) == SnapshotOK(p) /\ PlaceOK(p)

ProcsOK == \A p \in Procs : ProcOK(p)

Stored == Dense /\ OpsOK /\ KeysOnce /\ HeadOK /\ CommandsOK /\ RowOK

Inv == TypeOK /\ Stored /\ ProcsOK

-----------------------------------------------------------------------------
(* Facts about the operators *)

LEMMA ItemFacts ==
    /\ Len(Items) = 2 /\ Items[1] = "seeds" /\ Items[2] = "version"
    /\ \A i \in 1 .. 2 : Items[i] \in {"seeds", "version"}
BY DEF Items

\* An edit by somebody else is not what a generation can hold.
LEMMA ForeignFacts ==
    Foreign.seeds \notin SeedSets /\ Foreign.version \notin Nat
BY StoreAssumption DEF Foreign, SeedSets

LEMMA UnreadType == Unread \in Contents
BY DEF Unread, Contents, SeedSets

LEMMA IdleType == Idle \in Locals
BY StoreAssumption, UnreadType, ItemFacts DEF Idle, Locals

\* What a step does to the places and the locals of all processes.
LEMMA Moves ==
    ASSUME TypeOK, NEW p \in Procs, NEW place \in Places, NEW l \in Locals,
           GotoWith(p, place, l)
    PROVE  /\ pc' \in [Procs -> Places] /\ loc' \in [Procs -> Locals]
           /\ pc'[p] = place /\ loc'[p] = l
           /\ \A q \in Procs \ {p} : pc'[q] = pc[q] /\ loc'[q] = loc[q]
BY DEF TypeOK, GotoWith

\* What no step takes back.
Grows ==
    /\ \A g \in Contents : Past(g) => Past(g)'
    /\ Committed \subseteq Committed'
    /\ Used \subseteq Used'
    /\ \A o \in OpIds : ops[o].state = "done" => ops'[o].state = "done"
    /\ \A g \in Gens : commands[g].state # "none" =>
          commands'[g].state # "none" /\ commands'[g].op = commands[g].op

\* The processes that do not take the step.
LEMMA Others ==
    ASSUME Inv, Grows, NEW q \in Procs, pc'[q] = pc[q], loc'[q] = loc[q]
    PROVE  ProcOK(q)'
<1> USE DEF Inv
<1>1. ProcOK(q) /\ loc[q] \in Locals
  BY DEF TypeOK, ProcsOK
<1>2. SnapshotOK(q)'
  BY <1>1 DEF ProcOK, SnapshotOK, Grows, Locals
<1>3. Bound(q) => Bound(q)'
  BY DEF Bound, Grows
<1>4. loc[q].op \in Used /\ ops[loc[q].op].state = "done" => ops'[loc[q].op].state = "done"
  BY DEF Grows, Used
<1>5. PlaceOK(q)'
  BY <1>1, <1>3, <1>4 DEF ProcOK, PlaceOK, Grows
<1> QED BY <1>2, <1>5 DEF ProcOK

\* Where the processes are, and that each is right to be there.
Placed == pc \in [Procs -> Places] /\ loc \in [Procs -> Locals] /\ ProcsOK

LEMMA Step ==
    ASSUME Inv, Grows, NEW p \in Procs, NEW place \in Places, NEW l \in Locals,
           GotoWith(p, place, l),
           pc'[p] = place /\ loc'[p] = l => ProcOK(p)'
    PROVE  Placed'
<1>1. TypeOK
  BY DEF Inv
<1>2. /\ pc' \in [Procs -> Places] /\ loc' \in [Procs -> Locals]
      /\ pc'[p] = place /\ loc'[p] = l
      /\ \A q \in Procs \ {p} : pc'[q] = pc[q] /\ loc'[q] = loc[q]
  BY <1>1, Moves
<1>3. ASSUME NEW q \in Procs PROVE ProcOK(q)'
  BY <1>2, Others
<1> QED BY <1>2, <1>3 DEF Placed, ProcsOK

LEMMA Raises ==
    ASSUME Inv, Grows, NEW p \in Procs, Raise(p)
    PROVE  Placed'
<1>1. pc'[p] = "idle" /\ loc'[p] = Idle => ProcOK(p)'
  BY DEF ProcOK, SnapshotOK, PlaceOK, Idle
<1>2. "idle" \in Places
  BY DEF Places
<1> QED BY <1>1, <1>2, IdleType, Step DEF Raise

LEMMA Returns ==
    ASSUME Inv, Grows, NEW p \in Procs, NEW s \in Contents, s \in Committed', Return(p, s)
    PROVE  Placed'
<1> DEFINE l == [Idle EXCEPT !.reply = s]
<1>1. l \in Locals
  BY IdleType DEF Locals
<1>2. l.goal = "none" /\ l.reply = s
  BY DEF Idle
<1> HIDE DEF l
<1>3. pc'[p] = "idle" /\ loc'[p] = l => ProcOK(p)'
  BY <1>2 DEF ProcOK, SnapshotOK, PlaceOK
<1>4. "idle" \in Places
  BY DEF Places
<1>5. GotoWith(p, "idle", l)
  BY DEF Return, l
<1> QED BY <1>1, <1>3, <1>4, <1>5, Step

LEMMA CallFacts ==
    ASSUME Inv, NEW p \in Procs
    PROVE  /\ Call(p) \in Locals
           /\ Call(p).goal = loc[p].goal /\ Call(p).key = loc[p].key
           /\ Call(p).reply = NoHead /\ Call(p).item = 1 /\ Call(p).want = NoHead
           /\ Call(p).goal = "update" => Call(p).key \in Keys
           /\ Call(p).goal = "promote" => Call(p).key \in Gens
<1>1. loc[p] \in Locals /\ PlaceOK(p)
  BY DEF Inv, TypeOK, ProcsOK, ProcOK
<1>2. /\ Call(p) \in Locals
      /\ Call(p).goal = loc[p].goal /\ Call(p).key = loc[p].key
      /\ Call(p).reply = NoHead /\ Call(p).item = 1 /\ Call(p).want = NoHead
  BY <1>1, IdleType DEF Call, Locals, Idle
<1> QED BY <1>1, <1>2 DEF PlaceOK

LEMMA Finishes ==
    ASSUME Inv, Grows, NEW p \in Procs, NEW o \in Used', NEW own \in BOOLEAN,
           NEW recovers \in BOOLEAN, Used' \subseteq OpIds,
           own /\ loc[p].goal = "promote" =>
              commands'[loc[p].key].state # "none" /\ commands'[loc[p].key].op = o,
           Finish(p, o, own, recovers)
    PROVE  Placed'
<1> DEFINE l == [Call(p) EXCEPT !.op = o, !.own = own, !.recovers = recovers]
<1>1. /\ l \in Locals /\ l.goal = loc[p].goal /\ l.key = loc[p].key
      /\ l.reply = NoHead /\ l.op = o /\ l.own = own /\ l.item = 1
      /\ l.goal = "update" => l.key \in Keys
      /\ l.goal = "promote" => l.key \in Gens
  BY CallFacts DEF Locals
<1> HIDE DEF l
<1>2. pc'[p] = "lock" /\ loc'[p] = l => ProcOK(p)'
  BY <1>1 DEF ProcOK, SnapshotOK, PlaceOK, Bound
<1>3. "lock" \in Places
  BY DEF Places
<1>4. GotoWith(p, "lock", l)
  BY DEF Finish, l
<1> QED BY <1>1, <1>2, <1>3, <1>4, Step

LEMMA ReadsFor ==
    ASSUME Inv, Grows, NEW p \in Procs, NEW g \in Contents \cup {NoHead},
           g # NoHead => Past(g)' /\ g \in Committed', ReadFor(p, g)
    PROVE  Placed'
<1> DEFINE l == [Call(p) EXCEPT !.want = g]
<1>1. /\ l \in Locals /\ l.goal = loc[p].goal /\ l.key = loc[p].key
      /\ l.reply = NoHead /\ l.want = g /\ l.item = 1
      /\ l.goal = "update" => l.key \in Keys
      /\ l.goal = "promote" => l.key \in Gens
  BY CallFacts DEF Locals
<1> HIDE DEF l
<1>2. pc'[p] = "read" /\ loc'[p] = l => ProcOK(p)'
  BY <1>1 DEF ProcOK, SnapshotOK, PlaceOK, Past
<1>3. "read" \in Places
  BY DEF Places
<1>4. GotoWith(p, "read", l)
  BY DEF ReadFor, l
<1> QED BY <1>1, <1>2, <1>3, <1>4, Step

LEMMA GoesOn ==
    ASSUME Inv, Grows, NEW p \in Procs, NEW place \in {"replay", "digest"},
           Past(loc[p].seen), WithSnapshot(p, place)
    PROVE  Placed'
<1> DEFINE l == [Call(p) EXCEPT !.seen = loc[p].seen]
<1>1. loc[p] \in Locals /\ loc[p].seen \in Contents
  BY DEF Inv, TypeOK, Locals
<1>2. /\ l \in Locals /\ l.goal = loc[p].goal /\ l.key = loc[p].key
      /\ l.reply = NoHead /\ l.seen = loc[p].seen /\ l.item = 1
      /\ l.goal = "update" => l.key \in Keys
      /\ l.goal = "promote" => l.key \in Gens
  BY <1>1, CallFacts DEF Locals
<1> HIDE DEF l
<1>3. pc'[p] = place /\ loc'[p] = l => ProcOK(p)'
  BY <1>1, <1>2 DEF ProcOK, SnapshotOK, PlaceOK, Past, Grows
<1>4. place \in Places
  BY DEF Places
<1>5. GotoWith(p, place, l)
  BY DEF WithSnapshot, l
<1> QED BY <1>2, <1>3, <1>4, <1>5, Step

-----------------------------------------------------------------------------
(* Steps that change nothing but a process *)

LEMMA Quiet ==
    ASSUME Inv, UNCHANGED durable
    PROVE  Grows /\ Stored'
<1>1. UNCHANGED <<files, head, ops, commands, row>>
  BY DEF durable
<1>2. Used' = Used /\ Committed' = Committed
  BY <1>1 DEF Used, Committed
<1>3. \A g : Past(g)' <=> Past(g)
  BY <1>1 DEF Past
<1>4. Grows
  BY <1>1, <1>2, <1>3 DEF Grows
<1>5. Dense' /\ KeysOnce' /\ HeadOK' /\ RowOK'
  BY <1>1, <1>2 DEF Inv, Stored, Dense, KeysOnce, HeadOK, RowOK
<1>6. OpsOK'
  BY <1>1, <1>2, <1>3 DEF Inv, Stored, OpsOK, OpOK, Past
<1>7. CommandsOK'
  BY <1>1, <1>2 DEF Inv, Stored, CommandsOK, CommandOK
<1> QED BY <1>4, <1>5, <1>6, <1>7 DEF Stored

LEMMA Local ==
    ASSUME Inv, UNCHANGED <<durable, lock, history>>, Placed'
    PROVE  Inv'
<1>1. TypeOK'
  BY DEF Inv, TypeOK, durable, history, Placed
<1> QED BY <1>1, Quiet DEF Inv, Placed

LEMMA StartOK ==
    ASSUME Inv, NEW p \in Procs, NEW goal \in {"read", "update"},
           NEW key \in Keys \cup {Nobody}, Start(p, goal, key)
    PROVE  Inv'
<1> DEFINE l == [Idle EXCEPT !.goal = goal, !.key = key]
<1>1. /\ l \in Locals /\ l.goal = goal /\ l.key = key /\ l.reply = NoHead
      /\ goal = "update" => key \in Keys
  BY IdleType DEF Locals, Idle, Requests, Start
<1> HIDE DEF l
<1>2. pc'[p] = "target" /\ loc'[p] = l => ProcOK(p)'
  BY <1>1 DEF ProcOK, SnapshotOK, PlaceOK
<1>3. "target" \in Places /\ GotoWith(p, "target", l) /\ UNCHANGED <<durable, lock, history>>
  BY DEF Places, Start, l
<1>4. Placed'
  BY <1>1, <1>2, <1>3, Quiet, Step
<1> QED BY <1>3, <1>4, Local

LEMMA PromoteOK ==
    ASSUME Inv, NEW p \in Procs, NEW gen \in Gens, Promote(p, gen)
    PROVE  Inv'
<1> DEFINE l == [Idle EXCEPT !.goal = "promote", !.key = gen]
<1>1. l \in Locals /\ l.goal = "promote" /\ l.key = gen /\ l.reply = NoHead
  BY IdleType DEF Locals, Idle, Requests
<1> HIDE DEF l
<1>2. pc'[p] = "command" /\ loc'[p] = l => ProcOK(p)'
  BY <1>1 DEF ProcOK, SnapshotOK, PlaceOK
<1>3. "command" \in Places /\ GotoWith(p, "command", l)
      /\ UNCHANGED <<durable, lock, history>>
  BY DEF Places, Promote, l
<1>4. Placed'
  BY <1>1, <1>2, <1>3, Quiet, Step
<1> QED BY <1>3, <1>4, Local

LEMMA CheckReversibleOK ==
    ASSUME Inv, NEW p \in Procs, NEW gen \in Gens, CheckReversible(p, gen)
    PROVE  Inv'
<1> DEFINE o == commands[gen].op
           l == [Idle EXCEPT !.key = gen, !.op = o]
<1>1. commands[gen].state # "none" /\ o \in Used
  BY DEF CheckReversible, Inv, Stored, CommandsOK, CommandOK
<1>2. l \in Locals /\ l.goal = "none" /\ l.key = gen /\ l.op = o /\ l.reply = NoHead
  BY <1>1, IdleType DEF Locals, Idle, Requests, Used
<1>3. "compensate" \in Places /\ GotoWith(p, "compensate", l)
      /\ UNCHANGED <<durable, lock, history>>
  BY DEF Places, CheckReversible
<1>4. commands' = commands /\ Used' = Used
  BY <1>3 DEF durable, Used
<1>5. commands'[gen].state # "none" /\ o \in Used' /\ commands'[gen].op = o
  BY <1>1, <1>4
<1> HIDE DEF l, o
<1>6. pc'[p] = "compensate" /\ loc'[p] = l => ProcOK(p)'
  BY <1>2, <1>5 DEF ProcOK, SnapshotOK, PlaceOK, Bound
<1>7. Placed'
  BY <1>2, <1>3, <1>6, Quiet, Step
<1> QED BY <1>3, <1>7, Local

LEMMA Goes ==
    ASSUME Inv, Grows, NEW p \in Procs, NEW place \in Places, Goto(p, place),
           pc'[p] = place /\ loc'[p] = loc[p] => ProcOK(p)'
    PROVE  Placed'
<1>1. loc[p] \in Locals /\ loc \in [Procs -> Locals]
  BY DEF Inv, TypeOK
<1>2. GotoWith(p, place, loc[p])
  BY <1>1 DEF Goto, GotoWith
<1> QED BY <1>1, <1>2, Step

\* The committed generations are contents, and those of done operations.
LEMMA CommittedFacts ==
    ASSUME Inv
    PROVE  /\ Committed \subseteq Contents
           /\ \A o \in OpIds : ops[o].state = "done" =>
                 ops[o].target \in Committed /\ ops[o].target \in Contents
                 /\ Past(ops[o].target)
<1>1. \A o \in OpIds : ops[o].target \in Contents
  BY DEF Inv, TypeOK, Operations
<1>2. Committed \subseteq Contents
  BY <1>1, UnreadType DEF Committed
<1>3. \A o \in OpIds : ops[o].state = "done" => ops[o].target \in Committed
  BY DEF Committed
<1>4. \A o \in OpIds : ops[o].state = "done" => Past(ops[o].target)
  BY DEF Inv, Stored, OpsOK, OpOK, Used
<1> QED BY <1>1, <1>2, <1>3, <1>4

LEMMA ResumeCommandOK ==
    ASSUME Inv, NEW p \in Procs, UNCHANGED durable, loc[p].key \in Gens,
           commands[loc[p].key].state # "none", ResumeCommand(p)
    PROVE  Placed'
<1> DEFINE c == commands[loc[p].key]
<1>1. c.op \in Used /\ c.op \in OpIds /\ (c.state = "committed" => ops[c.op].state = "done")
  BY DEF Inv, Stored, CommandsOK, CommandOK, Used
<1>2. Grows /\ commands' = commands /\ Used' = Used /\ Committed' = Committed
  BY Quiet DEF durable, Used, Committed
<1>3. CASE c.state = "executing" /\ Finish(p, c.op, TRUE, TRUE)
  <2>1. c.op \in Used' /\ Used' \subseteq OpIds
        /\ commands'[loc[p].key].state # "none" /\ commands'[loc[p].key].op = c.op
    BY <1>1, <1>2 DEF Used
  <2> QED BY <1>2, <1>3, <2>1, Finishes
<1>4. CASE c.state = "committed" /\ Return(p, ops[c.op].target)
  BY <1>1, <1>2, <1>4, CommittedFacts, Returns
<1>5. CASE Raise(p)
  BY <1>2, <1>5, Raises
<1> QED BY <1>3, <1>4, <1>5 DEF ResumeCommand

LEMMA LookUpCommandOK ==
    ASSUME Inv, NEW p \in Procs, LookUpCommand(p)
    PROVE  Inv'
<1>1. PlaceOK(p) /\ pc[p] = "command" /\ UNCHANGED <<durable, lock, history>>
  BY DEF Inv, ProcsOK, ProcOK, LookUpCommand
<1>2. loc[p].goal = "promote" /\ loc[p].key \in Gens
  BY <1>1 DEF PlaceOK
<1>3. CASE commands[loc[p].key].state = "none"
  <2>1. Goto(p, "target") /\ "target" \in Places /\ Grows
    BY <1>1, <1>3, Quiet DEF LookUpCommand, Places
  <2>2. SnapshotOK(p) /\ Committed' = Committed
    BY <1>1 DEF Inv, ProcsOK, ProcOK, Committed, durable
  <2>3. pc'[p] = "target" /\ loc'[p] = loc[p] => ProcOK(p)'
    BY <1>2, <2>2 DEF ProcOK, SnapshotOK, PlaceOK
  <2>4. Placed'
    BY <2>1, <2>3, Goes
  <2> QED BY <1>1, <2>4, Local
<1>4. CASE commands[loc[p].key].state # "none"
  <2>1. ResumeCommand(p)
    BY <1>4 DEF LookUpCommand
  <2> QED BY <1>1, <1>2, <1>4, <2>1, ResumeCommandOK, Local DEF durable
<1> QED BY <1>3, <1>4

LEMMA RecoverTargetOK ==
    ASSUME Inv, NEW p \in Procs, RecoverTarget(p)
    PROVE  Inv'
<1>1. UNCHANGED <<durable, lock, history>> /\ Grows /\ Used' = Used /\ Committed' = Committed
      /\ head' = head
  BY Quiet DEF RecoverTarget, durable, Used, Committed
<1>2. CASE \E o \in ActiveOps : Finish(p, o, FALSE, TRUE)
  <2>1. PICK o \in ActiveOps : Finish(p, o, FALSE, TRUE)
    BY <1>2
  <2>2. o \in Used' /\ Used' \subseteq OpIds
    BY <1>1 DEF ActiveOps, Active, Used
  <2> QED BY <1>1, <2>1, <2>2, Finishes, Local
<1>3. CASE ReadFor(p, head)
  <2>1. head \in Contents \cup {NoHead} /\ (head # NoHead => Past(head) /\ head \in Committed)
    BY DEF Inv, TypeOK, Stored, HeadOK, Past, Contents
  <2>2. head # NoHead => Past(head)' /\ head \in Committed'
    BY <1>1, <2>1 DEF Past
  <2> QED BY <1>1, <1>3, <2>1, <2>2, ReadsFor, Local
<1> QED BY <1>2, <1>3 DEF RecoverTarget

\* A file that is not somebody else's holds what a generation can hold.
LEMMA OwnContents ==
    ASSUME Inv, NEW i \in 1 .. 2, files[Items[i]] # Foreign[Items[i]],
           NEW g \in Contents
    PROVE  [g EXCEPT ![Items[i]] = files[Items[i]]] \in Contents
<1>1. files \in [seeds : SeedSets \cup {Foreign.seeds},
                  version : Nat \cup {Foreign.version}]
  BY DEF Inv, TypeOK
<1>2. CASE i = 1
  <2>1. Items[i] = "seeds" /\ files.seeds # Foreign.seeds
    BY <1>2, ItemFacts
  <2>2. files.seeds \in SeedSets
    BY <1>1, <2>1
  <2> QED BY <2>1, <2>2 DEF Contents
<1>3. CASE i = 2
  <2>1. Items[i] = "version" /\ files.version # Foreign.version
    BY <1>3, ItemFacts
  <2>2. files.version \in Nat
    BY <1>1, <2>1
  <2> QED BY <2>1, <2>2 DEF Contents
<1> QED BY <1>2, <1>3

LEMMA ReadItemOK ==
    ASSUME Inv, NEW p \in Procs, ReadItem(p)
    PROVE  Inv'
<1> DEFINE i == loc[p].item
           f == Items[i]
           l == [loc[p] EXCEPT !.seen[f] = files[f], !.item = @ + 1]
           place == IF i < Len(Items) THEN "read" ELSE "compare"
<1>1. /\ UNCHANGED <<durable, lock, history>> /\ Grows /\ Committed' = Committed
      /\ head' = head /\ pc[p] = "read"
  BY Quiet DEF ReadItem, durable, Committed
<1>2. ProcOK(p) /\ loc[p] \in Locals /\ i \in 1 .. 2
  BY <1>1 DEF Inv, TypeOK, ProcsOK, ProcOK, PlaceOK
<1>3. CASE files[f] = Foreign[f]
  <2>1. Raise(p)
    BY <1>3 DEF ReadItem
  <2> QED BY <1>1, <2>1, Raises, Local
<1>4. CASE files[f] # Foreign[f]
  <2>1. [loc[p].seen EXCEPT ![f] = files[f]] \in Contents
    BY <1>2, <1>4, OwnContents DEF Locals
  <2> DEFINE g == [loc[p].seen EXCEPT ![f] = files[f]]
  <2>2. /\ l \in Locals /\ l.goal = loc[p].goal /\ l.key = loc[p].key
        /\ l.want = loc[p].want /\ l.reply = loc[p].reply /\ l.item = i + 1
    <3>1. l = [loc[p] EXCEPT !.seen = g, !.item = i + 1]
      BY <1>2 DEF Locals
    <3>2. g \in Contents
      BY <2>1
    <3> HIDE DEF g, l
    <3>3. i + 1 \in 1 .. Len(Items) + 1
      BY <1>2, ItemFacts
    <3> QED BY <1>2, <3>1, <3>2, <3>3 DEF Locals
  <2>3. GotoWith(p, place, l) /\ place \in {"read", "compare"} /\ place \in Places
    BY <1>4 DEF ReadItem, Places
  <2>4. place = "read" => i + 1 \in 1 .. 2
    BY <1>2, ItemFacts
  <2>5. \A x : Past(x)' <=> Past(x)
    BY <1>1 DEF Past
  <2> HIDE DEF place, l
  <2>6. pc'[p] = place /\ loc'[p] = l => SnapshotOK(p)'
    BY <1>1, <1>2, <2>2, <2>3 DEF ProcOK, SnapshotOK, Past
  <2>7. pc'[p] = place /\ loc'[p] = l => PlaceOK(p)'
    BY <1>2, <2>2, <2>3, <2>4 DEF ProcOK, PlaceOK
  <2>8. Placed'
    BY <1>1, <2>2, <2>3, <2>6, <2>7, Step DEF ProcOK
  <2> QED BY <1>1, <2>8, Local
<1> QED BY <1>3, <1>4

LEMMA DigestItemOK ==
    ASSUME Inv, NEW p \in Procs, DigestItem(p)
    PROVE  Inv'
<1> DEFINE i == loc[p].item
           f == Items[i]
           l == [loc[p] EXCEPT !.base[f] = files[f], !.item = @ + 1]
           place == IF i < Len(Items) THEN "digest" ELSE "reserve"
<1>1. /\ UNCHANGED <<durable, lock, history>> /\ Grows /\ Committed' = Committed
      /\ head' = head /\ pc[p] = "digest"
  BY Quiet DEF DigestItem, durable, Committed
<1>2. ProcOK(p) /\ loc[p] \in Locals /\ i \in 1 .. 2
  BY <1>1 DEF Inv, TypeOK, ProcsOK, ProcOK, PlaceOK
<1>3. CASE files[f] = Foreign[f]
  <2>1. Raise(p)
    BY <1>3 DEF DigestItem
  <2> QED BY <1>1, <2>1, Raises, Local
<1>4. CASE files[f] # Foreign[f]
  <2>1. [loc[p].base EXCEPT ![f] = files[f]] \in Contents
    BY <1>2, <1>4, OwnContents DEF Locals
  <2> DEFINE g == [loc[p].base EXCEPT ![f] = files[f]]
  <2>2. /\ l \in Locals /\ l.goal = loc[p].goal /\ l.key = loc[p].key
        /\ l.seen = loc[p].seen /\ l.reply = loc[p].reply /\ l.item = i + 1
    <3>1. l = [loc[p] EXCEPT !.base = g, !.item = i + 1]
      BY <1>2 DEF Locals
    <3>2. g \in Contents
      BY <2>1
    <3> HIDE DEF g, l
    <3>3. i + 1 \in 1 .. Len(Items) + 1
      BY <1>2, ItemFacts
    <3> QED BY <1>2, <3>1, <3>2, <3>3 DEF Locals
  <2>3. GotoWith(p, place, l) /\ place \in {"digest", "reserve"} /\ place \in Places
    BY <1>4 DEF DigestItem, Places
  <2>4. place = "digest" => i + 1 \in 1 .. 2
    BY <1>2, ItemFacts
  <2> HIDE DEF place, l
  <2>5. pc'[p] = place /\ loc'[p] = l => SnapshotOK(p)'
    BY <1>1, <1>2, <2>2, <2>3 DEF ProcOK, SnapshotOK, Past
  <2>6. pc'[p] = place /\ loc'[p] = l => PlaceOK(p)'
    BY <1>2, <2>2, <2>3, <2>4 DEF ProcOK, PlaceOK
  <2>7. Placed'
    BY <1>1, <2>2, <2>3, <2>5, <2>6, Step DEF ProcOK
  <2> QED BY <1>1, <2>7, Local
<1> QED BY <1>3, <1>4

LEMMA CompareOK ==
    ASSUME Inv, NEW p \in Procs, Compare(p)
    PROVE  Inv'
<1>1. /\ UNCHANGED <<durable, lock, history>> /\ Grows /\ Committed' = Committed
      /\ pc[p] = "compare" /\ loc[p].want # NoHead
  BY Quiet DEF Compare, durable, Committed
<1>2. ProcOK(p) /\ loc[p] \in Locals /\ loc[p].seen \in Contents
  BY <1>1 DEF Inv, TypeOK, ProcsOK, Locals
<1>3. CASE Raise(p)
  BY <1>1, <1>3, Raises, Local
<1>4. CASE loc[p].seen = loc[p].want
  <2>1. Past(loc[p].seen) /\ loc[p].seen \in Committed'
    BY <1>1, <1>2, <1>4 DEF ProcOK, SnapshotOK
  <2>2. CASE Return(p, loc[p].seen)
    BY <1>1, <1>2, <2>1, <2>2, Returns, Local
  <2>3. CASE WithSnapshot(p, "replay")
    BY <1>1, <2>1, <2>3, GoesOn, Local
  <2>4. CASE WithSnapshot(p, "digest")
    BY <1>1, <2>1, <2>4, GoesOn, Local
  <2> QED BY <1>4, <2>2, <2>3, <2>4 DEF Compare, UseSnapshot
<1> QED BY <1>3, <1>4 DEF Compare

LEMMA ReplayOK ==
    ASSUME Inv, NEW p \in Procs, Replay(p)
    PROVE  Inv'
<1>1. /\ UNCHANGED <<durable, lock, history>> /\ Grows /\ Committed' = Committed
      /\ Used' = Used /\ commands' = commands /\ pc[p] = "replay"
  BY Quiet DEF Replay, durable, Committed, Used
<1>2. ProcOK(p) /\ Past(loc[p].seen)
  BY <1>1 DEF Inv, ProcsOK, ProcOK, SnapshotOK
<1>3. CASE OpsOf(loc[p].key) = {}
  <2>1. WithSnapshot(p, "digest")
    BY <1>3 DEF Replay
  <2> QED BY <1>1, <1>2, <2>1, GoesOn, Local
<1>4. CASE OpsOf(loc[p].key) # {}
  <2>1. PICK o \in OpsOf(loc[p].key) :
            IF ops[o].target # Target(p) \/ ops[o].state = "aborted" THEN Raise(p)
            ELSE IF ops[o].state = "done" THEN Return(p, ops[o].target)
            ELSE Finish(p, o, TRUE, TRUE)
    BY <1>4 DEF Replay
  <2>2. o \in OpIds /\ o \in Used' /\ Used' \subseteq OpIds /\ ops[o].key = loc[p].key
    BY <1>1 DEF OpsOf, Used
  <2>3. CASE Raise(p)
    BY <1>1, <2>3, Raises, Local
  <2>4. CASE ops[o].state = "done" /\ Return(p, ops[o].target)
    BY <1>1, <2>2, <2>4, CommittedFacts, Returns, Local
  <2>5. CASE Finish(p, o, TRUE, TRUE)
    <3>1. loc[p].goal = "promote" =>
             commands'[loc[p].key].state # "none" /\ commands'[loc[p].key].op = o
      <4>1. loc[p].goal = "promote" => loc[p].key \in Gens
        BY <1>2 DEF ProcOK, PlaceOK
      <4>2. OpOK(o)
        BY <1>1, <2>2 DEF Inv, Stored, OpsOK
      <4> QED BY <1>1, <2>2, <4>1, <4>2 DEF OpOK
    <3> QED BY <1>1, <2>2, <2>5, <3>1, Finishes, Local
  <2> QED BY <2>1, <2>3, <2>4, <2>5
<1> QED BY <1>3, <1>4

-----------------------------------------------------------------------------
(* Steps that work on an operation *)

\* An operation that has not ended changes its state and does not end.
LEMMA Reworks ==
    ASSUME Inv, NEW o \in Used, NEW s, SetState(o, s),
           (s \in Active /\ ops[o].state \in Active) \/ s = ops[o].state,
           UNCHANGED <<files, head, commands, row>>
    PROVE  Grows /\ Stored' /\ ops' \in [OpIds -> Operations] /\ Used' = Used
<1>1. ops \in [OpIds -> Operations] /\ o \in OpIds /\ ops[o].state # "none"
  BY DEF Inv, TypeOK, Used
<1>2. s \in Active \cup {"none", "done", "aborted"} /\ s # "none"
  BY <1>1 DEF Operations, Active
<1>3. ops' \in [OpIds -> Operations]
  BY <1>1, <1>2 DEF SetState, Operations
<1>4. /\ \A q \in OpIds : /\ ops'[q].key = ops[q].key /\ ops'[q].base = ops[q].base
                          /\ ops'[q].target = ops[q].target
                          /\ ops'[q].state = "done" <=> ops[q].state = "done"
                          /\ ops'[q].state = "none" <=> ops[q].state = "none"
                          /\ ops'[q].state = "aborted" <=> ops[q].state = "aborted"
  BY <1>1, <1>2 DEF SetState, Operations, Active
<1>5. Used' = Used
  BY <1>4 DEF Used
<1>6. Committed' = Committed
  BY <1>4 DEF Committed
<1>7. \A g : Past(g)' <=> Past(g)
  BY DEF Past
<1>8. Grows
  BY <1>4, <1>5, <1>6, <1>7 DEF Grows
<1>9. Dense' /\ HeadOK' /\ RowOK'
  BY <1>5, <1>6 DEF Inv, Stored, Dense, HeadOK, RowOK
<1>10. KeysOnce'
  BY <1>4, <1>5 DEF Inv, Stored, KeysOnce, Used
<1>11. OpsOK'
  <2> SUFFICES ASSUME NEW q \in Used PROVE OpOK(q)'
    BY <1>5 DEF OpsOK
  <2>1. OpOK(q) /\ q \in OpIds
    BY DEF Inv, Stored, OpsOK, Used
  <2> QED BY <1>4, <2>1 DEF OpOK, Past
<1>12. CommandsOK'
  <2> SUFFICES ASSUME NEW g \in Gens, commands[g].state # "none" PROVE CommandOK(g)'
    BY DEF CommandsOK
  <2>1. CommandOK(g)
    BY DEF Inv, Stored, CommandsOK
  <2>2. commands[g].op \in OpIds
    BY <2>1 DEF CommandOK, Used
  <2> QED BY <1>4, <1>5, <2>1, <2>2 DEF CommandOK
<1> QED BY <1>3, <1>5, <1>8, <1>9, <1>10, <1>11, <1>12 DEF Stored

LEMMA LockType ==
    ASSUME Inv, NEW p \in Procs
    PROVE  /\ Release(p) => lock' \in [OpIds -> Procs \cup {Nobody}]
           /\ \A o : lock' = [lock EXCEPT ![o] = p] => lock' \in [OpIds -> Procs \cup {Nobody}]
           /\ UNCHANGED lock => lock' \in [OpIds -> Procs \cup {Nobody}]
BY DEF Inv, TypeOK, Release

\* The step leaves the head, the files, the commands, the row and the history.
LEMMA Worked ==
    ASSUME Inv, Placed', Stored', ops' \in [OpIds -> Operations],
           lock' \in [OpIds -> Procs \cup {Nobody}],
           UNCHANGED <<files, head, commands, row, history>>
    PROVE  Inv'
<1>1. TypeOK'
  BY DEF Inv, TypeOK, Placed, history
<1> QED BY <1>1 DEF Inv, Placed

\* The process at work has an operation.
LEMMA Working ==
    ASSUME Inv, NEW p \in Procs,
           pc[p] \in {"lock", "check", "replace", "mark", "verify", "commit", "bind",
                      "compensate"}
    PROVE  /\ loc[p].op \in Used /\ loc[p].op \in OpIds /\ OpOK(loc[p].op)
           /\ ops[loc[p].op] \in Operations
<1>1. loc[p].op \in Used /\ loc[p].op \in OpIds
  BY DEF Inv, ProcsOK, ProcOK, PlaceOK, Used
<1> QED BY <1>1 DEF Inv, Stored, OpsOK, TypeOK

\* From one place at work to another.
LEMMA Proceeds ==
    ASSUME Inv, Grows, NEW p \in Procs, NEW place \in {"check", "replace", "mark", "verify", "commit"},
           NEW l \in Locals,
           pc[p] \in {"lock", "check", "replace", "mark", "verify", "commit"},
           l.goal = loc[p].goal, l.key = loc[p].key, l.op = loc[p].op, l.own = loc[p].own,
           l.reply = loc[p].reply,
           place \in {"check", "replace"} => l.item \in 1 .. 2,
           GotoWith(p, place, l)
    PROVE  Placed'
<1>1. ProcOK(p)
  BY DEF Inv, ProcsOK
<1>2. pc'[p] = place /\ loc'[p] = l => SnapshotOK(p)'
  BY <1>1 DEF ProcOK, SnapshotOK, Grows
<1>3. pc'[p] = place /\ loc'[p] = l => PlaceOK(p)'
  BY <1>1 DEF ProcOK, PlaceOK, Grows, Bound
<1>4. place \in Places
  BY DEF Places
<1> QED BY <1>2, <1>3, <1>4, Step DEF ProcOK

LEMMA NextItemOK ==
    ASSUME Inv, Grows, NEW p \in Procs, pc[p] \in {"check", "replace"}, NextItem(p)
    PROVE  Placed'
<1> DEFINE l == [loc[p] EXCEPT !.item = @ + 1]
           place == IF loc[p].item < Len(Items) THEN "check" ELSE "mark"
<1>1. loc[p] \in Locals /\ loc[p].item \in 1 .. 2
  BY DEF Inv, TypeOK, ProcsOK, ProcOK, PlaceOK
<1>2. /\ l \in Locals /\ l.goal = loc[p].goal /\ l.key = loc[p].key /\ l.op = loc[p].op
      /\ l.own = loc[p].own /\ l.reply = loc[p].reply /\ l.item = loc[p].item + 1
  BY <1>1, ItemFacts DEF Locals
<1>3. place \in {"check", "mark"} /\ (place = "check" => loc[p].item + 1 \in 1 .. 2)
  BY <1>1, ItemFacts
<1>4. GotoWith(p, place, l)
  BY DEF NextItem
<1> HIDE DEF l, place
<1> QED BY <1>2, <1>3, <1>4, Proceeds

\* As Proceeds, with the locals as they are.
LEMMA Continues ==
    ASSUME Inv, Grows, NEW p \in Procs, NEW place \in {"check", "replace", "mark", "verify", "commit"},
           pc[p] \in {"lock", "check", "replace", "mark", "verify", "commit"},
           place \in {"check", "replace"} => loc[p].item \in 1 .. 2,
           Goto(p, place)
    PROVE  Placed'
<1>1. loc[p] \in Locals /\ loc \in [Procs -> Locals]
  BY DEF Inv, TypeOK
<1>2. GotoWith(p, place, loc[p])
  BY <1>1 DEF Goto, GotoWith
<1> QED BY <1>1, <1>2, Proceeds

\* The call goes on with the generation of its operation.
LEMMA AfterOK ==
    ASSUME Inv, Grows, NEW p \in Procs, NEW g \in Contents, After(p, g),
           pc[p] \in {"lock", "commit"}, g \in Committed', Past(g)',
           ops'[loc[p].op].state = "done", UNCHANGED commands
    PROVE  Placed'
<1>1. CASE ReadFor(p, g)
  BY <1>1, ReadsFor
<1>2. CASE Return(p, g)
  BY <1>2, Returns
<1>3. CASE loc[p].own /\ loc[p].goal = "promote" /\ Goto(p, "bind")
  <2>1. ProcOK(p) /\ "bind" \in Places
    BY DEF Inv, ProcsOK, Places
  <2>2. Bound(p) /\ loc[p].op \in Used /\ loc[p].op \in Used'
    BY <1>3, <2>1 DEF ProcOK, PlaceOK, Grows
  <2>3. pc'[p] = "bind" /\ loc'[p] = loc[p] => SnapshotOK(p)'
    BY <2>1 DEF ProcOK, SnapshotOK, Grows
  <2>4. pc'[p] = "bind" /\ loc'[p] = loc[p] => PlaceOK(p)'
    BY <1>3, <2>1, <2>2 DEF ProcOK, PlaceOK, Bound
  <2> QED BY <1>3, <2>1, <2>3, <2>4, Goes DEF ProcOK
<1> QED BY <1>1, <1>2, <1>3 DEF After

LEMMA EnterOpOK ==
    ASSUME Inv, NEW p \in Procs, EnterOp(p)
    PROVE  Inv'
<1> DEFINE o == loc[p].op
           work == lock' = [lock EXCEPT ![o] = p] /\ Goto(p, "check")
<1>1. /\ pc[p] = "lock" /\ UNCHANGED <<files, head, commands, row, history>>
      /\ o \in Used /\ o \in OpIds /\ loc[p].item \in 1 .. 2
  BY Working DEF EnterOp, Inv, ProcsOK, ProcOK, PlaceOK
<1>2. CASE /\ UNCHANGED <<ops, lock>>
           /\ \/ ops[o].state = "done" /\ After(p, ops[o].target)
              \/ Raise(p)
  <2>1. Grows /\ Stored' /\ ops' \in [OpIds -> Operations]
        /\ lock' \in [OpIds -> Procs \cup {Nobody}]
    BY <1>1, <1>2, Quiet DEF durable, Inv, TypeOK
  <2>2. CASE ops[o].state = "done" /\ After(p, ops[o].target)
    <3>1. /\ ops[o].target \in Committed' /\ ops[o].target \in Contents
          /\ Past(ops[o].target) /\ ops'[o].state = "done"
      BY <1>1, <1>2, <2>1, <2>2, CommittedFacts DEF Grows
    <3>2. \A g : g = ops[o].target => Past(g)'
      BY <1>1, <3>1 DEF Past
    <3>3. Placed'
      BY <1>1, <2>1, <2>2, <3>1, <3>2, AfterOK
    <3> QED BY <1>1, <2>1, <3>3, Worked
  <2>3. CASE Raise(p)
    BY <1>1, <2>1, <2>3, Raises, Worked
  <2> QED BY <1>2, <2>2, <2>3
<1>3. CASE ops[o].state \in {"prepared", "fs_applied"} /\ work /\ UNCHANGED ops
  <2>1. Grows /\ Stored' /\ ops' \in [OpIds -> Operations]
    BY <1>1, <1>3, Quiet DEF durable, Inv, TypeOK
  <2>2. Placed'
    BY <1>1, <1>3, <2>1, Continues
  <2> QED BY <1>1, <1>3, <2>1, <2>2, LockType, Worked
<1>4. CASE ops[o].state = "blocked" /\ SetState(o, "prepared") /\ work
  <2>1. Grows /\ Stored' /\ ops' \in [OpIds -> Operations]
    BY <1>1, <1>4, Reworks DEF Active
  <2>2. Placed'
    BY <1>1, <1>4, <2>1, Continues
  <2> QED BY <1>1, <1>4, <2>1, <2>2, LockType, Worked
<1> QED BY <1>2, <1>3, <1>4 DEF EnterOp

LEMMA BlockOK ==
    ASSUME Inv, NEW p \in Procs, pc[p] \in {"check", "verify"}, Block(p),
           UNCHANGED <<files, head, commands, row, history>>
    PROVE  Inv'
<1> DEFINE o == loc[p].op
           s == IF ops[o].state \in {"done", "aborted"} THEN ops[o].state ELSE "blocked"
<1>1. o \in Used /\ o \in OpIds /\ ops[o].state # "none" /\ ops[o] \in Operations
  BY Working DEF Used
<1>2. SetState(o, s) /\ Raise(p) /\ Release(p)
  BY DEF Block
<1>3. (s \in Active /\ ops[o].state \in Active) \/ s = ops[o].state
  BY <1>1 DEF Active, Operations
<1> HIDE DEF s
<1>4. Grows /\ Stored' /\ ops' \in [OpIds -> Operations]
  BY <1>1, <1>2, <1>3, Reworks
<1> QED BY <1>2, <1>4, Raises, LockType, Worked

LEMMA CheckItemOK ==
    ASSUME Inv, NEW p \in Procs, CheckItem(p)
    PROVE  Inv'
<1>1. /\ pc[p] = "check" /\ UNCHANGED <<files, head, commands, row, history>>
      /\ loc[p].item \in 1 .. 2
  BY DEF CheckItem, Inv, ProcsOK, ProcOK, PlaceOK
<1>2. CASE UNCHANGED <<ops, lock>> /\ (NextItem(p) \/ Goto(p, "replace"))
  <2>1. Grows /\ Stored' /\ ops' \in [OpIds -> Operations]
        /\ lock' \in [OpIds -> Procs \cup {Nobody}]
    BY <1>1, <1>2, Quiet DEF durable, Inv, TypeOK
  <2>2. Placed'
    BY <1>1, <1>2, <2>1, NextItemOK, Continues
  <2> QED BY <1>1, <2>1, <2>2, Worked
<1>3. CASE Block(p)
  BY <1>1, <1>3, BlockOK
<1> QED BY <1>2, <1>3 DEF CheckItem

LEMMA ReplaceItemOK ==
    ASSUME Inv, NEW p \in Procs, ReplaceItem(p)
    PROVE  Inv'
<1> DEFINE f == Items[loc[p].item]
           o == loc[p].op
<1>1. /\ pc[p] = "replace" /\ UNCHANGED <<head, ops, commands, row, lock, history>>
      /\ f \in {"seeds", "version"} /\ o \in OpIds /\ head # NoHead
      /\ ops[o].target \in Contents
      /\ files' = [files EXCEPT ![f] = ops[o].target[f]] /\ NextItem(p)
  BY Working, ItemFacts DEF ReplaceItem, Inv, ProcsOK, ProcOK, PlaceOK, OpOK, Operations
<1>2. files' \in [seeds : SeedSets \cup {Foreign.seeds},
                  version : Nat \cup {Foreign.version}]
  <2>1. CASE f = "seeds"
    BY <1>1, <2>1 DEF Inv, TypeOK, Contents
  <2>2. CASE f = "version"
    BY <1>1, <2>2 DEF Inv, TypeOK, Contents
  <2> QED BY <1>1, <2>1, <2>2
<1>3. Used' = Used /\ Committed' = Committed
  BY <1>1 DEF Used, Committed
<1>4. Grows
  BY <1>1, <1>3 DEF Grows, Past
<1>5. Placed'
  BY <1>1, <1>4, NextItemOK
<1>6. Dense' /\ KeysOnce' /\ RowOK' /\ HeadOK'
  BY <1>1, <1>3 DEF Inv, Stored, Dense, KeysOnce, RowOK, HeadOK
<1>7. OpsOK' /\ CommandsOK'
  BY <1>1, <1>3 DEF Inv, Stored, OpsOK, OpOK, Past, CommandsOK, CommandOK
<1>8. TypeOK'
  BY <1>1, <1>2, <1>5 DEF Inv, TypeOK, Placed, history
<1> QED BY <1>5, <1>6, <1>7, <1>8 DEF Inv, Stored, Placed

LEMMA MarkAppliedOK ==
    ASSUME Inv, NEW p \in Procs, MarkApplied(p)
    PROVE  Inv'
<1> DEFINE o == loc[p].op
<1>1. /\ pc[p] = "mark" /\ UNCHANGED <<files, head, commands, row, history>>
      /\ o \in Used /\ o \in OpIds
  BY Working DEF MarkApplied
<1>2. CASE ops[o].state \in {"prepared", "fs_applied"}
  <2>1. SetState(o, "fs_applied") /\ Goto(p, "verify") /\ UNCHANGED lock
    BY <1>2 DEF MarkApplied
  <2>2. Grows /\ Stored' /\ ops' \in [OpIds -> Operations]
    BY <1>1, <1>2, <2>1, Reworks DEF Active
  <2>3. Placed'
    BY <1>1, <2>1, <2>2, Continues
  <2> QED BY <1>1, <2>1, <2>2, <2>3, LockType, Worked
<1>3. CASE ops[o].state \notin {"prepared", "fs_applied"}
  <2>1. Raise(p) /\ Release(p) /\ UNCHANGED ops
    BY <1>3 DEF MarkApplied
  <2>2. Grows /\ Stored' /\ ops' \in [OpIds -> Operations]
    BY <1>1, <2>1, Quiet DEF durable, Inv, TypeOK
  <2> QED BY <1>1, <2>1, <2>2, Raises, LockType, Worked
<1> QED BY <1>2, <1>3

LEMMA VerifyOK ==
    ASSUME Inv, NEW p \in Procs, Verify(p)
    PROVE  Inv'
<1>1. pc[p] = "verify" /\ UNCHANGED <<files, head, commands, row, history>>
  BY DEF Verify
<1>2. CASE Goto(p, "commit") /\ UNCHANGED <<ops, lock>>
  <2>1. Grows /\ Stored' /\ ops' \in [OpIds -> Operations]
        /\ lock' \in [OpIds -> Procs \cup {Nobody}]
    BY <1>1, <1>2, Quiet DEF durable, Inv, TypeOK
  <2> QED BY <1>1, <1>2, <2>1, Continues, Worked
<1>3. CASE Raise(p) /\ Release(p) /\ UNCHANGED ops
  <2>1. Grows /\ Stored' /\ ops' \in [OpIds -> Operations]
    BY <1>1, <1>3, Quiet DEF durable, Inv, TypeOK
  <2> QED BY <1>1, <1>3, <2>1, Raises, LockType, Worked
<1>4. CASE Block(p)
  BY <1>1, <1>4, BlockOK
<1> QED BY <1>2, <1>3, <1>4 DEF Verify

-----------------------------------------------------------------------------
(* Steps that change the journal, the head or the commands *)

\* The next operation is the first that is not journalled.
LEMMA NextOpFacts ==
    ASSUME Inv
    PROVE  /\ NextOp \in Nat /\ NextOp \notin Used
           /\ \E n \in Nat : Used = 1 .. n /\ NextOp = n + 1
<1>1. PICK n \in Nat : Used = 1 .. n
  BY DEF Inv, Stored, Dense
<1>2. Cardinality(1 .. n) = n
  BY FS_Interval, 1 \in Int, n \in Int
<1>3. NextOp = n + 1
  BY <1>1, <1>2 DEF NextOp, Used
<1> QED BY <1>1, <1>3

LEMMA InsertOK ==
    ASSUME Inv, NEW p \in Procs, pc[p] = "reserve", NextOp \in OpIds, CanReserve(p),
           Insert(p), UNCHANGED <<files, head>>, loc[p].key \in Requests,
           \A o \in Used : ops[o].key # loc[p].key,
           \A g \in Gens : g # loc[p].key => commands'[g] = commands[g],
           loc[p].key \in Gens =>
              /\ commands[loc[p].key].state = "none"
              /\ commands'[loc[p].key].state # "none" /\ commands'[loc[p].key].op = NextOp
    PROVE  /\ Grows /\ ops' \in [OpIds -> Operations]
           /\ Used' = Used \cup {NextOp} /\ Used' \subseteq OpIds
           /\ \A o \in OpIds : o # NextOp => ops'[o] = ops[o]
           /\ ops'[NextOp].state = "prepared" /\ ops'[NextOp].key = loc[p].key
           /\ Dense' /\ OpsOK' /\ KeysOnce' /\ HeadOK'
<1> DEFINE r == loc[p].key
           n == NextOp
<1>1. /\ loc[p].seen \in Contents /\ loc[p].base \in Contents /\ Past(loc[p].seen)
      /\ ops \in [OpIds -> Operations]
  BY DEF Inv, TypeOK, Locals, ProcsOK, ProcOK, SnapshotOK
<1>2. head # NoHead /\ loc[p].base = head /\ loc[p].seen = head
  BY <1>1 DEF CanReserve, Past
<1>3. Adds(r) \in Names
  BY DEF Adds, Names
<1>4. /\ Target(p) = [seeds |-> head.seeds \cup {Adds(r)}, version |-> head.version + 1]
      /\ Target(p) \in Contents
  BY <1>1, <1>2, <1>3 DEF Target, Contents, SeedSets
<1>5. /\ ops'[n] = [state |-> "prepared", key |-> r, base |-> head, target |-> Target(p)]
      /\ \A o \in OpIds : o # n => ops'[o] = ops[o]
      /\ ops' \in [OpIds -> Operations]
  <2> DEFINE op == [state |-> "prepared", key |-> r, base |-> head, target |-> Target(p)]
  <2>1. op \in Operations
    BY <1>1, <1>2, <1>4 DEF Operations, Active
  <2>2. ops' = [ops EXCEPT ![n] = op]
    BY <1>2 DEF Insert
  <2> HIDE DEF op
  <2> QED BY <1>1, <2>1, <2>2 DEF op
<1>6. n \notin Used /\ n \in OpIds
  BY NextOpFacts
<1>7. Used' = Used \cup {n} /\ Used' \subseteq OpIds
  BY <1>5, <1>6 DEF Used
<1>8. Dense'
  BY <1>7, NextOpFacts DEF Dense
<1>9. Committed' = Committed
  <2>1. \A o \in OpIds : (ops'[o].state = "done" <=> ops[o].state = "done")
           /\ (ops[o].state = "done" => ops'[o].target = ops[o].target)
    BY <1>5, <1>6 DEF Used
  <2> QED BY <2>1 DEF Committed
<1>10. Grows
  <2>1. \A g : Past(g)' <=> Past(g)
    BY DEF Past
  <2>2. \A o \in OpIds : ops[o].state = "done" => ops'[o].state = "done"
    BY <1>5, <1>6 DEF Used
  <2>3. \A g \in Gens : commands[g].state # "none" =>
           commands'[g].state # "none" /\ commands'[g].op = commands[g].op
    OBVIOUS
  <2> QED BY <1>7, <1>9, <2>1, <2>2, <2>3 DEF Grows
<1>11. OpsOK'
  <2> SUFFICES ASSUME NEW o \in Used' PROVE OpOK(o)'
    BY DEF OpsOK
  <2>1. CASE o = n
    BY <1>2, <1>4, <1>5, <2>1 DEF OpOK
  <2>2. CASE o # n
    <3>1. o \in Used /\ o \in OpIds /\ OpOK(o) /\ ops'[o] = ops[o] /\ ops[o].key # r
      BY <1>5, <1>7, <2>2 DEF Inv, Stored, OpsOK, Used
    <3> QED BY <3>1 DEF OpOK, Past
  <2> QED BY <2>1, <2>2
<1>12. KeysOnce'
  <2> SUFFICES ASSUME NEW o \in Used', NEW q \in Used', ops'[o].key = ops'[q].key
               PROVE  o = q
    BY DEF KeysOnce
  <2>1. \A x \in Used' : x # n => x \in Used /\ ops'[x].key = ops[x].key /\ ops[x].key # r
    BY <1>5, <1>7 DEF Used
  <2>2. ops'[n].key = r
    BY <1>5
  <2> QED BY <2>1, <2>2 DEF Inv, Stored, KeysOnce
<1>13. HeadOK'
  BY <1>9 DEF Inv, Stored, HeadOK
<1> QED BY <1>5, <1>7, <1>8, <1>10, <1>11, <1>12, <1>13

LEMMA ReserveOK ==
    ASSUME Inv, NEW p \in Procs, Reserve(p)
    PROVE  Inv'
<1> DEFINE r == loc[p].key
<1>1. /\ pc[p] = "reserve" /\ loc[p].goal = "update" /\ NextOp \in OpIds
      /\ UNCHANGED <<files, head, commands, row, lock, history>>
      /\ r \in Keys /\ r \in Requests /\ r \notin Gens /\ Past(loc[p].seen)
  BY StoreAssumption DEF Reserve, Inv, ProcsOK, ProcOK, PlaceOK, SnapshotOK, Requests
<1>2. lock' \in [OpIds -> Procs \cup {Nobody}]
  BY <1>1, LockType
<1>3. CASE UNCHANGED ops /\ \E o \in OpsOf(r) :
              IF ops[o].target = Target(p) THEN Finish(p, o, TRUE, FALSE)
              ELSE WithSnapshot(p, "replay")
  <2>1. Grows /\ Stored' /\ ops' \in [OpIds -> Operations] /\ Used' = Used
    BY <1>1, <1>3, Quiet DEF durable, Inv, TypeOK, Used
  <2>2. PICK o \in OpsOf(r) : Finish(p, o, TRUE, FALSE) \/ WithSnapshot(p, "replay")
    BY <1>3
  <2>3. o \in Used' /\ Used' \subseteq OpIds
    BY <2>1 DEF OpsOf, Used
  <2>4. Placed'
    BY <1>1, <2>1, <2>2, <2>3, Finishes, GoesOn
  <2> QED BY <1>1, <1>2, <2>1, <2>4, Worked
<1>4. CASE UNCHANGED ops /\ Raise(p)
  <2>1. Grows /\ Stored' /\ ops' \in [OpIds -> Operations]
    BY <1>1, <1>4, Quiet DEF durable, Inv, TypeOK
  <2> QED BY <1>1, <1>2, <1>4, <2>1, Raises, Worked
<1>5. CASE /\ OpsOf(r) = {} /\ CanReserve(p) /\ Insert(p)
           /\ Finish(p, NextOp, TRUE, FALSE)
  <2>1. \A o \in Used : ops[o].key # r
    BY <1>5 DEF OpsOf, Used
  <2>2. /\ Grows /\ ops' \in [OpIds -> Operations] /\ Used' = Used \cup {NextOp}
        /\ Used' \subseteq OpIds /\ \A o \in OpIds : o # NextOp => ops'[o] = ops[o]
        /\ Dense' /\ OpsOK' /\ KeysOnce' /\ HeadOK'
    BY <1>1, <1>5, <2>1, InsertOK
  <2>3. CommandsOK'
    <3> SUFFICES ASSUME NEW g \in Gens, commands[g].state # "none" PROVE CommandOK(g)'
      BY <1>1 DEF CommandsOK
    <3>1. CommandOK(g)
      BY DEF Inv, Stored, CommandsOK
    <3>2. commands[g].op \in Used /\ commands[g].op \in OpIds /\ commands[g].op # NextOp
      BY <3>1, NextOpFacts DEF CommandOK, Used
    <3> QED BY <1>1, <2>2, <3>1, <3>2 DEF CommandOK
  <2>4. RowOK'
    BY <1>1 DEF Inv, Stored, RowOK
  <2>5. Placed'
    BY <1>1, <1>5, <2>2, Finishes
  <2> QED BY <1>1, <1>2, <2>2, <2>3, <2>4, <2>5, Worked DEF Stored
<1> QED BY <1>3, <1>4, <1>5 DEF Reserve

LEMMA RowType ==
    ASSUME Inv
    PROVE  /\ row \in Rows({}, OpIds) /\ row.gen \in Nat
           /\ \A s \in Statuses : \A k \in OpIds \cup {Nobody} :
                 [row EXCEPT !.status = s, !.key = k] \in Rows({}, OpIds)
BY DEF Inv, TypeOK, Rows

LEMMA CommandTypes ==
    ASSUME Inv, NEW g \in Gens
    PROVE  \A s \in {"executing", "committed", "compensated"} : \A o \in OpIds :
              /\ [commands EXCEPT ![g] = [state |-> s, op |-> o]]
                    \in [Gens -> [state : {"none", "executing", "committed", "compensated"},
                                  op : OpIds \cup {Nobody}]]
              /\ [commands EXCEPT ![g].state = s]
                    \in [Gens -> [state : {"none", "executing", "committed", "compensated"},
                                  op : OpIds \cup {Nobody}]]
BY DEF Inv, TypeOK

LEMMA ReserveCommandOK ==
    ASSUME Inv, NEW p \in Procs, ReserveCommand(p)
    PROVE  Inv'
<1> DEFINE g == loc[p].key
           n == NextOp
<1>1. /\ pc[p] = "reserve" /\ loc[p].goal = "promote" /\ NextOp \in OpIds
      /\ UNCHANGED <<files, head, lock, history>>
      /\ g \in Gens /\ g \in Requests
  BY DEF ReserveCommand, Inv, ProcsOK, ProcOK, PlaceOK, Requests
<1>2. CASE /\ commands[g].state # "none" /\ ResumeCommand(p)
           /\ UNCHANGED <<ops, commands, row>>
  <2>1. UNCHANGED <<durable, lock, history>>
    BY <1>1, <1>2 DEF durable
  <2>2. Placed'
    BY <1>1, <1>2, <2>1, ResumeCommandOK
  <2> QED BY <2>1, <2>2, Local
<1>3. CASE Raise(p) /\ UNCHANGED <<ops, commands, row>>
  <2>1. UNCHANGED <<durable, lock, history>>
    BY <1>1, <1>3 DEF durable
  <2> QED BY <1>3, <2>1, Quiet, Raises, Local
<1>4. CASE /\ commands[g].state = "none" /\ Open(row, g) /\ CanReserve(p) /\ Insert(p)
           /\ commands' = [commands EXCEPT ![g] = [state |-> "executing", op |-> n]]
           /\ row' = [row EXCEPT !.status = "executing", !.key = n]
           /\ Finish(p, n, TRUE, TRUE)
  <2>1. /\ \A h \in Gens : h # g => commands'[h] = commands[h]
        /\ commands'[g] = [state |-> "executing", op |-> n]
    BY <1>1, <1>4 DEF Inv, TypeOK
  <2>2. \A o \in Used : ops[o].key # g
    BY <1>1, <1>4 DEF Inv, Stored, OpsOK, OpOK
  <2>3. /\ Grows /\ ops' \in [OpIds -> Operations] /\ Used' = Used \cup {n}
        /\ Used' \subseteq OpIds /\ \A o \in OpIds : o # n => ops'[o] = ops[o]
        /\ ops'[n].state = "prepared" /\ ops'[n].key = g
        /\ Dense' /\ OpsOK' /\ KeysOnce' /\ HeadOK'
    BY <1>1, <1>4, <2>1, <2>2, InsertOK
  <2>4. CommandsOK'
    <3> SUFFICES ASSUME NEW h \in Gens, commands'[h].state # "none" PROVE CommandOK(h)'
      BY DEF CommandsOK
    <3>1. CASE h = g
      BY <2>1, <2>3, <3>1 DEF CommandOK
    <3>2. CASE h # g
      <4>1. CommandOK(h) /\ commands'[h] = commands[h]
        BY <2>1, <3>2 DEF Inv, Stored, CommandsOK
      <4>2. commands[h].op \in Used /\ commands[h].op \in OpIds /\ commands[h].op # n
        BY <4>1, NextOpFacts DEF CommandOK, Used
      <4> QED BY <2>3, <4>1, <4>2 DEF CommandOK
    <3> QED BY <3>1, <3>2
  <2>5. row' \in Rows({}, OpIds) /\ row'.status = "executing" /\ row'.gen = g /\ row'.key = n
    BY <1>1, <1>4, RowType DEF Open, Statuses, Rows
  <2>6. RowOK'
    BY <1>1, <2>1, <2>5 DEF RowOK
  <2>7. Placed'
    <3>1. n \in Used' /\ commands'[g].state # "none" /\ commands'[g].op = n
      BY <2>1, <2>3
    <3> HIDE DEF n
    <3> QED BY <1>4, <2>3, <3>1, Finishes
  <2>8. commands' \in [Gens -> [state : {"none", "executing", "committed", "compensated"},
                                op : OpIds \cup {Nobody}]]
    BY <1>1, <1>4, CommandTypes
  <2>9. TypeOK'
    BY <1>1, <2>3, <2>5, <2>7, <2>8 DEF Inv, TypeOK, Placed, history
  <2> QED BY <2>3, <2>4, <2>6, <2>7, <2>9 DEF Inv, Stored, Placed
<1> QED BY <1>2, <1>3, <1>4 DEF ReserveCommand

LEMMA BootstrapOK ==
    ASSUME Inv, NEW p \in Procs, Bootstrap(p)
    PROVE  Inv'
<1> DEFINE s == loc[p].seen
<1>1. UNCHANGED <<files, ops, commands, row, lock, history>> /\ s \in Contents
  BY DEF Bootstrap, Inv, TypeOK, Locals
<1>2. CASE Raise(p) /\ UNCHANGED head
  BY <1>1, <1>2, Quiet, Raises, Local DEF durable
<1>3. CASE /\ files = s /\ head \in {NoHead, s} /\ head' = s /\ ReadFor(p, s)
  <2>1. s # NoHead
    BY <1>1, StoreAssumption
  <2>2. Used' = Used /\ Committed' = Committed
    BY <1>1 DEF Used, Committed
  <2>3. head = NoHead => s = Unread /\ Used = {}
    <3>1. head = NoHead => files.seeds = {} /\ files.version = 0
      BY <1>1, <1>3, ForeignFacts DEF Inv, Stored, HeadOK, Contents
    <3>2. head = NoHead => Used = {}
      BY DEF Inv, Stored, OpsOK, OpOK
    <3> QED BY <1>1, <1>3, <3>1, <3>2 DEF Unread, Contents
  <2>4. head' \in Committed'
    <3>1. Unread \in Committed
      BY DEF Committed
    <3>2. head # NoHead => head \in Committed
      BY DEF Inv, Stored, HeadOK
    <3> QED BY <1>3, <2>2, <2>3, <3>1, <3>2
  <2>5. \A g \in Contents : Past(g) => Past(g)'
    BY <1>3, <2>1 DEF Past
  <2>6. Grows
    BY <1>1, <2>2, <2>5 DEF Grows
  <2>7. s \in Committed' /\ \A g : g = s => Past(g)'
    BY <1>1, <1>3, <2>1, <2>4 DEF Past, Contents
  <2>8. Placed'
    BY <1>1, <1>3, <2>6, <2>7, ReadsFor
  <2>9. OpsOK'
    <3> SUFFICES ASSUME NEW o \in Used PROVE OpOK(o)'
      BY <2>2 DEF OpsOK
    <3>1. OpOK(o) /\ head' = head
      BY <1>3, <2>3 DEF Inv, Stored, OpsOK, OpOK
    <3> QED BY <1>1, <3>1 DEF OpOK, Past
  <2>10. HeadOK'
    BY <1>3, <2>1, <2>4 DEF HeadOK
  <2>11. Dense' /\ KeysOnce' /\ CommandsOK' /\ RowOK'
    BY <1>1, <2>2 DEF Inv, Stored, Dense, KeysOnce, CommandsOK, CommandOK, RowOK
  <2>12. TypeOK'
    BY <1>1, <1>3, <2>8 DEF Inv, TypeOK, Placed, history
  <2> QED BY <2>8, <2>9, <2>10, <2>11, <2>12 DEF Inv, Stored, Placed
<1> QED BY <1>2, <1>3 DEF Bootstrap

LEMMA FinalizeOK ==
    ASSUME Inv, NEW p \in Procs, Finalize(p)
    PROVE  Inv'
<1> DEFINE o == loc[p].op
           t == ops[o].target
<1>1. /\ pc[p] = "commit" /\ UNCHANGED <<files, commands, row, history>> /\ Release(p)
      /\ o \in Used /\ o \in OpIds /\ OpOK(o) /\ ops[o] \in Operations
      /\ lock' \in [OpIds -> Procs \cup {Nobody}]
  BY Working, LockType DEF Finalize
<1>2. CASE Raise(p) /\ UNCHANGED <<head, ops>>
  <2>1. Grows /\ Stored' /\ ops' \in [OpIds -> Operations]
    BY <1>1, <1>2, Quiet DEF durable, Inv, TypeOK
  <2> QED BY <1>1, <1>2, <2>1, Raises, Worked
<1>3. CASE /\ head = ops[o].base /\ ops[o].state = "fs_applied"
           /\ head' = t /\ SetState(o, "done") /\ After(p, t)
  <2>1. /\ ops' \in [OpIds -> Operations]
        /\ \A q \in OpIds : /\ ops'[q].key = ops[q].key /\ ops'[q].base = ops[q].base
                            /\ ops'[q].target = ops[q].target
                            /\ q # o => ops'[q].state = ops[q].state
        /\ ops'[o].state = "done"
    BY <1>1, <1>3 DEF Inv, TypeOK, SetState, Operations
  <2>2. /\ t \in Contents /\ head \in Contents /\ head # NoHead /\ t # NoHead
        /\ t.version = head.version + 1
    <3>1. t \in Contents /\ head \in Contents /\ head # NoHead
      BY <1>1, <1>3 DEF OpOK, Operations
    <3>2. t.version = ops[o].base.version + 1
      BY <1>1 DEF OpOK
    <3> HIDE DEF t
    <3> QED BY <1>3, <3>1, <3>2, StoreAssumption
  <2>3. Used' = Used
    BY <1>1, <2>1 DEF Used
  <2>4. Committed \subseteq Committed' /\ t \in Committed'
    <3>1. \A q \in OpIds : ops[q].state = "done" => ops'[q].state = "done"
      BY <1>3, <2>1
    <3> QED BY <1>1, <2>1, <3>1 DEF Committed
  <2>5. \A g \in Contents : Past(g) => Past(g)'
    BY <1>3, <2>2 DEF Past, Contents
  <2>6. Grows
    BY <1>1, <1>3, <2>1, <2>3, <2>4, <2>5 DEF Grows
  <2>7. \A g : g = t => Past(g)'
    BY <1>3, <2>2 DEF Past, Contents
  <2>8. Placed'
    BY <1>1, <1>3, <2>1, <2>2, <2>4, <2>6, <2>7, AfterOK
  <2>9. OpsOK'
    <3> SUFFICES ASSUME NEW q \in Used PROVE OpOK(q)'
      BY <2>3 DEF OpsOK
    <3>1. OpOK(q) /\ q \in OpIds /\ ops[q].target \in Contents
      BY DEF Inv, Stored, OpsOK, Used, TypeOK, Operations
    <3>2. ops'[q].state = "done" => \A g : g = ops[q].target => Past(g)'
      <4>1. CASE q = o
        BY <2>7, <4>1
      <4>2. CASE q # o
        BY <2>1, <2>5, <3>1, <4>2 DEF OpOK
      <4> QED BY <4>1, <4>2
    <3>3. ops'[q].state = "done" => Past(ops[q].target)'
      BY <2>1, <3>1, <3>2 DEF Past
    <3> QED BY <1>1, <1>3, <2>1, <2>2, <3>1, <3>3 DEF OpOK
  <2>10. Dense' /\ HeadOK' /\ RowOK'
    BY <1>1, <1>3, <2>2, <2>3, <2>4 DEF Inv, Stored, Dense, HeadOK, RowOK
  <2>11. KeysOnce'
    BY <2>1, <2>3 DEF Inv, Stored, KeysOnce, Used
  <2>12. CommandsOK'
    <3> SUFFICES ASSUME NEW g \in Gens, commands[g].state # "none" PROVE CommandOK(g)'
      BY <1>1 DEF CommandsOK
    <3>1. CommandOK(g) /\ commands[g].op \in OpIds
      BY DEF Inv, Stored, CommandsOK, CommandOK, Used
    <3> QED BY <1>1, <1>3, <2>1, <2>3, <3>1 DEF CommandOK
  <2>13. TypeOK'
    BY <1>1, <1>3, <2>1, <2>2, <2>8 DEF Inv, TypeOK, Placed, history
  <2> QED BY <2>8, <2>9, <2>10, <2>11, <2>12, <2>13 DEF Inv, Stored, Placed
<1> QED BY <1>2, <1>3 DEF Finalize

LEMMA BindCommandOK ==
    ASSUME Inv, NEW p \in Procs, BindCommand(p)
    PROVE  Inv'
<1> DEFINE g == loc[p].key
           o == loc[p].op
<1>1. /\ pc[p] = "bind" /\ UNCHANGED <<files, head, ops, lock, history>>
      /\ o \in OpIds /\ ops[o].state = "done" /\ Bound(p)
  BY Working DEF BindCommand, Inv, ProcsOK, ProcOK, PlaceOK
<1>2. CASE Raise(p) /\ UNCHANGED <<commands, row>>
  BY <1>1, <1>2, Quiet, Raises, Local DEF durable
<1>3. CASE /\ commands' = [commands EXCEPT ![g].state = "committed"]
           /\ row' = IF row.gen = g /\ row.status = "executing" /\ row.key = o
                     THEN [row EXCEPT !.status = "consumed"] ELSE row
           /\ commands[g].state \in {"executing", "committed"}
           /\ Return(p, ops[o].target)
  <2>1. /\ g \in Gens /\ commands[g].op = o /\ commands[g].state # "none"
        /\ \A h \in Gens : commands'[h].op = commands[h].op
        /\ \A h \in Gens : h # g => commands'[h] = commands[h]
        /\ commands'[g].state = "committed"
    BY <1>1, <1>3 DEF Bound, Inv, TypeOK
  <2>2. Used' = Used /\ Committed' = Committed
    BY <1>1 DEF Used, Committed
  <2>3. Grows
    BY <1>1, <2>1, <2>2 DEF Grows, Past
  <2>4. Placed'
    BY <1>1, <1>3, <2>2, <2>3, CommittedFacts, Returns
  <2>5. OpsOK'
    <3> SUFFICES ASSUME NEW q \in Used PROVE OpOK(q)'
      BY <2>2 DEF OpsOK
    <3>1. OpOK(q)
      BY DEF Inv, Stored, OpsOK
    <3> QED BY <1>1, <2>1, <3>1 DEF OpOK, Past
  <2>6. CommandsOK'
    <3> SUFFICES ASSUME NEW h \in Gens, commands'[h].state # "none" PROVE CommandOK(h)'
      BY DEF CommandsOK
    <3>1. CommandOK(h)
      BY <2>1 DEF Inv, Stored, CommandsOK
    <3> QED BY <1>1, <2>1, <2>2, <3>1 DEF CommandOK
  <2>7. row' \in Rows({}, OpIds)
    BY <1>3 DEF Inv, TypeOK, Rows, Statuses
  <2>8. RowOK'
    <3>1. row'.gen = row.gen /\ row'.key = row.key
      BY <1>3 DEF Inv, TypeOK, Rows
    <3>2. row'.status = row.status \/ (row.gen = g /\ row.status = "executing" /\ row'.status = "consumed")
      BY <1>3 DEF Inv, TypeOK, Rows
    <3> QED BY <2>1, <3>1, <3>2 DEF Inv, Stored, RowOK
  <2>9. Dense' /\ KeysOnce' /\ HeadOK'
    BY <1>1, <2>2 DEF Inv, Stored, Dense, KeysOnce, HeadOK
  <2>10. commands' \in [Gens -> [state : {"none", "executing", "committed", "compensated"},
                                op : OpIds \cup {Nobody}]]
    BY <1>1, <1>3, <2>1, CommandTypes
  <2>11. TypeOK'
    BY <1>1, <2>4, <2>7, <2>10 DEF Inv, TypeOK, Placed, history
  <2> QED BY <2>4, <2>5, <2>6, <2>8, <2>9, <2>11 DEF Inv, Stored, Placed
<1> QED BY <1>2, <1>3 DEF BindCommand

LEMMA CompensateOK ==
    ASSUME Inv, NEW p \in Procs, Compensate(p)
    PROVE  Inv'
<1> DEFINE g == loc[p].key
           o == loc[p].op
<1>1. /\ pc[p] = "compensate" /\ Raise(p)
      /\ UNCHANGED <<files, head, lock, edited, rushed, crashes, edits>>
      /\ o \in OpIds /\ o \in Used /\ Bound(p)
  BY Working DEF Compensate, Inv, ProcsOK, ProcOK, PlaceOK
<1>2. CASE UNCHANGED <<ops, commands, row, raced>>
  BY <1>1, <1>2, Quiet, Raises, Local DEF durable, history
<1>3. CASE /\ ops[o].state = "prepared" /\ commands[g].state = "executing"
           /\ SetState(o, "aborted")
           /\ commands' = [commands EXCEPT ![g].state = "compensated"]
           /\ row' = IF row.gen = g /\ row.status = "executing" /\ row.key = o
                     THEN [row EXCEPT !.status = "pending", !.key = Nobody] ELSE row
           /\ raced' = (raced \/ lock[o] # Nobody \/ files # ops[o].base)
  <2>1. /\ g \in Gens /\ commands[g].op = o
        /\ \A h \in Gens : commands'[h].op = commands[h].op
        /\ \A h \in Gens : h # g => commands'[h] = commands[h]
        /\ commands'[g].state = "compensated"
    BY <1>1, <1>3 DEF Bound, Inv, TypeOK
  <2>2. /\ ops' \in [OpIds -> Operations]
        /\ \A q \in OpIds : /\ ops'[q].key = ops[q].key /\ ops'[q].base = ops[q].base
                            /\ ops'[q].target = ops[q].target
                            /\ q # o => ops'[q].state = ops[q].state
        /\ ops'[o].state = "aborted"
    BY <1>1, <1>3 DEF Inv, TypeOK, SetState, Operations
  <2>3. Used' = Used
    BY <1>1, <2>2 DEF Used
  <2>4. Committed' = Committed
    <3>1. \A q \in OpIds : ops'[q].state = "done" <=> ops[q].state = "done"
      BY <1>3, <2>2
    <3> QED BY <2>2, <3>1 DEF Committed
  <2>5. Grows
    BY <1>1, <1>3, <2>1, <2>2, <2>3, <2>4 DEF Grows, Past
  <2>6. Placed'
    BY <1>1, <2>5, Raises
  <2>7. OpsOK'
    <3> SUFFICES ASSUME NEW q \in Used PROVE OpOK(q)'
      BY <2>3 DEF OpsOK
    <3>1. OpOK(q) /\ q \in OpIds
      BY DEF Inv, Stored, OpsOK, Used
    <3> QED BY <1>1, <2>1, <2>2, <3>1 DEF OpOK, Past
  <2>8. CommandsOK'
    <3> SUFFICES ASSUME NEW h \in Gens, commands'[h].state # "none" PROVE CommandOK(h)'
      BY DEF CommandsOK
    <3>1. CommandOK(h) /\ commands[h].op \in OpIds
      BY <1>3, <2>1 DEF Inv, Stored, CommandsOK, CommandOK, Used
    <3>2. h # g => commands[h].op # o
      BY <2>1, <3>1, <1>3 DEF Inv, Stored, CommandsOK, CommandOK
    <3> QED BY <2>1, <2>2, <2>3, <3>1, <3>2 DEF CommandOK
  <2>9. row' \in Rows({}, OpIds)
    BY <1>3 DEF Inv, TypeOK, Rows, Statuses
  <2>10. RowOK'
    <3>1. CASE row.gen = g /\ row.status = "executing" /\ row.key = o
      <4>1. row'.status = "pending"
        BY <1>3, <3>1 DEF Inv, TypeOK, Rows
      <4> QED BY <4>1 DEF RowOK
    <3>2. CASE ~(row.gen = g /\ row.status = "executing" /\ row.key = o)
      <4>1. row' = row
        BY <1>3, <3>2
      <4>2. row.status \in {"executing", "consumed"} => row.gen # g
        BY <1>3, <2>1, <3>2 DEF Inv, Stored, RowOK
      <4> QED BY <2>1, <4>1, <4>2 DEF Inv, Stored, RowOK
    <3> QED BY <3>1, <3>2
  <2>11. Dense' /\ HeadOK'
    BY <1>1, <2>3, <2>4 DEF Inv, Stored, Dense, HeadOK
  <2>12. KeysOnce'
    BY <2>2, <2>3 DEF Inv, Stored, KeysOnce, Used
  <2>13. commands' \in [Gens -> [state : {"none", "executing", "committed", "compensated"},
                                op : OpIds \cup {Nobody}]]
    BY <1>1, <1>3, <2>1, CommandTypes
  <2>14. raced' \in BOOLEAN
    BY <1>3
  <2>15. TypeOK'
    BY <1>1, <2>2, <2>6, <2>9, <2>13, <2>14 DEF Inv, TypeOK, Placed
  <2> QED BY <2>6, <2>7, <2>8, <2>10, <2>11, <2>12, <2>15 DEF Inv, Stored, Placed
<1> QED BY <1>2, <1>3 DEF Compensate

-----------------------------------------------------------------------------
(* Steps of the surroundings *)

LEMMA Unmoved ==
    ASSUME Inv, Grows, UNCHANGED <<pc, loc>>
    PROVE  Placed'
<1>1. ASSUME NEW q \in Procs PROVE ProcOK(q)'
  BY Others
<1> QED BY <1>1 DEF Placed, ProcsOK, Inv, TypeOK

\* Only the row of the approval changes, to one that is not bound.
LEMMA RowStep ==
    ASSUME Inv, UNCHANGED <<files, head, ops, commands, lock, pc, loc, history>>,
           row' \in Rows({}, OpIds),
           row'.status \in {"executing", "consumed"} =>
              row'.status = row.status /\ row'.gen = row.gen /\ row'.key = row.key
    PROVE  Inv'
<1>1. Used' = Used /\ Committed' = Committed
  BY DEF Used, Committed
<1>2. Grows
  BY <1>1 DEF Grows, Past
<1>3. Placed'
  BY <1>2, Unmoved
<1>4. OpsOK'
  BY <1>1 DEF Inv, Stored, OpsOK, OpOK, Past
<1>5. CommandsOK'
  BY <1>1 DEF Inv, Stored, CommandsOK, CommandOK
<1>6. RowOK'
  BY DEF Inv, Stored, RowOK
<1>7. Dense' /\ KeysOnce' /\ HeadOK'
  BY <1>1 DEF Inv, Stored, Dense, KeysOnce, HeadOK
<1>8. TypeOK'
  BY DEF Inv, TypeOK, history
<1> QED BY <1>3, <1>4, <1>5, <1>6, <1>7, <1>8 DEF Inv, Stored, Placed

LEMMA PrepareOK ==
    ASSUME Inv, Prepare
    PROVE  Inv'
<1>1. row' \in Rows({}, OpIds) /\ row'.status = "pending"
  BY DEF Prepare, Armed, Inv, TypeOK, Rows, Statuses
<1> QED BY <1>1, RowStep DEF Prepare

LEMMA LapseOK ==
    ASSUME Inv, Lapse
    PROVE  Inv'
<1>1. /\ row' \in Rows({}, OpIds) /\ row'.gen = row.gen /\ row'.key = row.key
      /\ row'.status \in {row.status, "expired"}
  BY DEF Lapse, Expired, Inv, TypeOK, Rows, Statuses
<1> QED BY <1>1, RowStep DEF Lapse

\* Only a file changes.
LEMMA FileStep ==
    ASSUME Inv, UNCHANGED <<head, ops, commands, row, lock, pc, loc, raced, crashes>>,
           files' \in [seeds : SeedSets \cup {Foreign.seeds},
                       version : Nat \cup {Foreign.version}],
           head = NoHead => /\ files'.seeds \in {{}, Foreign.seeds}
                            /\ files'.version \in {0, Foreign.version},
           edited' \subseteq {"seeds", "version"}, rushed' \in BOOLEAN, edits' \in Nat
    PROVE  Inv'
<1>1. Used' = Used /\ Committed' = Committed
  BY DEF Used, Committed
<1>2. Grows
  BY <1>1 DEF Grows, Past
<1>3. Placed'
  BY <1>2, Unmoved
<1>4. OpsOK'
  BY <1>1 DEF Inv, Stored, OpsOK, OpOK, Past
<1>5. CommandsOK'
  BY <1>1 DEF Inv, Stored, CommandsOK, CommandOK
<1>6. Dense' /\ KeysOnce' /\ HeadOK' /\ RowOK'
  BY <1>1 DEF Inv, Stored, Dense, KeysOnce, HeadOK, RowOK
<1>7. TypeOK'
  BY DEF Inv, TypeOK
<1> QED BY <1>3, <1>4, <1>5, <1>6, <1>7 DEF Inv, Stored, Placed

LEMMA EditOK ==
    ASSUME Inv, NEW f \in {"seeds", "version"}, Edit(f)
    PROVE  Inv'
<1>1. /\ UNCHANGED <<head, ops, commands, row, lock, pc, loc, raced, crashes>>
      /\ files' = [files EXCEPT ![f] = Foreign[f]] /\ edited' = edited \cup {f}
      /\ edits' \in Nat
      /\ files \in [seeds : SeedSets \cup {Foreign.seeds}, version : Nat \cup {Foreign.version}]
  BY DEF Edit, Inv, TypeOK
<1>2. rushed' \in BOOLEAN /\ edited' \subseteq {"seeds", "version"}
  BY <1>1 DEF Edit, Inv, TypeOK
<1>3. /\ files' \in [seeds : SeedSets \cup {Foreign.seeds}, version : Nat \cup {Foreign.version}]
      /\ head = NoHead => /\ files'.seeds \in {{}, Foreign.seeds}
                          /\ files'.version \in {0, Foreign.version}
  <2>1. CASE f = "seeds"
    BY <1>1, <2>1 DEF Inv, Stored, HeadOK
  <2>2. CASE f = "version"
    BY <1>1, <2>2 DEF Inv, Stored, HeadOK
  <2> QED BY <2>1, <2>2
<1> QED BY <1>1, <1>2, <1>3, FileStep

LEMMA UndoOK ==
    ASSUME Inv, NEW f \in {"seeds", "version"}, Undo(f)
    PROVE  Inv'
<1>1. /\ UNCHANGED <<head, ops, commands, row, lock, pc, loc, rushed, raced, crashes, edits>>
      /\ files' = [files EXCEPT ![f] = head[f]] /\ edited' = edited \ {f}
      /\ head # NoHead /\ head \in Contents
      /\ files \in [seeds : SeedSets \cup {Foreign.seeds}, version : Nat \cup {Foreign.version}]
  BY DEF Undo, Inv, TypeOK
<1>2. rushed' \in BOOLEAN /\ edited' \subseteq {"seeds", "version"} /\ edits' \in Nat
  BY <1>1 DEF Inv, TypeOK
<1>3. files' \in [seeds : SeedSets \cup {Foreign.seeds}, version : Nat \cup {Foreign.version}]
  <2>1. CASE f = "seeds"
    BY <1>1, <2>1 DEF Contents
  <2>2. CASE f = "version"
    BY <1>1, <2>2 DEF Contents
  <2> QED BY <2>1, <2>2
<1> QED BY <1>1, <1>2, <1>3, FileStep

LEMMA CrashOK ==
    ASSUME Inv, NEW p \in Procs, Crash(p)
    PROVE  Inv'
<1>1. UNCHANGED <<durable, edited, rushed, raced, edits>> /\ crashes' \in Nat
      /\ Raise(p) /\ Release(p)
  BY DEF Crash, Inv, TypeOK
<1>2. Grows /\ Stored'
  BY <1>1, Quiet
<1>3. Placed'
  BY <1>1, <1>2, Raises
<1>4. lock' \in [OpIds -> Procs \cup {Nobody}]
  BY <1>1, LockType
<1>5. TypeOK'
  BY <1>1, <1>3, <1>4 DEF Inv, TypeOK, Placed, durable
<1> QED BY <1>2, <1>3, <1>5 DEF Inv, Placed

-----------------------------------------------------------------------------
(* The theorems *)

LEMMA InitOK == Init => Inv
<1> SUFFICES ASSUME Init PROVE Inv
  OBVIOUS
<1>1. /\ \A o \in OpIds : ops[o] = NoOp
      /\ \A g \in Gens : commands[g] = [state |-> "none", op |-> Nobody]
      /\ \A p \in Procs : pc[p] = "idle" /\ loc[p] = Idle
  BY DEF Init
<1>2. NoOp \in Operations
  BY UnreadType DEF NoOp, Operations, Active
<1>3. NoRow \in Rows({}, OpIds)
  BY DEF NoRow, Rows, Statuses
<1>4. files \in [seeds : SeedSets \cup {Foreign.seeds}, version : Nat \cup {Foreign.version}]
  BY UnreadType DEF Init, Contents
<1>5. TypeOK
  BY <1>2, <1>3, <1>4, IdleType DEF Init, TypeOK, Places
<1>6. Used = {}
  BY <1>1 DEF Used, NoOp
<1>7. Dense
  BY <1>6, Used = 1 .. 0 DEF Dense
<1>8. OpsOK /\ KeysOnce /\ CommandsOK /\ RowOK
  BY <1>1, <1>6 DEF OpsOK, KeysOnce, CommandsOK, RowOK, Init, NoRow
<1>9. HeadOK
  BY DEF HeadOK, Init, Unread
<1>10. ProcsOK
  BY <1>1 DEF ProcsOK, ProcOK, SnapshotOK, PlaceOK, Idle
<1> QED BY <1>5, <1>7, <1>8, <1>9, <1>10 DEF Inv, Stored

LEMMA NextOK == Inv /\ [Next]_vars => Inv'
<1> SUFFICES ASSUME Inv, [Next]_vars PROVE Inv'
  OBVIOUS
<1>1. ASSUME NEW p \in Procs, Work(p) PROVE Inv'
  BY <1>1, LookUpCommandOK, RecoverTargetOK, ReadItemOK, BootstrapOK, CompareOK,
     ReplayOK, DigestItemOK, ReserveOK, ReserveCommandOK, EnterOpOK, CheckItemOK,
     ReplaceItemOK, MarkAppliedOK, VerifyOK, FinalizeOK, BindCommandOK, CompensateOK
  DEF Work
<1>2. CASE UNCHANGED vars
  <2>1. UNCHANGED <<durable, lock, history>> /\ UNCHANGED <<pc, loc>>
    BY <1>2 DEF vars
  <2> QED BY <2>1, Quiet, Unmoved, Local
<1> QED BY <1>1, <1>2, StartOK, PromoteOK, CheckReversibleOK, CrashOK, PrepareOK,
           LapseOK, EditOK, UndoOK DEF Next

\* What the journal, the head, the commands and the processes of the store
\* know of each other is kept by every step of the code.
THEOREM StoreInvariant == Spec => []Inv
BY InitOK, NextOK, PTL DEF Spec

\* Every variable of the store keeps its type.
THEOREM StoreTypeCorrect == Spec => []TypeOK
<1>1. Inv => TypeOK
  BY DEF Inv
<1> QED BY <1>1, StoreInvariant, PTL

\* Every call of the store returns a generation that was committed.
THEOREM StoreReplies == Spec => []RepliesAreCommitted
<1>1. Inv => RepliesAreCommitted
  BY DEF Inv, ProcsOK, ProcOK, SnapshotOK, RepliesAreCommitted
<1> QED BY <1>1, StoreInvariant, PTL

\* An approval is consumed only for an answer that was committed, and executes
\* only for one that is not given up.
THEOREM StoreApprovals == Spec => []ApprovalFollowsCommand
<1>1. Inv => ApprovalFollowsCommand
  BY DEF Inv, Stored, RowOK, CommandsOK, CommandOK, ApprovalFollowsCommand
<1> QED BY <1>1, StoreInvariant, PTL

-----------------------------------------------------------------------------
(* The store implements the register *)

Version == IF head = NoHead THEN 0 ELSE head.version
Seeds   == IF head = NoHead THEN {} ELSE head.seeds
Applied == {ops[o].key : o \in {q \in OpIds : ops[q].state = "done"}}

\* Operations keep their keys, and none becomes done: what every step but a
\* finalization does to the journal.
SameDone ==
    \A o \in OpIds : /\ ops'[o].state = "done" <=> ops[o].state = "done"
                     /\ ops[o].state = "done" => ops'[o].key = ops[o].key

LEMMA SameRegister ==
    ASSUME SameDone, UNCHANGED head
    PROVE  UNCHANGED <<Version, Seeds, Applied>>
BY DEF SameDone, Version, Seeds, Applied

LEMMA SetStateDone ==
    ASSUME Inv, NEW o \in OpIds, NEW s, SetState(o, s), s # "done" \/ ops[o].state = "done",
           ops[o].state # "done" \/ s = "done"
    PROVE  SameDone
BY DEF Inv, TypeOK, SetState, SameDone, Operations

LEMMA InsertDone ==
    ASSUME Inv, NEW p \in Procs, Insert(p), NextOp \in OpIds
    PROVE  SameDone
<1>1. ops[NextOp].state = "none" /\ ops \in [OpIds -> Operations]
  BY NextOpFacts DEF Used, Inv, TypeOK
<1>2. ops'[NextOp].state = "prepared" /\ \A o \in OpIds : o # NextOp => ops'[o] = ops[o]
  BY <1>1 DEF Insert
<1> QED BY <1>1, <1>2 DEF SameDone

\* A finalization commits the request of its operation.
LEMMA FinalizeCommits ==
    ASSUME Inv, NEW p \in Procs, Finalize(p)
    PROVE  Register!Next \/ UNCHANGED <<Version, Seeds, Applied>>
<1> DEFINE o == loc[p].op
           r == ops[o].key
<1>1. o \in Used /\ o \in OpIds /\ OpOK(o) /\ ops[o] \in Operations
  BY Working DEF Finalize
<1>2. CASE UNCHANGED <<head, ops>>
  BY <1>2 DEF Version, Seeds, Applied
<1>3. CASE /\ head = ops[o].base /\ ops[o].state = "fs_applied"
           /\ head' = ops[o].target /\ SetState(o, "done")
  <2>1. r \in Requests /\ head # NoHead /\ head \in Contents /\ ops[o].target \in Contents
        /\ ops[o].target # NoHead
    BY <1>1, <1>3, StoreAssumption DEF OpOK, Operations
  <2>2. Version' = Version + 1 /\ Seeds' = Seeds \cup {Adds(r)}
    BY <1>1, <1>3, <2>1 DEF OpOK, Version, Seeds
  <2>3. /\ ops'[o].state = "done"
        /\ \A q \in OpIds : ops'[q].key = ops[q].key
        /\ \A q \in OpIds : q # o => ops'[q].state = ops[q].state
    BY <1>1, <1>3 DEF Inv, TypeOK, SetState, Operations
  <2>4. Applied' = Applied \cup {r}
    BY <1>1, <1>3, <2>3 DEF Applied
  <2>5. r \notin Applied
    <3>1. \A q \in OpIds : ops[q].state = "done" => q \in Used /\ q # o
      BY <1>3 DEF Used
    <3> QED BY <1>1, <3>1 DEF Applied, Inv, Stored, KeysOnce
  <2>6. PICK k \in Requests : k = r
    BY <2>1
  <2>7. Register!Commit(k)
    BY <2>2, <2>4, <2>5, <2>6 DEF Register!Commit, Version, Seeds, Applied
  <2> QED BY <2>7 DEF Register!Next
<1> QED BY <1>2, <1>3 DEF Finalize

LEMMA BlockDone ==
    ASSUME Inv, NEW p \in Procs, pc[p] \in {"check", "verify"}, Block(p)
    PROVE  SameDone
<1> DEFINE o == loc[p].op
           s == IF ops[o].state \in {"done", "aborted"} THEN ops[o].state ELSE "blocked"
<1>1. o \in OpIds /\ SetState(o, s)
  BY Working DEF Block
<1>2. s = "done" <=> ops[o].state = "done"
  OBVIOUS
<1> HIDE DEF s
<1> QED BY <1>1, <1>2, SetStateDone

LEMMA WorkRefines ==
    ASSUME Inv, NEW p \in Procs, Work(p)
    PROVE  Register!Next \/ UNCHANGED <<Version, Seeds, Applied>>
<1>1. CASE UNCHANGED <<head, ops>>
  BY <1>1 DEF Version, Seeds, Applied
<1>2. CASE Bootstrap(p)
  <2>1. CASE UNCHANGED head
    BY <1>2, <2>1 DEF Bootstrap, Version, Seeds, Applied
  <2>2. CASE head = NoHead /\ files = loc[p].seen /\ head' = loc[p].seen
    <3>1. loc[p].seen \in Contents
      BY DEF Inv, TypeOK, Locals
    <3>2. files.seeds = {} /\ files.version = 0
      BY <2>2, <3>1, ForeignFacts DEF Inv, Stored, HeadOK, Contents
    <3>3. head' # NoHead /\ head'.seeds = {} /\ head'.version = 0
      BY <2>2, <3>1, <3>2, StoreAssumption
    <3> QED BY <1>2, <2>2, <3>3 DEF Bootstrap, Version, Seeds, Applied
  <2> QED BY <1>2, <2>1, <2>2 DEF Bootstrap
<1>3. CASE Reserve(p)
  BY <1>1, <1>3, InsertDone, SameRegister DEF Reserve
<1>4. CASE ReserveCommand(p)
  BY <1>1, <1>4, InsertDone, SameRegister DEF ReserveCommand
<1>5. CASE EnterOp(p)
  <2>1. pc[p] = "lock" /\ loc[p].op \in OpIds /\ UNCHANGED head
    BY <1>5, Working DEF EnterOp
  <2>2. CASE ops[loc[p].op].state = "blocked" /\ SetState(loc[p].op, "prepared")
    BY <2>1, <2>2, SetStateDone, SameRegister
  <2> QED BY <1>1, <1>5, <2>1, <2>2 DEF EnterOp
<1>6. CASE CheckItem(p)
  BY <1>1, <1>6, BlockDone, SameRegister DEF CheckItem
<1>7. CASE MarkApplied(p)
  <2>1. pc[p] = "mark" /\ loc[p].op \in OpIds /\ UNCHANGED head
    BY <1>7, Working DEF MarkApplied
  <2>2. CASE /\ ops[loc[p].op].state \in {"prepared", "fs_applied"}
             /\ SetState(loc[p].op, "fs_applied")
    BY <2>1, <2>2, SetStateDone, SameRegister
  <2> QED BY <1>1, <1>7, <2>1, <2>2 DEF MarkApplied
<1>8. CASE Verify(p)
  BY <1>1, <1>8, BlockDone, SameRegister DEF Verify
<1>9. CASE Finalize(p)
  BY <1>9, FinalizeCommits
<1>10. CASE Compensate(p)
  <2>1. pc[p] = "compensate" /\ loc[p].op \in OpIds /\ UNCHANGED head
    BY <1>10, Working DEF Compensate
  <2>2. CASE ops[loc[p].op].state = "prepared" /\ SetState(loc[p].op, "aborted")
    BY <2>1, <2>2, SetStateDone, SameRegister
  <2> QED BY <1>1, <1>10, <2>1, <2>2 DEF Compensate
<1> QED BY <1>1, <1>2, <1>3, <1>4, <1>5, <1>6, <1>7, <1>8, <1>9, <1>10
        DEF Work, LookUpCommand, RecoverTarget, ReadItem, Compare, Replay, DigestItem,
            ReplaceItem, BindCommand, durable

LEMMA NextRefines ==
    ASSUME Inv, [Next]_vars
    PROVE  Register!Next \/ UNCHANGED <<Version, Seeds, Applied>>
<1>1. CASE UNCHANGED <<head, ops>>
  BY <1>1 DEF Version, Seeds, Applied
<1>2. CASE \E p \in Procs : Work(p)
  BY <1>2, WorkRefines
<1>3. CASE UNCHANGED vars
  BY <1>1, <1>3 DEF vars, durable
<1> QED BY <1>1, <1>2, <1>3 DEF Next, Start, Promote, CheckReversible, Crash, Prepare,
        Lapse, Edit, Undo, durable

\* The store implements the versioned register: each request is applied at
\* most once, in one step, on top of everything committed before it, whatever
\* the interleaving, the crashes and the edits.
THEOREM StoreRefinesRegister == Spec => UpdatesAreAtomic
<1>1. Init => Register!Init
  <2> SUFFICES ASSUME Init PROVE Register!Init
    OBVIOUS
  <2>1. \A o \in OpIds : ops[o].state = "none"
    BY DEF Init, NoOp
  <2>2. {ops[o].key : o \in {q \in OpIds : ops[q].state = "done"}} = {}
    BY <2>1
  <2> QED BY <2>2 DEF Init, Register!Init
<1>2. Inv /\ [Next]_vars => [Register!Next]_<<Version, Seeds, Applied>>
  BY NextRefines
<1> QED BY <1>1, <1>2, StoreInvariant, PTL
        DEF Spec, UpdatesAreAtomic, Register!Spec, Version, Seeds, Applied

-----------------------------------------------------------------------------
(* The files.  Locks matter here: an operation has one process at work, and *)
(* its base stays the head until it ends.                                   *)

AtWork == {"check", "replace", "mark", "verify", "commit"}

LockHeld == \A p \in Procs : pc[p] \in AtWork => lock[loc[p].op] = p

OneActive == \A o, q \in ActiveOps : o = q

BaseIsHead == \A o \in ActiveOps : ops[o].base = head

WorkOpen ==
    ~raced => \A p \in Procs :
        pc[p] \in AtWork => ops[loc[p].op].state \in {"prepared", "fs_applied"}

\* What was verified stays so until the head moves.
Verified ==
    ~raced => \A p \in Procs : pc[p] = "commit" =>
        \A f \in {"seeds", "version"} \ edited : files[f] = ops[loc[p].op].target[f]

Checked == ~rushed => \A p \in Procs : pc[p] = "replace" => Items[loc[p].item] \notin edited

FilesInv ==
    /\ LockHeld /\ OneActive /\ BaseIsHead /\ WorkOpen /\ Verified /\ Checked
    /\ FilesFollowHead /\ EditsSurvive

\* A process that is not at work after its step, while the others stay.
Leaves(p) ==
    /\ pc'[p] \notin AtWork
    /\ \A q \in Procs \ {p} : pc'[q] = pc[q] /\ loc'[q] = loc[q]

LEMMA LeavesBy ==
    ASSUME Inv, NEW p \in Procs
    PROVE  /\ \A l : \A place \in Places \ AtWork : GotoWith(p, place, l) => Leaves(p)
           /\ \A place \in Places \ AtWork : Goto(p, place) => Leaves(p)
BY DEF Inv, TypeOK, GotoWith, Goto, Leaves

LEMMA Leaving ==
    ASSUME Inv, NEW p \in Procs
    PROVE  /\ Raise(p) => Leaves(p)
           /\ \A s : Return(p, s) => Leaves(p)
           /\ \A o, own, recovers : Finish(p, o, own, recovers) => Leaves(p)
           /\ \A g : ReadFor(p, g) => Leaves(p)
           /\ \A place \in {"replay", "digest"} : WithSnapshot(p, place) => Leaves(p)
           /\ \A g : After(p, g) => Leaves(p)
<1>1. {"idle", "lock", "read", "replay", "digest", "bind"} \subseteq Places \ AtWork
  BY DEF Places, AtWork
<1>2. /\ Raise(p) => Leaves(p)
      /\ \A s : Return(p, s) => Leaves(p)
      /\ \A o, own, recovers : Finish(p, o, own, recovers) => Leaves(p)
      /\ \A g : ReadFor(p, g) => Leaves(p)
      /\ \A place \in {"replay", "digest"} : WithSnapshot(p, place) => Leaves(p)
  BY <1>1, LeavesBy DEF Raise, Return, Finish, ReadFor, WithSnapshot
<1> QED BY <1>1, <1>2, LeavesBy DEF After

\* A process leaves the others their locks.
Keeps(p) == \A o \in OpIds : \A q \in Procs \ {p} : lock[o] = q => lock'[o] = q

LEMMA Keeping ==
    ASSUME Inv, NEW p \in Procs
    PROVE  /\ UNCHANGED lock => Keeps(p)
           /\ Release(p) => Keeps(p)
BY DEF Inv, TypeOK, Keeps, Release

\* Nothing happens to the files and the operations, and nobody goes to work.
LEMMA Aside ==
    ASSUME Inv, FilesInv, NEW p \in Procs, Leaves(p), Keeps(p),
           UNCHANGED <<files, head, ops, edited, rushed, raced>>
    PROVE  FilesInv'
<1>1. ActiveOps' = ActiveOps
  BY DEF ActiveOps
<1>2. \A q \in Procs : pc'[q] \in AtWork =>
         q # p /\ pc'[q] = pc[q] /\ loc'[q] = loc[q] /\ loc[q].op \in OpIds
  BY Working DEF Leaves, AtWork
<1>3. LockHeld'
  BY <1>2 DEF FilesInv, LockHeld, Keeps
<1>4. OneActive' /\ BaseIsHead' /\ FilesFollowHead' /\ EditsSurvive'
  BY <1>1 DEF FilesInv, OneActive, BaseIsHead, FilesFollowHead, EditsSurvive
<1>5. WorkOpen'
  BY <1>2 DEF FilesInv, WorkOpen
<1>6. Verified'
  BY <1>2 DEF FilesInv, Verified, AtWork
<1>7. Checked'
  BY <1>2 DEF FilesInv, Checked, AtWork
<1> QED BY <1>3, <1>4, <1>5, <1>6, <1>7 DEF FilesInv

\* The operations that are active stay so, and nobody goes to work.
LEMMA AsideInsert ==
    ASSUME Inv, FilesInv, NEW p \in Procs, Leaves(p), UNCHANGED lock,
           UNCHANGED <<files, head, edited, rushed, raced>>,
           CanReserve(p), Insert(p), NextOp \in OpIds
    PROVE  FilesInv'
<1>1. ops[NextOp].state = "none" /\ ops \in [OpIds -> Operations]
  BY NextOpFacts DEF Used, Inv, TypeOK
<1>2. /\ ops'[NextOp].state = "prepared" /\ ops'[NextOp].base = head
      /\ \A o \in OpIds : o # NextOp => ops'[o] = ops[o]
  BY <1>1 DEF Insert, CanReserve
<1>3. ActiveOps = {} /\ ActiveOps' = {NextOp}
  BY <1>1, <1>2 DEF CanReserve, ActiveOps, Active
<1>4. \A q \in Procs : pc'[q] \in AtWork =>
         /\ q # p /\ pc'[q] = pc[q] /\ loc'[q] = loc[q]
         /\ loc[q].op \in OpIds /\ ops'[loc[q].op] = ops[loc[q].op]
  <2> SUFFICES ASSUME NEW q \in Procs, pc'[q] \in AtWork
               PROVE  /\ q # p /\ pc'[q] = pc[q] /\ loc'[q] = loc[q]
                      /\ loc[q].op \in OpIds /\ ops'[loc[q].op] = ops[loc[q].op]
    OBVIOUS
  <2>1. q # p /\ pc'[q] = pc[q] /\ loc'[q] = loc[q] /\ pc[q] \in AtWork
    BY DEF Leaves
  <2>2. loc[q].op \in Used
    BY <2>1, Working DEF AtWork
  <2> QED BY <1>1, <1>2, <2>1, <2>2 DEF Used
<1>5. LockHeld'
  BY <1>4 DEF FilesInv, LockHeld
<1>6. OneActive' /\ BaseIsHead'
  BY <1>2, <1>3 DEF OneActive, BaseIsHead
<1>7. FilesFollowHead' /\ EditsSurvive'
  <2>1. head # NoHead /\ ~raced => \A f \in {"seeds", "version"} \ edited : files[f] = head[f]
    BY <1>3 DEF FilesInv, FilesFollowHead
  <2> QED BY <2>1 DEF FilesInv, FilesFollowHead, EditsSurvive
<1>8. WorkOpen'
  BY <1>4 DEF FilesInv, WorkOpen
<1>9. Verified'
  BY <1>4 DEF FilesInv, Verified, AtWork
<1>10. Checked'
  BY <1>4 DEF FilesInv, Checked, AtWork
<1> QED BY <1>5, <1>6, <1>7, <1>8, <1>9, <1>10 DEF FilesInv

\* A step that takes no file and ends no operation: it may change the state of
\* one, on which nobody else is at work.
LEMMA Stays ==
    ASSUME Inv, FilesInv, NEW p \in Procs, NEW o \in OpIds, Keeps(p),
           UNCHANGED <<files, head, edited, rushed, raced>>,
           \A q \in Procs \ {p} : pc'[q] = pc[q] /\ loc'[q] = loc[q],
           \A q \in Procs \ {p} : pc[q] \in AtWork => loc[q].op # o,
           \A q \in OpIds : ops'[q].base = ops[q].base /\ ops'[q].target = ops[q].target
                            /\ (q # o => ops'[q].state = ops[q].state),
           ops'[o].state \in Active <=> ops[o].state \in Active,
           pc'[p] \in AtWork =>
              /\ loc'[p].op \in OpIds /\ lock'[loc'[p].op] = p
              /\ ~raced => ops'[loc'[p].op].state \in {"prepared", "fs_applied"},
           pc'[p] = "commit" =>
              \A f \in {"seeds", "version"} \ edited : files[f] = ops[loc'[p].op].target[f],
           pc'[p] = "replace" /\ ~rushed => Items[loc'[p].item] \notin edited
    PROVE  FilesInv'
<1>1. ActiveOps' = ActiveOps
  BY DEF ActiveOps
<1>2. \A q \in Procs \ {p} : pc[q] \in AtWork =>
         loc[q].op \in OpIds /\ ops'[loc[q].op].state = ops[loc[q].op].state
         /\ ops'[loc[q].op].target = ops[loc[q].op].target
  BY Working DEF AtWork
<1>3. LockHeld'
  <2> SUFFICES ASSUME NEW q \in Procs, pc'[q] \in AtWork PROVE lock'[loc'[q].op] = q
    BY DEF LockHeld
  <2>1. CASE q = p
    BY <2>1
  <2>2. CASE q # p
    BY <1>2, <2>2 DEF FilesInv, LockHeld, Keeps
  <2> QED BY <2>1, <2>2
<1>4. OneActive' /\ BaseIsHead'
  BY <1>1 DEF FilesInv, OneActive, BaseIsHead, ActiveOps
<1>5. FilesFollowHead' /\ EditsSurvive'
  <2>1. \A q \in ActiveOps : ops'[q].target = ops[q].target
    BY DEF ActiveOps
  <2> QED BY <1>1, <2>1 DEF FilesInv, FilesFollowHead, EditsSurvive
<1>6. WorkOpen'
  <2> SUFFICES ASSUME ~raced, NEW q \in Procs, pc'[q] \in AtWork
               PROVE  ops'[loc'[q].op].state \in {"prepared", "fs_applied"}
    BY DEF WorkOpen
  <2>1. CASE q = p
    BY <2>1
  <2>2. CASE q # p
    BY <1>2, <2>2 DEF FilesInv, WorkOpen
  <2> QED BY <2>1, <2>2
<1>7. Verified'
  <2> SUFFICES ASSUME ~raced, NEW q \in Procs, pc'[q] = "commit",
                      NEW f \in {"seeds", "version"} \ edited
               PROVE  files[f] = ops'[loc'[q].op].target[f]
    BY DEF Verified
  <2>1. CASE q = p
    BY <2>1 DEF AtWork
  <2>2. CASE q # p
    BY <1>2, <2>2 DEF FilesInv, Verified, AtWork
  <2> QED BY <2>1, <2>2
<1>8. Checked'
  BY DEF FilesInv, Checked
<1> QED BY <1>3, <1>4, <1>5, <1>6, <1>7, <1>8 DEF FilesInv

\* One process is at work on an operation.
LEMMA Alone ==
    ASSUME Inv, FilesInv, NEW p \in Procs, NEW o \in OpIds,
           (pc[p] \in AtWork /\ loc[p].op = o) \/ lock[o] = Nobody
    PROVE  \A q \in Procs \ {p} : pc[q] \in AtWork => loc[q].op # o
BY StoreAssumption DEF FilesInv, LockHeld

LEMMA SetStateFacts ==
    ASSUME Inv, NEW o \in OpIds, NEW s, SetState(o, s)
    PROVE  /\ \A q \in OpIds : ops'[q].base = ops[q].base /\ ops'[q].target = ops[q].target
                               /\ (q # o => ops'[q].state = ops[q].state)
           /\ ops'[o].state = s
BY DEF Inv, TypeOK, SetState, Operations

LEMMA MoveFacts ==
    ASSUME Inv, NEW p \in Procs
    PROVE  /\ \A place, l : GotoWith(p, place, l) =>
                 /\ pc'[p] = place /\ loc'[p] = l
                 /\ \A q \in Procs \ {p} : pc'[q] = pc[q] /\ loc'[q] = loc[q]
           /\ \A place : Goto(p, place) =>
                 /\ pc'[p] = place /\ loc'[p] = loc[p]
                 /\ \A q \in Procs \ {p} : pc'[q] = pc[q] /\ loc'[q] = loc[q]
BY DEF Inv, TypeOK, GotoWith, Goto

LEMMA EnterOpFiles ==
    ASSUME Inv, FilesInv, NEW p \in Procs, EnterOp(p)
    PROVE  FilesInv'
<1> DEFINE o == loc[p].op
<1>1. /\ pc[p] = "lock" /\ lock[o] = Nobody /\ o \in OpIds
      /\ UNCHANGED <<files, head, edited, rushed, raced>>
  BY Working DEF EnterOp, history
<1>2. CASE UNCHANGED <<ops, lock>> /\ (After(p, ops[o].target) \/ Raise(p))
  BY <1>1, <1>2, Leaving, Keeping, Aside
<1>3. CASE /\ lock' = [lock EXCEPT ![o] = p] /\ Goto(p, "check")
           /\ \/ ops[o].state \in {"prepared", "fs_applied"} /\ UNCHANGED ops
              \/ ops[o].state = "blocked" /\ SetState(o, "prepared")
  <2>1. Keeps(p) /\ lock'[o] = p
    <3>1. p # Nobody /\ lock \in [OpIds -> Procs \cup {Nobody}]
      BY StoreAssumption DEF Inv, TypeOK
    <3>2. \A q \in OpIds : q # o => lock'[q] = lock[q]
      BY <1>1, <1>3, <3>1
    <3>3. lock'[o] = p
      BY <1>1, <1>3, <3>1
    <3> QED BY <1>1, <3>1, <3>2, <3>3, StoreAssumption DEF Keeps
  <2>2. /\ pc'[p] = "check" /\ loc'[p] = loc[p]
        /\ \A q \in Procs \ {p} : pc'[q] = pc[q] /\ loc'[q] = loc[q]
    BY <1>3, MoveFacts
  <2>3. /\ \A q \in OpIds : ops'[q].base = ops[q].base /\ ops'[q].target = ops[q].target
                            /\ (q # o => ops'[q].state = ops[q].state)
        /\ ops'[o].state \in {"prepared", "fs_applied"} /\ ops[o].state \in Active
    BY <1>1, <1>3, SetStateFacts DEF Active
  <2>4. \A q \in Procs \ {p} : pc[q] \in AtWork => loc[q].op # o
    BY <1>1, Alone
  <2> HIDE DEF o
  <2>5. loc[p].op = o
    BY DEF o
  <2> QED BY <1>1, <2>1, <2>2, <2>3, <2>4, <2>5, Stays DEF Active
<1> QED BY <1>2, <1>3 DEF EnterOp

LEMMA BlockFiles ==
    ASSUME Inv, FilesInv, NEW p \in Procs, pc[p] \in {"check", "verify"}, Block(p),
           UNCHANGED <<files, head, edited, rushed, raced>>
    PROVE  FilesInv'
<1> DEFINE o == loc[p].op
           s == IF ops[o].state \in {"done", "aborted"} THEN ops[o].state ELSE "blocked"
<1>1. o \in OpIds /\ SetState(o, s) /\ Raise(p) /\ Release(p) /\ ops[o].state # "none"
      /\ ops[o] \in Operations
  BY Working DEF Block, Used
<1>2. s \in Active <=> ops[o].state \in Active
  BY <1>1 DEF Active, Operations
<1> HIDE DEF s
<1>3. /\ \A q \in OpIds : ops'[q].base = ops[q].base /\ ops'[q].target = ops[q].target
                          /\ (q # o => ops'[q].state = ops[q].state)
      /\ ops'[o].state \in Active <=> ops[o].state \in Active
  BY <1>1, <1>2, SetStateFacts
<1>4. Leaves(p) /\ Keeps(p)
  BY <1>1, Leaving, Keeping
<1>5. \A q \in Procs \ {p} : pc[q] \in AtWork => loc[q].op # o
  BY <1>1, Alone DEF AtWork
<1> HIDE DEF o
<1> QED BY <1>1, <1>3, <1>4, <1>5, Stays DEF Leaves, AtWork

LEMMA CheckItemFiles ==
    ASSUME Inv, FilesInv, NEW p \in Procs, CheckItem(p)
    PROVE  FilesInv'
<1> DEFINE o == loc[p].op
           f == Items[loc[p].item]
<1>1. /\ pc[p] = "check" /\ o \in OpIds /\ UNCHANGED <<files, head, edited, rushed, raced>>
      /\ ops[o] \in Operations /\ f \in {"seeds", "version"}
  BY Working, ItemFacts DEF CheckItem, history, Inv, ProcsOK, ProcOK, PlaceOK
<1>2. CASE Block(p)
  BY <1>1, <1>2, BlockFiles
<1>3. CASE /\ UNCHANGED <<ops, lock>>
           /\ \/ NextItem(p)
              \/ files[f] = ops[o].base[f] /\ Goto(p, "replace")
  <2>1. /\ pc'[p] \in {"check", "mark", "replace"} /\ loc'[p].op = o
        /\ \A q \in Procs \ {p} : pc'[q] = pc[q] /\ loc'[q] = loc[q]
    <3>1. CASE NextItem(p)
      <4>1. loc[p] \in Locals
        BY DEF Inv, TypeOK
      <4> QED BY <3>1, <4>1, MoveFacts DEF NextItem, Locals
    <3>2. CASE Goto(p, "replace")
      BY <3>2, MoveFacts
    <3> QED BY <1>3, <3>1, <3>2
  <2>2. pc'[p] = "replace" /\ ~rushed => Items[loc'[p].item] \notin edited
    <3> SUFFICES ASSUME pc'[p] = "replace", ~rushed PROVE Items[loc'[p].item] \notin edited
      OBVIOUS
    <3>1. files[f] = ops[o].base[f] /\ loc'[p] = loc[p]
      BY <1>3, MoveFacts, ItemFacts DEF NextItem
    <3>2. ops[o].base[f] # Foreign[f]
      BY <1>1, ForeignFacts DEF Operations, Contents
    <3> QED BY <3>1, <3>2 DEF FilesInv, EditsSurvive
  <2>3. lock'[o] = p /\ (~raced => ops'[o].state \in {"prepared", "fs_applied"})
    BY <1>1, <1>3 DEF FilesInv, LockHeld, WorkOpen, AtWork
  <2>4. \A q \in Procs \ {p} : pc[q] \in AtWork => loc[q].op # o
    BY <1>1, Alone DEF AtWork
  <2>5. Keeps(p)
    BY <1>3, Keeping
  <2> HIDE DEF o
  <2> QED BY <1>1, <1>3, <2>1, <2>2, <2>3, <2>4, <2>5, Stays DEF AtWork
<1> QED BY <1>2, <1>3 DEF CheckItem

\* The replaced file is at the target of the one active operation.
LEMMA ReplaceItemFiles ==
    ASSUME Inv, FilesInv, NEW p \in Procs, ReplaceItem(p)
    PROVE  FilesInv'
<1> DEFINE o == loc[p].op
           f == Items[loc[p].item]
<1>1. /\ pc[p] = "replace" /\ o \in OpIds /\ f \in {"seeds", "version"}
      /\ UNCHANGED <<head, ops, lock, edited, rushed, raced>>
      /\ files' = [files EXCEPT ![f] = ops[o].target[f]] /\ NextItem(p)
  BY Working, ItemFacts DEF ReplaceItem, history, Inv, ProcsOK, ProcOK, PlaceOK
<1>2. /\ pc'[p] \in {"check", "mark"} /\ loc'[p].op = o
      /\ \A q \in Procs \ {p} : pc'[q] = pc[q] /\ loc'[q] = loc[q]
  <2>1. loc[p] \in Locals
    BY DEF Inv, TypeOK
  <2> QED BY <1>1, <2>1, MoveFacts DEF NextItem, Locals
<1>3. /\ files'[f] = ops[o].target[f]
      /\ \A h \in {"seeds", "version"} : h # f => files'[h] = files[h]
  BY <1>1 DEF Inv, TypeOK
<1>4. ~raced => o \in ActiveOps
  BY <1>1 DEF FilesInv, WorkOpen, AtWork, ActiveOps, Active
<1>5. ActiveOps' = ActiveOps
  BY <1>1 DEF ActiveOps
<1>6. LockHeld' /\ WorkOpen'
  BY <1>1, <1>2 DEF FilesInv, LockHeld, WorkOpen, AtWork
<1>7. OneActive' /\ BaseIsHead'
  BY <1>1, <1>5 DEF FilesInv, OneActive, BaseIsHead
<1>8. Verified'
  <2> SUFFICES ASSUME ~raced, NEW q \in Procs, pc'[q] = "commit" PROVE FALSE
    BY <1>1 DEF Verified
  <2>1. q # p /\ pc[q] = "commit"
    BY <1>2
  <2>2. loc[q].op # o /\ loc[q].op \in OpIds
    BY <1>1, <2>1, Alone, Working DEF AtWork
  <2>3. loc[q].op \in ActiveOps
    BY <2>1, <2>2 DEF FilesInv, WorkOpen, AtWork, ActiveOps, Active
  <2> QED BY <1>4, <2>2, <2>3 DEF FilesInv, OneActive
<1>9. Checked'
  BY <1>1, <1>2 DEF FilesInv, Checked
<1>10. FilesFollowHead'
  <2> SUFFICES ASSUME head # NoHead, ~raced, NEW h \in {"seeds", "version"} \ edited
               PROVE  files'[h] \in {head[h]} \cup {ops[q].target[h] : q \in ActiveOps}
    BY <1>1, <1>5 DEF FilesFollowHead
  <2>1. CASE h = f
    BY <1>3, <1>4, <2>1
  <2>2. CASE h # f
    BY <1>3, <2>2 DEF FilesInv, FilesFollowHead
  <2> QED BY <2>1, <2>2
<1>11. EditsSurvive'
  <2>1. ~rushed => f \notin edited
    BY <1>1 DEF FilesInv, Checked
  <2> QED BY <1>1, <1>3, <2>1 DEF FilesInv, EditsSurvive, Inv, TypeOK
<1> QED BY <1>6, <1>7, <1>8, <1>9, <1>10, <1>11 DEF FilesInv

LEMMA MarkAppliedFiles ==
    ASSUME Inv, FilesInv, NEW p \in Procs, MarkApplied(p)
    PROVE  FilesInv'
<1> DEFINE o == loc[p].op
<1>1. pc[p] = "mark" /\ o \in OpIds /\ UNCHANGED <<files, head, edited, rushed, raced>>
  BY Working DEF MarkApplied, history
<1>2. CASE Raise(p) /\ Release(p) /\ UNCHANGED ops
  BY <1>1, <1>2, Leaving, Keeping, Aside
<1>3. CASE /\ ops[o].state \in {"prepared", "fs_applied"} /\ SetState(o, "fs_applied")
           /\ Goto(p, "verify") /\ UNCHANGED lock
  <2>1. /\ \A q \in OpIds : ops'[q].base = ops[q].base /\ ops'[q].target = ops[q].target
                            /\ (q # o => ops'[q].state = ops[q].state)
        /\ ops'[o].state = "fs_applied"
    BY <1>1, <1>3, SetStateFacts
  <2>2. /\ pc'[p] = "verify" /\ loc'[p] = loc[p]
        /\ \A q \in Procs \ {p} : pc'[q] = pc[q] /\ loc'[q] = loc[q]
    BY <1>3, MoveFacts
  <2>3. \A q \in Procs \ {p} : pc[q] \in AtWork => loc[q].op # o
    BY <1>1, Alone DEF AtWork
  <2>4. Keeps(p) /\ lock'[o] = p
    BY <1>1, <1>3, Keeping DEF FilesInv, LockHeld, AtWork
  <2>5. (ops'[o].state \in Active <=> ops[o].state \in Active) /\ loc'[p].op = o
    BY <1>3, <2>1, <2>2 DEF Active
  <2> HIDE DEF o
  <2> QED BY <1>1, <2>1, <2>2, <2>3, <2>4, <2>5, Stays DEF AtWork
<1> QED BY <1>2, <1>3 DEF MarkApplied

LEMMA VerifyFiles ==
    ASSUME Inv, FilesInv, NEW p \in Procs, Verify(p)
    PROVE  FilesInv'
<1> DEFINE o == loc[p].op
           bad == {i \in 1 .. Len(Items) : files[Items[i]] # ops[o].target[Items[i]]}
<1>1. pc[p] = "verify" /\ o \in OpIds /\ UNCHANGED <<files, head, edited, rushed, raced>>
  BY Working DEF Verify, history
<1>2. CASE Block(p)
  BY <1>1, <1>2, BlockFiles
<1>3. CASE Raise(p) /\ Release(p) /\ UNCHANGED ops
  BY <1>1, <1>3, Leaving, Keeping, Aside
<1>4. CASE bad = {} /\ Goto(p, "commit") /\ UNCHANGED <<ops, lock>>
  <2>1. \A f \in {"seeds", "version"} : files[f] = ops[o].target[f]
    BY <1>4, ItemFacts
  <2>2. /\ pc'[p] = "commit" /\ loc'[p] = loc[p]
        /\ \A q \in Procs \ {p} : pc'[q] = pc[q] /\ loc'[q] = loc[q]
    BY <1>4, MoveFacts
  <2>3. \A q \in Procs \ {p} : pc[q] \in AtWork => loc[q].op # o
    BY <1>1, Alone DEF AtWork
  <2>4. /\ Keeps(p) /\ lock'[o] = p
        /\ ~raced => ops'[o].state \in {"prepared", "fs_applied"}
    BY <1>1, <1>4, Keeping DEF FilesInv, LockHeld, WorkOpen, AtWork
  <2>5. loc'[p].op = o
    BY <2>2
  <2> HIDE DEF o, bad
  <2> QED BY <1>1, <1>4, <2>1, <2>2, <2>3, <2>4, <2>5, Stays DEF AtWork
<1> QED BY <1>2, <1>3, <1>4 DEF Verify

\* The head moves to where the files are.
LEMMA FinalizeFiles ==
    ASSUME Inv, FilesInv, NEW p \in Procs, Finalize(p)
    PROVE  FilesInv'
<1> DEFINE o == loc[p].op
           t == ops[o].target
<1>1. /\ pc[p] = "commit" /\ o \in OpIds /\ UNCHANGED <<files, edited, rushed, raced>>
      /\ Release(p) /\ Keeps(p)
  BY Working, Keeping DEF Finalize, history
<1>2. CASE Raise(p) /\ UNCHANGED <<head, ops>>
  BY <1>1, <1>2, Leaving, Aside
<1>3. CASE /\ head = ops[o].base /\ ops[o].state = "fs_applied"
           /\ head' = t /\ SetState(o, "done") /\ After(p, t)
  <2>1. /\ \A q \in OpIds : ops'[q].base = ops[q].base /\ ops'[q].target = ops[q].target
                            /\ (q # o => ops'[q].state = ops[q].state)
        /\ ops'[o].state = "done"
    BY <1>1, <1>3, SetStateFacts
  <2>2. o \in ActiveOps
    BY <1>1, <1>3 DEF ActiveOps, Active
  <2>3. ActiveOps' = {}
    <3>1. \A q \in OpIds : ops[q].state \in Active => q = o
      BY <2>2 DEF FilesInv, OneActive, ActiveOps
    <3>2. \A q \in OpIds : ops'[q].state \notin Active
      BY <2>1, <3>1 DEF Active
    <3> QED BY <3>2 DEF ActiveOps
  <2>4. Leaves(p)
    BY <1>3, Leaving
  <2>5. \A q \in Procs : pc'[q] \in AtWork =>
           /\ q # p /\ pc'[q] = pc[q] /\ loc'[q] = loc[q]
           /\ loc[q].op \in OpIds /\ loc[q].op # o
    BY <1>1, <2>4, Alone, Working DEF Leaves, AtWork
  <2>6. LockHeld'
    BY <1>1, <2>5 DEF FilesInv, LockHeld, Keeps
  <2>7. OneActive' /\ BaseIsHead'
    BY <2>3 DEF OneActive, BaseIsHead
  <2>8. WorkOpen'
    BY <1>1, <2>1, <2>5 DEF FilesInv, WorkOpen
  <2>9. Verified'
    BY <1>1, <2>1, <2>5 DEF FilesInv, Verified, AtWork
  <2>10. Checked' /\ EditsSurvive'
    BY <1>1, <2>5 DEF FilesInv, Checked, EditsSurvive, AtWork
  <2>11. FilesFollowHead'
    <3>1. ~raced => \A f \in {"seeds", "version"} \ edited : files[f] = t[f]
      BY <1>1 DEF FilesInv, Verified
    <3> HIDE DEF t
    <3> QED BY <1>1, <1>3, <3>1 DEF FilesFollowHead
  <2> QED BY <2>6, <2>7, <2>8, <2>9, <2>10, <2>11 DEF FilesInv
<1> QED BY <1>2, <1>3 DEF Finalize

\* An operation is given up while its files are at its base, or it raced.
LEMMA CompensateFiles ==
    ASSUME Inv, FilesInv, NEW p \in Procs, Compensate(p)
    PROVE  FilesInv'
<1> DEFINE o == loc[p].op
<1>1. /\ pc[p] = "compensate" /\ o \in OpIds /\ UNCHANGED <<files, head, lock, edited, rushed>>
      /\ Leaves(p) /\ Keeps(p)
  BY Working, Leaving, Keeping DEF Compensate
<1>2. CASE UNCHANGED <<ops, commands, row, raced>>
  BY <1>1, <1>2, Aside
<1>3. CASE /\ ops[o].state = "prepared" /\ SetState(o, "aborted")
           /\ raced' = (raced \/ lock[o] # Nobody \/ files # ops[o].base)
  <2>1. /\ \A q \in OpIds : ops'[q].base = ops[q].base /\ ops'[q].target = ops[q].target
                            /\ (q # o => ops'[q].state = ops[q].state)
        /\ ops'[o].state = "aborted"
    BY <1>1, <1>3, SetStateFacts
  <2>2. ~raced' => ~raced /\ lock[o] = Nobody /\ files = ops[o].base
    BY <1>3
  <2>3. o \in ActiveOps /\ ops[o].base = head
    BY <1>1, <1>3 DEF ActiveOps, Active, FilesInv, BaseIsHead
  <2>4. ActiveOps' = {}
    <3>1. \A q \in OpIds : ops[q].state \in Active => q = o
      BY <2>3 DEF FilesInv, OneActive, ActiveOps
    <3>2. \A q \in OpIds : ops'[q].state \notin Active
      BY <2>1, <3>1 DEF Active
    <3> QED BY <3>2 DEF ActiveOps
  <2>5. \A q \in Procs : pc'[q] \in AtWork =>
           q # p /\ pc'[q] = pc[q] /\ loc'[q] = loc[q] /\ loc[q].op \in OpIds
    BY <1>1, Working DEF Leaves, AtWork
  <2>6. lock[o] = Nobody => \A q \in Procs : pc'[q] \in AtWork => loc[q].op # o
    BY <1>1, <2>5, Alone
  <2>7. LockHeld'
    BY <1>1, <2>5 DEF FilesInv, LockHeld
  <2>8. OneActive' /\ BaseIsHead'
    BY <2>4 DEF OneActive, BaseIsHead
  <2>9. WorkOpen'
    <3> SUFFICES ASSUME ~raced', NEW q \in Procs, pc'[q] \in AtWork
                 PROVE  ops'[loc'[q].op].state \in {"prepared", "fs_applied"}
      BY DEF WorkOpen
    <3> QED BY <1>1, <2>1, <2>2, <2>5, <2>6 DEF FilesInv, WorkOpen
  <2>10. Verified'
    <3> SUFFICES ASSUME ~raced', NEW q \in Procs, pc'[q] = "commit",
                        NEW f \in {"seeds", "version"} \ edited
                 PROVE  files[f] = ops'[loc'[q].op].target[f]
      BY <1>1 DEF Verified
    <3> QED BY <1>1, <2>1, <2>2, <2>5, <2>6 DEF FilesInv, Verified, AtWork
  <2>11. Checked' /\ EditsSurvive'
    BY <1>1, <2>5 DEF FilesInv, Checked, EditsSurvive, AtWork
  <2>12. FilesFollowHead'
    BY <1>1, <2>2, <2>3 DEF FilesFollowHead
  <2> QED BY <2>7, <2>8, <2>9, <2>10, <2>11, <2>12 DEF FilesInv
<1> QED BY <1>2, <1>3 DEF Compensate

\* The first head is what the files hold, before any operation.
LEMMA BootstrapFiles ==
    ASSUME Inv, FilesInv, NEW p \in Procs, Bootstrap(p)
    PROVE  FilesInv'
<1>1. /\ UNCHANGED <<files, ops, lock, edited, rushed, raced>>
      /\ Leaves(p) /\ Keeps(p)
  BY Leaving, Keeping DEF Bootstrap, history
<1>2. CASE UNCHANGED head
  BY <1>1, <1>2, Aside
<1>3. CASE head = NoHead /\ head' = files
  <2>1. \A o \in OpIds : ops[o].state = "none"
    BY <1>3 DEF Inv, Stored, OpsOK, OpOK, Used
  <2>2. ActiveOps = {} /\ ActiveOps' = {}
    BY <1>1, <2>1 DEF ActiveOps, Active
  <2>3. \A q \in Procs : pc'[q] \notin AtWork
    BY <1>1, <2>1, Working DEF Leaves, AtWork, Used
  <2>4. /\ LockHeld' /\ OneActive' /\ BaseIsHead' /\ WorkOpen' /\ Verified' /\ Checked'
    BY <2>2, <2>3 DEF LockHeld, OneActive, BaseIsHead, WorkOpen, Verified, Checked, AtWork
  <2>5. FilesFollowHead' /\ EditsSurvive'
    BY <1>1, <1>3 DEF FilesInv, FilesFollowHead, EditsSurvive
  <2> QED BY <2>4, <2>5 DEF FilesInv
<1> QED BY <1>2, <1>3 DEF Bootstrap

LEMMA EditFiles ==
    ASSUME Inv, FilesInv, NEW f \in {"seeds", "version"}, Edit(f)
    PROVE  FilesInv'
<1>1. /\ UNCHANGED <<head, ops, lock, pc, loc, raced>> /\ edited' = edited \cup {f}
      /\ files'[f] = Foreign[f]
      /\ \A h \in {"seeds", "version"} : h # f => files'[h] = files[h]
  BY DEF Edit, Inv, TypeOK
<1>2. ~rushed' => ~rushed /\ \A p \in Procs : pc[p] = "replace" => Items[loc[p].item] # f
  BY DEF Edit
<1>3. ActiveOps' = ActiveOps
  BY <1>1 DEF ActiveOps
<1>4. LockHeld' /\ OneActive' /\ BaseIsHead' /\ WorkOpen'
  BY <1>1, <1>3 DEF FilesInv, LockHeld, OneActive, BaseIsHead, WorkOpen
<1>5. Verified'
  BY <1>1 DEF FilesInv, Verified
<1>6. Checked'
  BY <1>1, <1>2 DEF FilesInv, Checked
<1>7. FilesFollowHead'
  BY <1>1, <1>3 DEF FilesInv, FilesFollowHead
<1>8. EditsSurvive'
  <2> SUFFICES ASSUME ~rushed', NEW h \in edited' PROVE files'[h] = Foreign[h]
    BY DEF EditsSurvive
  <2>1. h \in {"seeds", "version"} /\ (h # f => h \in edited)
    BY <1>1 DEF Inv, TypeOK
  <2> QED BY <1>1, <1>2, <2>1 DEF FilesInv, EditsSurvive
<1> QED BY <1>4, <1>5, <1>6, <1>7, <1>8 DEF FilesInv

LEMMA UndoFiles ==
    ASSUME Inv, FilesInv, NEW f \in {"seeds", "version"}, Undo(f)
    PROVE  FilesInv'
<1>1. /\ UNCHANGED <<head, ops, lock, pc, loc, rushed, raced>> /\ edited' = edited \ {f}
      /\ files'[f] = head[f]
      /\ \A h \in {"seeds", "version"} : h # f => files'[h] = files[h]
  BY DEF Undo, Inv, TypeOK
<1>2. ActiveOps' = ActiveOps
  BY <1>1 DEF ActiveOps
<1>3. \A p \in Procs : pc[p] \notin AtWork
  <2> SUFFICES ASSUME NEW p \in Procs, pc[p] \in AtWork PROVE FALSE
    OBVIOUS
  <2>1. loc[p].op \in OpIds /\ lock[loc[p].op] = p
    BY Working DEF FilesInv, LockHeld, AtWork
  <2> QED BY <2>1, StoreAssumption DEF Undo
<1>4. LockHeld' /\ OneActive' /\ BaseIsHead' /\ WorkOpen' /\ Verified' /\ Checked'
  BY <1>1, <1>2, <1>3 DEF FilesInv, LockHeld, OneActive, BaseIsHead, WorkOpen, Verified,
     Checked, AtWork
<1>5. FilesFollowHead'
  <2> SUFFICES ASSUME head # NoHead, ~raced, NEW h \in {"seeds", "version"} \ edited'
               PROVE  files'[h] \in {head[h]} \cup {ops[q].target[h] : q \in ActiveOps}
    BY <1>1, <1>2 DEF FilesFollowHead
  <2>1. CASE h = f
    BY <1>1, <2>1
  <2>2. CASE h # f
    BY <1>1, <2>2 DEF FilesInv, FilesFollowHead
  <2> QED BY <2>1, <2>2
<1>6. EditsSurvive'
  <2> SUFFICES ASSUME ~rushed', NEW h \in edited' PROVE files'[h] = Foreign[h]
    BY DEF EditsSurvive
  <2>1. h \in {"seeds", "version"} /\ h # f /\ h \in edited
    BY <1>1 DEF Inv, TypeOK
  <2> QED BY <1>1, <2>1 DEF FilesInv, EditsSurvive
<1> QED BY <1>4, <1>5, <1>6 DEF FilesInv

LEMMA CrashFiles ==
    ASSUME Inv, FilesInv, NEW p \in Procs, Crash(p)
    PROVE  FilesInv'
BY Leaving, Keeping, Aside DEF Crash, durable

\* The steps that touch neither the files nor the journal.
LEMMA LocalFiles ==
    ASSUME Inv, FilesInv, NEW p \in Procs, Leaves(p), UNCHANGED <<durable, lock, history>>
    PROVE  FilesInv'
<1>1. UNCHANGED <<files, head, ops, edited, rushed, raced>> /\ UNCHANGED lock
  BY DEF durable, history
<1> QED BY <1>1, Keeping, Aside

LEMMA CallFiles ==
    ASSUME Inv, FilesInv, NEW p \in Procs,
           \/ \E goal, key : Start(p, goal, key)
           \/ \E gen \in Gens : Promote(p, gen) \/ CheckReversible(p, gen)
    PROVE  FilesInv'
<1>1. {"target", "command", "compensate"} \subseteq Places \ AtWork
  BY DEF Places, AtWork
<1> QED BY <1>1, LeavesBy, LocalFiles DEF Start, Promote, CheckReversible

LEMMA ResumeLeaves ==
    ASSUME Inv, NEW p \in Procs, ResumeCommand(p)
    PROVE  Leaves(p)
BY Leaving DEF ResumeCommand

LEMMA LocalWorkFiles ==
    ASSUME Inv, FilesInv, NEW p \in Procs,
           \/ LookUpCommand(p) \/ RecoverTarget(p) \/ ReadItem(p) \/ Compare(p)
           \/ Replay(p) \/ DigestItem(p)
    PROVE  FilesInv'
<1>1. {"target", "read", "compare", "digest", "reserve"} \subseteq Places \ AtWork
  BY DEF Places, AtWork
<1>2. CASE LookUpCommand(p)
  BY <1>1, <1>2, LeavesBy, ResumeLeaves, LocalFiles DEF LookUpCommand
<1>3. CASE RecoverTarget(p)
  BY <1>3, Leaving, LocalFiles DEF RecoverTarget
<1>4. CASE ReadItem(p)
  BY <1>1, <1>4, Leaving, LeavesBy, LocalFiles DEF ReadItem
<1>5. CASE Compare(p)
  BY <1>5, Leaving, LocalFiles DEF Compare, UseSnapshot
<1>6. CASE Replay(p)
  BY <1>6, Leaving, LocalFiles DEF Replay
<1>7. CASE DigestItem(p)
  BY <1>1, <1>7, Leaving, LeavesBy, LocalFiles DEF DigestItem
<1> QED BY <1>2, <1>3, <1>4, <1>5, <1>6, <1>7

LEMMA BindCommandFiles ==
    ASSUME Inv, FilesInv, NEW p \in Procs, BindCommand(p)
    PROVE  FilesInv'
<1>1. Leaves(p)
  BY Leaving DEF BindCommand
<1>2. UNCHANGED <<files, head, ops, edited, rushed, raced>> /\ UNCHANGED lock
  BY DEF BindCommand, history
<1> QED BY <1>1, <1>2, Keeping, Aside

LEMMA ReserveFiles ==
    ASSUME Inv, FilesInv, NEW p \in Procs, Reserve(p) \/ ReserveCommand(p)
    PROVE  FilesInv'
<1>1. /\ UNCHANGED <<files, head, edited, rushed, raced>> /\ UNCHANGED lock
      /\ NextOp \in OpIds
  BY DEF Reserve, ReserveCommand, history
<1>2. Leaves(p)
  BY Leaving, ResumeLeaves DEF Reserve, ReserveCommand
<1>3. CASE UNCHANGED ops
  BY <1>1, <1>2, <1>3, Keeping, Aside
<1>4. CASE CanReserve(p) /\ Insert(p)
  BY <1>1, <1>2, <1>4, AsideInsert
<1> QED BY <1>3, <1>4 DEF Reserve, ReserveCommand

LEMMA FilesInit == Init => FilesInv
<1> SUFFICES ASSUME Init PROVE FilesInv
  OBVIOUS
<1>1. ActiveOps = {}
  BY DEF Init, ActiveOps, NoOp, Active
<1> QED BY <1>1 DEF Init, FilesInv, LockHeld, OneActive, BaseIsHead, WorkOpen, Verified,
        Checked, FilesFollowHead, EditsSurvive, AtWork

LEMMA FilesNext == Inv /\ FilesInv /\ [Next]_vars => FilesInv'
<1> SUFFICES ASSUME Inv, FilesInv, [Next]_vars PROVE FilesInv'
  OBVIOUS
<1>1. ASSUME NEW p \in Procs, Work(p) PROVE FilesInv'
  BY <1>1, LocalWorkFiles, BootstrapFiles, ReserveFiles, EnterOpFiles, CheckItemFiles,
     ReplaceItemFiles, MarkAppliedFiles, VerifyFiles, FinalizeFiles, BindCommandFiles,
     CompensateFiles
  DEF Work
<1>2. CASE UNCHANGED <<files, head, ops, lock, pc, loc, edited, rushed, raced>>
  BY <1>2 DEF FilesInv, LockHeld, OneActive, BaseIsHead, WorkOpen, Verified, Checked,
     FilesFollowHead, EditsSurvive, ActiveOps
<1>3. Prepare \/ Lapse => UNCHANGED <<files, head, ops, lock, pc, loc, edited, rushed, raced>>
  BY DEF Prepare, Lapse, history
<1>4. UNCHANGED vars => UNCHANGED <<files, head, ops, lock, pc, loc, edited, rushed, raced>>
  BY DEF vars, durable, history
<1> QED BY <1>1, <1>2, <1>3, <1>4, CallFiles, CrashFiles, EditFiles, UndoFiles DEF Next

\* The files of the seeds are at the committed head or at the target of the
\* one open operation, item by item, unless somebody else edited them or a
\* compensation raced with the work it undoes.
THEOREM StoreFiles == Spec => []FilesFollowHead
<1>1. FilesInv => FilesFollowHead
  BY DEF FilesInv
<1> QED BY <1>1, StoreInvariant, FilesInit, FilesNext, PTL DEF Spec

\* apply_replace never overwrites an edit it could have seen: only one that
\* falls between an item's check and its replacement.
THEOREM StoreEdits == Spec => []EditsSurvive
<1>1. FilesInv => EditsSurvive
  BY DEF FilesInv
<1> QED BY <1>1, StoreInvariant, FilesInit, FilesNext, PTL DEF Spec
=============================================================================
