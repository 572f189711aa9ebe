--------------------------- MODULE SemanticStore ---------------------------
(***************************************************************************)
(* The semantic seeds of one project: SemanticSeedsRepository over the     *)
(* StorageOperationJournal.  A generation lives in several files; SQLite   *)
(* holds the committed head (version and digest), the journal of           *)
(* replacements and the commands that bind an approval to one of them.     *)
(*                                                                         *)
(* A replacement is reserved in one transaction, applied file by file      *)
(* under the operation's lock, and finalized in a second transaction.  A   *)
(* process may die anywhere; whoever reads next completes what it left.    *)
(*                                                                         *)
(* Two files stand for the three: one whose contents a request changes or  *)
(* keeps, and versions.json, which every request changes.  The contents of *)
(* seeds.json is the set of changes made to it; a digest is the contents.  *)
(***************************************************************************)
EXTENDS PendingActions, FiniteSets, Sequences

CONSTANTS
    Procs,          \* request threads and workers
    Keys,           \* request keys of updates; each adds itself to the seeds
    Answer,         \* what an approved promotion adds to the seeds
    Alien,          \* what an edit by somebody else leaves in the seeds
    NoHead,         \* no row in resource_heads
    MaxOps,         \* bound: replacements journalled
    MaxGens,        \* bound: previews of the promotion
    MaxCrashes,     \* bound: processes that die
    MaxEdits        \* bound: edits of the files by somebody else

Gens     == 1 .. MaxGens
OpIds    == 1 .. MaxOps
Requests == Keys \cup Gens          \* request keys: a promotion's is its generation
Adds(r)  == IF r \in Keys THEN r ELSE Answer
Names    == Keys \cup {Answer}
SeedSets == SUBSET Names
Contents == [seeds : SeedSets, version : Nat]

ASSUME StoreAssumption ==
    /\ MaxOps \in Nat /\ MaxGens \in Nat /\ MaxCrashes \in Nat /\ MaxEdits \in Nat
    /\ Keys \cap Gens = {} /\ Nobody \notin Procs \cup Requests \cup OpIds
    /\ NoHead \notin Contents
    /\ Alien \notin Names

VARIABLES
    files,          \* the files, by item
    head,           \* resource_heads: the committed generation
    ops,            \* storage_operations with their items
    commands,       \* semantic_commands, by approval generation
    row,            \* the promotion's row in pending_actions
    lock,           \* who holds an operation's lock file
    pc, loc,        \* where a process is, and its locals
    edited,         \* history: items with an edit nobody has undone
    rushed,         \* history: an edit fell between an item's check and replacement
    raced,          \* history: a compensation aborted an operation that had begun
    crashes, edits  \* bounds

durable == <<files, head, ops, commands, row>>
history == <<edited, rushed, raced, crashes, edits>>
vars    == <<durable, lock, pc, loc, history>>

Items   == <<"seeds", "version">>           \* in path order
Unread  == [seeds |-> {}, version |-> 0]
Foreign == [seeds |-> {Alien}, version |-> -1]      \* contents that cannot be read as seeds
NoOp    == [state |-> "none", key |-> Nobody, base |-> Unread, target |-> Unread]
Active  == {"prepared", "fs_applied", "blocked"}
Idle    == [goal |-> "none", key |-> Nobody, seen |-> Unread, want |-> NoHead,
            base |-> Unread, op |-> Nobody, own |-> FALSE, recovers |-> FALSE,
            item |-> 1, reply |-> NoHead]

Init ==
    /\ files = Unread /\ head = NoHead
    /\ ops = [o \in OpIds |-> NoOp]
    /\ commands = [g \in Gens |-> [state |-> "none", op |-> Nobody]]
    /\ row = NoRow
    /\ lock = [o \in OpIds |-> Nobody]
    /\ pc = [p \in Procs |-> "idle"] /\ loc = [p \in Procs |-> Idle]
    /\ edited = {} /\ rushed = FALSE /\ raced = FALSE
    /\ crashes = 0 /\ edits = 0

-----------------------------------------------------------------------------
(* Steps of a process *)

Goto(p, place) == pc' = [pc EXCEPT ![p] = place] /\ UNCHANGED loc

GotoWith(p, place, l) == pc' = [pc EXCEPT ![p] = place] /\ loc' = [loc EXCEPT ![p] = l]

\* The call returns a snapshot.
Return(p, s) == GotoWith(p, "idle", [Idle EXCEPT !.reply = s])

\* The call raises.
Raise(p) == GotoWith(p, "idle", Idle)

Release(p) == lock' = [o \in OpIds |-> IF lock[o] = p THEN Nobody ELSE lock[o]]

SetState(o, s) == ops' = [ops EXCEPT ![o].state = s]

OpsOf(r) == {o \in OpIds : ops[o].state # "none" /\ ops[o].key = r}
ActiveOps == {o \in OpIds : ops[o].state \in Active}

\* The call goes on with nothing but its arguments.
Call(p) == [Idle EXCEPT !.goal = loc[p].goal, !.key = loc[p].key]

\* An operation to finish: the call's own, or one that is in its way.  A
\* recovery looks at a blocked one again.
Finish(p, o, own, recovers) ==
    GotoWith(p, "lock", [Call(p) EXCEPT !.op = o, !.own = own, !.recovers = recovers])

\* The files are to be read and compared with a generation.
ReadFor(p, generation) == GotoWith(p, "read", [Call(p) EXCEPT !.want = generation])

NextOp == Cardinality({o \in OpIds : ops[o].state # "none"}) + 1

\* A writer starts only while the bound leaves it an operation to insert.
Room == NextOp + Cardinality({p \in Procs : loc[p].goal \in {"update", "promote"}})
            <= MaxOps

-----------------------------------------------------------------------------
(* Calls *)

\* read; or an update of the service: it reads, changes the snapshot, and
\* replaces it with the snapshot's version as the expected one.
Start(p, goal, key) ==
    /\ pc[p] = "idle"
    /\ \/ goal = "read" /\ key = Nobody
       \/ goal = "update" /\ key \in Keys /\ Room
    /\ GotoWith(p, "target", [Idle EXCEPT !.goal = goal, !.key = key])
    /\ UNCHANGED <<durable, lock, history>>

\* promote: the row must carry the token and must not have expired, whatever
\* its status is.
Promote(p, gen) ==
    /\ pc[p] = "idle"
    /\ row.gen = gen /\ row.status # "expired" /\ ~row.lapsed /\ Room
    /\ GotoWith(p, "command", [Idle EXCEPT !.goal = "promote", !.key = gen])
    /\ UNCHANGED <<durable, lock, history>>

\* prepare: the preview registers the promotion for approval.
Prepare ==
    /\ row.gen < MaxGens
    /\ row' = Armed(row, Nobody)
    /\ UNCHANGED <<files, head, ops, commands, lock, pc, loc, history>>

Lapse ==
    /\ row.status # "none" /\ ~row.lapsed
    /\ row' = Expired([row EXCEPT !.lapsed = TRUE])
    /\ UNCHANGED <<files, head, ops, commands, lock, pc, loc, history>>

\* _resume_command, for a generation that has one.
ResumeCommand(p) ==
    LET c == commands[loc[p].key] IN
    \/ c.state = "executing" /\ Finish(p, c.op, TRUE, TRUE)
    \/ c.state = "committed" /\ Return(p, ops[c.op].target)
    \/ c.state = "compensated" /\ Raise(p)

LookUpCommand(p) ==
    /\ pc[p] = "command"
    /\ IF commands[loc[p].key].state = "none" THEN Goto(p, "target")
       ELSE ResumeCommand(p)
    /\ UNCHANGED <<durable, lock, history>>

-----------------------------------------------------------------------------
(* Reading *)

\* Mutant of RecoverTarget: operations whose files are applied count as done.
RecoverPrepared(p) ==
    /\ pc[p] = "target"
    /\ \/ \E o \in ActiveOps : ops[o].state # "fs_applied" /\ Finish(p, o, FALSE, TRUE)
       \/ (\A o \in ActiveOps : ops[o].state = "fs_applied") /\ ReadFor(p, head)
    /\ UNCHANGED <<durable, lock, history>>

\* recover_target: the one active operation is finished first.
RecoverTarget(p) ==
    /\ pc[p] = "target"
    /\ IF ActiveOps # {} THEN \E o \in ActiveOps : Finish(p, o, FALSE, TRUE)
       ELSE ReadFor(p, head)
    /\ UNCHANGED <<durable, lock, history>>

\* The files are read one after the other.
ReadItem(p) ==
    LET f == Items[loc[p].item] IN
    /\ pc[p] = "read"
    /\ IF files[f] = Foreign[f] THEN Raise(p)
       ELSE GotoWith(p, IF loc[p].item < Len(Items) THEN "read" ELSE "compare",
                     [loc[p] EXCEPT !.seen[f] = files[f], !.item = @ + 1])
    /\ UNCHANGED <<durable, lock, history>>

\* bootstrap_head: its transaction reads the files again.
Bootstrap(p) ==
    /\ pc[p] = "compare" /\ loc[p].want = NoHead
    /\ IF files = loc[p].seen /\ head \in {NoHead, loc[p].seen}
       THEN /\ head' = loc[p].seen
            /\ ReadFor(p, loc[p].seen)
       ELSE Raise(p) /\ UNCHANGED head
    /\ UNCHANGED <<files, ops, commands, row, lock, history>>

\* The call goes on with its snapshot.
WithSnapshot(p, place) == GotoWith(p, place, [Call(p) EXCEPT !.seen = loc[p].seen])

\* A read returns its snapshot, and so does an update that changes nothing.
UseSnapshot(p) ==
    \/ loc[p].goal = "read" /\ Return(p, loc[p].seen)
    \/ /\ loc[p].goal = "update" /\ loc[p].key \in loc[p].seen.seeds
       /\ Return(p, loc[p].seen)
    \/ /\ loc[p].goal = "update" /\ loc[p].key \notin loc[p].seen.seeds
       /\ WithSnapshot(p, "replay")
    \/ loc[p].goal = "promote" /\ WithSnapshot(p, "digest")

\* Mutant of Compare: only the versions are compared.
CompareVersions(p) ==
    /\ pc[p] = "compare" /\ loc[p].want # NoHead
    /\ IF loc[p].seen.version = loc[p].want.version THEN UseSnapshot(p) ELSE Raise(p)
    /\ UNCHANGED <<durable, lock, history>>

\* _snapshot_for_head: files that differ from the head are not a snapshot.
Compare(p) ==
    /\ pc[p] = "compare" /\ loc[p].want # NoHead
    /\ IF loc[p].seen = loc[p].want THEN UseSnapshot(p) ELSE Raise(p)
    /\ UNCHANGED <<durable, lock, history>>

-----------------------------------------------------------------------------
(* Reserving *)

\* What the call wants to commit: its change on top of its snapshot.
Target(p) ==
    [seeds   |-> loc[p].seen.seeds \cup {Adds(loc[p].key)},
     version |-> loc[p].seen.version + 1]

\* get_replacement_replay: a key that was used before must be used for the
\* same contents and version; its operation is finished or reported.
Replay(p) ==
    /\ pc[p] = "replay"
    /\ IF OpsOf(loc[p].key) = {}
       THEN WithSnapshot(p, "digest")
       ELSE \E o \in OpsOf(loc[p].key) :
               IF ops[o].target # Target(p) \/ ops[o].state = "aborted" THEN Raise(p)
               ELSE IF ops[o].state = "done" THEN Return(p, ops[o].target)
               ELSE Finish(p, o, TRUE, TRUE)
    /\ UNCHANGED <<durable, lock, history>>

\* prepare_replace digests the files before the transaction.
DigestItem(p) ==
    LET f == Items[loc[p].item] IN
    /\ pc[p] = "digest"
    /\ IF files[f] = Foreign[f] THEN Raise(p)
       ELSE GotoWith(p, IF loc[p].item < Len(Items) THEN "digest" ELSE "reserve",
                     [loc[p] EXCEPT !.base[f] = files[f], !.item = @ + 1])
    /\ UNCHANGED <<durable, lock, history>>

\* Mutant of CanReserve: the digest is compared, the version is not.
CanReserveByDigest(p) == ActiveOps = {} /\ head # NoHead /\ head = loc[p].base

\* The conditions of reserve_prepared_in_transaction.
CanReserve(p) ==
    /\ ActiveOps = {}
    /\ head # NoHead /\ head.version = loc[p].seen.version
    /\ head = loc[p].base

Insert(p) ==
    ops' = [ops EXCEPT ![NextOp] = [state |-> "prepared", key |-> loc[p].key,
                                    base |-> loc[p].base, target |-> Target(p)]]

\* reserve_replace of an update.  A key that was taken since the look-up is a
\* replay; if its contents differ, the look-up is repeated.
Reserve(p) ==
    /\ pc[p] = "reserve" /\ loc[p].goal = "update" /\ NextOp \in OpIds
    /\ \/ /\ OpsOf(loc[p].key) # {}
          /\ \E o \in OpsOf(loc[p].key) :
                IF ops[o].target = Target(p)
                THEN Finish(p, o, TRUE, FALSE)
                ELSE WithSnapshot(p, "replay")
          /\ UNCHANGED ops
       \/ /\ OpsOf(loc[p].key) = {} /\ ~CanReserve(p)
          /\ Raise(p) /\ UNCHANGED ops
       \/ /\ OpsOf(loc[p].key) = {} /\ CanReserve(p)
          /\ Insert(p)
          /\ Finish(p, NextOp, TRUE, FALSE)
    /\ UNCHANGED <<files, head, commands, row, lock, history>>

\* execute_approved_answer: one transaction reserves the operation, inserts
\* the command and moves the approval to executing.
ReserveCommand(p) ==
    LET g == loc[p].key IN
    /\ pc[p] = "reserve" /\ loc[p].goal = "promote" /\ NextOp \in OpIds
    /\ \/ /\ commands[g].state # "none"
          /\ ResumeCommand(p) /\ UNCHANGED <<ops, commands, row>>
       \/ /\ commands[g].state = "none" /\ ~(Open(row, g) /\ CanReserve(p))
          /\ Raise(p) /\ UNCHANGED <<ops, commands, row>>
       \/ /\ commands[g].state = "none" /\ Open(row, g) /\ CanReserve(p)
          /\ Insert(p)
          /\ commands' = [commands EXCEPT ![g] = [state |-> "executing", op |-> NextOp]]
          /\ row' = [row EXCEPT !.status = "executing", !.key = NextOp]
          /\ Finish(p, NextOp, TRUE, TRUE)
    /\ UNCHANGED <<files, head, lock, history>>

-----------------------------------------------------------------------------
(* Applying and finalizing, under the operation's lock *)

\* The call has its operation's generation: an own operation ends the call, or
\* binds its command; a helped one is followed by the reading of the files.
After(p, generation) ==
    \/ ~loc[p].own /\ ReadFor(p, generation)
    \/ loc[p].own /\ loc[p].goal = "update" /\ Return(p, generation)
    \/ loc[p].own /\ loc[p].goal = "promote" /\ Goto(p, "bind")

Unknown(o) == \E f \in {"seeds", "version"} :
                  files[f] \notin {ops[o].base[f], ops[o].target[f]}

\* Mutant of EnterOp: the operation is loaded without its lock.
EnterUnlocked(p) ==
    LET o == loc[p].op IN
    /\ pc[p] = "lock"
    /\ \/ ops[o].state = "done" /\ After(p, ops[o].target)
       \/ ops[o].state \in {"aborted", "blocked"} /\ Raise(p)
       \/ ops[o].state \in {"prepared", "fs_applied"} /\ Goto(p, "check")
    /\ UNCHANGED <<durable, lock, history>>

\* The lock is taken and the operation loaded.  Only a recovery looks at a
\* blocked one again, and puts it back to prepared once no file is unknown.
EnterOp(p) ==
    LET o == loc[p].op
        work == /\ lock' = [lock EXCEPT ![o] = p]
                /\ Goto(p, "check")
    IN
    /\ pc[p] = "lock" /\ lock[o] = Nobody
    /\ \/ ops[o].state = "done" /\ After(p, ops[o].target) /\ UNCHANGED <<ops, lock>>
       \/ ops[o].state = "aborted" /\ Raise(p) /\ UNCHANGED <<ops, lock>>
       \/ /\ ops[o].state = "blocked" /\ (~loc[p].recovers \/ Unknown(o))
          /\ Raise(p) /\ UNCHANGED <<ops, lock>>
       \/ /\ ops[o].state = "blocked" /\ loc[p].recovers /\ ~Unknown(o)
          /\ SetState(o, "prepared") /\ work
       \/ ops[o].state \in {"prepared", "fs_applied"} /\ work /\ UNCHANGED ops
    /\ UNCHANGED <<files, head, commands, row, history>>

\* _mark_blocked leaves an operation that ended as it is; then the error.
Block(p) ==
    LET o == loc[p].op IN
    /\ SetState(o, IF ops[o].state \in {"done", "aborted"} THEN ops[o].state ELSE "blocked")
    /\ Raise(p) /\ Release(p)

NextItem(p) ==
    GotoWith(p, IF loc[p].item < Len(Items) THEN "check" ELSE "mark",
             [loc[p] EXCEPT !.item = @ + 1])

\* Mutant of CheckItem: contents that are not the target's are replaced.
CheckForTarget(p) ==
    LET o == loc[p].op
        f == Items[loc[p].item] IN
    /\ pc[p] = "check"
    /\ IF files[f] = ops[o].target[f] THEN NextItem(p) ELSE Goto(p, "replace")
    /\ UNCHANGED <<durable, lock, history>>

\* apply_replace: a file at its target is done, one that is not at its base
\* either blocks the operation.
CheckItem(p) ==
    LET o == loc[p].op
        f == Items[loc[p].item] IN
    /\ pc[p] = "check"
    /\ \/ files[f] = ops[o].target[f] /\ NextItem(p) /\ UNCHANGED <<ops, lock>>
       \/ files[f] \notin {ops[o].base[f], ops[o].target[f]} /\ Block(p)
       \/ /\ files[f] = ops[o].base[f] /\ files[f] # ops[o].target[f]
          /\ Goto(p, "replace") /\ UNCHANGED <<ops, lock>>
    /\ UNCHANGED <<files, head, commands, row, history>>

\* The staged payload replaces the file.
ReplaceItem(p) ==
    LET f == Items[loc[p].item] IN
    /\ pc[p] = "replace"
    /\ files' = [files EXCEPT ![f] = ops[loc[p].op].target[f]]
    /\ NextItem(p)
    /\ UNCHANGED <<head, ops, commands, row, lock, history>>

\* The operation may have been aborted meanwhile.
MarkApplied(p) ==
    LET o == loc[p].op IN
    /\ pc[p] = "mark"
    /\ IF ops[o].state \in {"prepared", "fs_applied"}
       THEN SetState(o, "fs_applied") /\ Goto(p, "verify") /\ UNCHANGED lock
       ELSE Raise(p) /\ Release(p) /\ UNCHANGED ops
    /\ UNCHANGED <<files, head, commands, row, history>>

\* finalize_replace verifies the files; the first that is not at its target
\* decides between an error and a blocked operation.
Verify(p) ==
    LET o == loc[p].op
        bad == {i \in 1 .. Len(Items) : files[Items[i]] # ops[o].target[Items[i]]}
        first == Items[CHOOSE i \in bad : \A j \in bad : i <= j] IN
    /\ pc[p] = "verify"
    /\ \/ bad = {} /\ Goto(p, "commit") /\ UNCHANGED <<ops, lock>>
       \/ /\ bad # {} /\ files[first] = ops[o].base[first]
          /\ Raise(p) /\ Release(p) /\ UNCHANGED ops
       \/ bad # {} /\ files[first] # ops[o].base[first] /\ Block(p)
    /\ UNCHANGED <<files, head, commands, row, history>>

\* The second transaction moves the head from the base to the target.
Finalize(p) ==
    LET o == loc[p].op IN
    /\ pc[p] = "commit"
    /\ IF head = ops[o].base /\ ops[o].state = "fs_applied"
       THEN /\ head' = ops[o].target
            /\ SetState(o, "done")
            /\ After(p, ops[o].target)
       ELSE Raise(p) /\ UNCHANGED <<head, ops>>
    /\ Release(p)
    /\ UNCHANGED <<files, commands, row, history>>

\* _finish_command records the response and consumes the approval, if the row
\* still is the one that the command moved to executing.
BindCommand(p) ==
    LET g == loc[p].key
        o == loc[p].op IN
    /\ pc[p] = "bind"
    /\ IF commands[g].state \in {"executing", "committed"}
       THEN /\ commands' = [commands EXCEPT ![g].state = "committed"]
            /\ row' = IF row.gen = g /\ row.status = "executing" /\ row.key = o
                      THEN [row EXCEPT !.status = "consumed"] ELSE row
            /\ Return(p, ops[o].target)
       ELSE Raise(p) /\ UNCHANGED <<commands, row>>
    /\ UNCHANGED <<files, head, ops, lock, history>>

-----------------------------------------------------------------------------
(* Compensation *)

\* replacement_is_reversible looks at the operation and the files; it takes
\* neither the lock nor a transaction.
CheckReversible(p, gen) ==
    LET o == commands[gen].op IN
    /\ pc[p] = "idle" /\ commands[gen].state # "none"
    /\ ops[o].state = "prepared"
    /\ \A f \in {"seeds", "version"} :
          ops[o].base[f] = ops[o].target[f] \/ files[f] = ops[o].base[f]
    /\ GotoWith(p, "compensate", [Idle EXCEPT !.key = gen, !.op = o])
    /\ UNCHANGED <<durable, lock, history>>

\* Mutant of Compensate: the approval is left as it is.
CompensateOperation(p) ==
    LET g == loc[p].key
        o == loc[p].op IN
    /\ pc[p] = "compensate" /\ ops[o].state = "prepared" /\ commands[g].state = "executing"
    /\ SetState(o, "aborted")
    /\ commands' = [commands EXCEPT ![g].state = "compensated"]
    /\ Raise(p)
    /\ UNCHANGED <<files, head, row, lock, history>>

\* compensate_approved_answer aborts the operation and re-arms the approval.
Compensate(p) ==
    LET g == loc[p].key
        o == loc[p].op IN
    /\ pc[p] = "compensate"
    /\ IF ops[o].state = "prepared" /\ commands[g].state = "executing"
       THEN /\ SetState(o, "aborted")
            /\ commands' = [commands EXCEPT ![g].state = "compensated"]
            /\ row' = IF row.gen = g /\ row.status = "executing" /\ row.key = o
                      THEN [row EXCEPT !.status = "pending", !.key = Nobody] ELSE row
            /\ raced' = (raced \/ lock[o] # Nobody \/ files # ops[o].base)
       ELSE UNCHANGED <<ops, commands, row, raced>>
    /\ Raise(p)
    /\ UNCHANGED <<files, head, lock, edited, rushed, crashes, edits>>

-----------------------------------------------------------------------------
(* The surroundings *)

\* Somebody else edits a file, or puts the committed contents back while no
\* process works on it.
Edit(f) ==
    /\ edits < MaxEdits /\ files[f] # Foreign[f]
    /\ files' = [files EXCEPT ![f] = Foreign[f]]
    /\ edited' = edited \cup {f} /\ edits' = edits + 1
    /\ rushed' = (rushed \/ \E p \in Procs :
                               pc[p] = "replace" /\ Items[loc[p].item] = f)
    /\ UNCHANGED <<head, ops, commands, row, lock, pc, loc, raced, crashes>>

Undo(f) ==
    /\ files[f] = Foreign[f] /\ head # NoHead /\ \A o \in OpIds : lock[o] = Nobody
    /\ files' = [files EXCEPT ![f] = head[f]]
    /\ edited' = edited \ {f}
    /\ UNCHANGED <<head, ops, commands, row, lock, pc, loc, rushed, raced, crashes,
                   edits>>

\* A process dies; its locks go with it.
Crash(p) ==
    /\ crashes < MaxCrashes /\ pc[p] # "idle"
    /\ crashes' = crashes + 1
    /\ Raise(p) /\ Release(p)
    /\ UNCHANGED <<durable, edited, rushed, raced, edits>>

Work(p) ==
    \/ LookUpCommand(p) \/ RecoverTarget(p) \/ ReadItem(p) \/ Bootstrap(p)
    \/ Compare(p) \/ Replay(p) \/ DigestItem(p) \/ Reserve(p)
    \/ ReserveCommand(p) \/ EnterOp(p) \/ CheckItem(p) \/ ReplaceItem(p)
    \/ MarkApplied(p) \/ Verify(p) \/ Finalize(p) \/ BindCommand(p)
    \/ Compensate(p)

Next ==
    \/ \E p \in Procs :
          \/ Start(p, "read", Nobody) \/ \E k \in Keys : Start(p, "update", k)
          \/ \E gen \in Gens : Promote(p, gen) \/ CheckReversible(p, gen)
          \/ Work(p) \/ Crash(p)
    \/ Prepare \/ Lapse
    \/ \E f \in {"seeds", "version"} : Edit(f) \/ Undo(f)

Spec == Init /\ [][Next]_vars

\* A thread or process that is alive runs.
LiveSpec == Spec /\ \A p \in Procs : WF_vars(Work(p))

-----------------------------------------------------------------------------
(* Properties *)

Places == {"idle", "command", "target", "read", "compare", "replay", "digest",
           "reserve", "lock", "check", "replace", "mark", "verify", "commit",
           "bind", "compensate"}

Operations == [state : Active \cup {"none", "done", "aborted"},
               key : Requests \cup {Nobody}, base : Contents, target : Contents]
Locals == [goal : {"none", "read", "update", "promote"},
           key : Requests \cup {Nobody}, seen : Contents,
           want : Contents \cup {NoHead}, base : Contents,
           op : OpIds \cup {Nobody}, own : BOOLEAN, recovers : BOOLEAN,
           item : 1 .. Len(Items) + 1, reply : Contents \cup {NoHead}]

\* Every variable has its type: the one type invariant of the module.
TypeOK ==
    /\ files \in [seeds : SeedSets \cup {Foreign.seeds},
                 version : Nat \cup {Foreign.version}]
    /\ head \in Contents \cup {NoHead}
    /\ ops \in [OpIds -> Operations]
    /\ commands \in [Gens -> [state : {"none", "executing", "committed", "compensated"},
                              op : OpIds \cup {Nobody}]]
    /\ row \in Rows({}, OpIds)
    /\ lock \in [OpIds -> Procs \cup {Nobody}]
    /\ pc \in [Procs -> Places]
    /\ loc \in [Procs -> Locals]
    /\ edited \subseteq {"seeds", "version"}
    /\ {rushed, raced} \subseteq BOOLEAN
    /\ crashes \in Nat /\ edits \in Nat

\* The store is one versioned register to its writers: no update is lost, no
\* request takes effect twice, no generation is committed in part.
Register == INSTANCE SeedRegister WITH
    version <- IF head = NoHead THEN 0 ELSE head.version,
    seeds   <- IF head = NoHead THEN {} ELSE head.seeds,
    applied <- {ops[o].key : o \in {q \in OpIds : ops[q].state = "done"}}

UpdatesAreAtomic == Register!Spec

\* A call returns a generation that was committed, whole, whatever happened to
\* the files while it read them.
Committed == {ops[o].target : o \in {q \in OpIds : ops[q].state = "done"}}
                \cup {Unread}

RepliesAreCommitted ==
    \A p \in Procs : loc[p].reply # NoHead => loc[p].reply \in Committed

\* Files that nobody else has touched are at the head's contents when no
\* operation is open, and otherwise at the base or the target of the open
\* one; except after a compensation that raced with the work it undoes.
FilesFollowHead ==
    head # NoHead /\ ~raced =>
        \A f \in {"seeds", "version"} \ edited :
            files[f] \in {head[f]} \cup {ops[o].target[f] : o \in ActiveOps}

\* An edit by somebody else is never overwritten, except in the moment between
\* an item's check and its replacement.
EditsSurvive == ~rushed => \A f \in edited : files[f] = Foreign[f]

\* An approval that is consumed has its answer committed; one that is
\* executing is bound to an operation that is not given up.
ApprovalFollowsCommand ==
    /\ row.status = "consumed" =>
          commands[row.gen].state = "committed" /\ ops[row.key].state = "done"
    /\ row.status = "executing" =>
          commands[row.gen].state \in {"executing", "committed"}
          /\ ops[row.key].state # "aborted"

\* As long as somebody reads, an operation is not left open for ever, unless
\* an edit, or files that such a compensation has left behind, block it.
OpenOpsEnd ==
    []~raced /\ (\A p \in Procs : WF_vars(Start(p, "read", Nobody))) =>
        \A o \in OpIds :
            ops[o].state \in Active ~> (ops[o].state \in {"done", "aborted"} \/ edited # {})
=============================================================================
