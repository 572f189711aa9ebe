--------------------------- MODULE PendingActions ---------------------------
(***************************************************************************)
(* One row of the pending_actions table, the server side of an approval:   *)
(* what the user was shown (gen, a one-time token), who showed it (by),    *)
(* whether it is still open, and what consumed it (key).  The operators    *)
(* are the single-statement transactions of ArtifactStore; a module that   *)
(* uses approvals holds a row in a variable and applies them.  Integrity   *)
(* of the stored payload (kind, payload_digest) is taken for granted.      *)
(***************************************************************************)
EXTENDS Integers

CONSTANTS Nobody        \* no consumer, no author

Statuses == {"none", "pending", "executing", "consumed", "expired"}

Rows(Authors, Keys) ==
    [status : Statuses, gen : Nat, by : Authors \cup {Nobody},
     key : Keys \cup {Nobody}, lapsed : BOOLEAN]

NoRow == [status |-> "none", gen |-> 0, by |-> Nobody, key |-> Nobody,
          lapsed |-> FALSE]

\* create_pending_action: a fresh preview re-arms the row, whatever it was.
Armed(row, author) ==
    [status |-> "pending", gen |-> row.gen + 1, by |-> author,
     key |-> Nobody, lapsed |-> FALSE]

\* The condition of the conditional update in consume_pending_action.
Open(row, gen) == row.status = "pending" /\ row.gen = gen /\ ~row.lapsed

Consumed(row, key) == [row EXCEPT !.status = "consumed", !.key = key]

\* restore_pending_action looks neither at the generation nor at the key.
Restored(row) ==
    IF row.status = "consumed"
    THEN [row EXCEPT !.status = "pending", !.key = Nobody]
    ELSE row

\* expire_pending_action.
Expired(row) ==
    IF row.status = "pending" /\ row.lapsed
    THEN [row EXCEPT !.status = "expired"]
    ELSE row
=============================================================================
