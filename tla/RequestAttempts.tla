--------------------------- MODULE RequestAttempts ---------------------------
(***************************************************************************)
(* The journal of dispatches kept by storage/request_attempts.py: table    *)
(* chat_request_attempts, one row per HTTP dispatch of a turn, carrying a  *)
(* copy ("snapshot") of the turn's outcome columns.  This module has no    *)
(* state: its operators take the table and the turns, and ChatLedger       *)
(* applies them inside the transactions that call them.                    *)
(*                                                                         *)
(* The table is a function from the AUTOINCREMENT column "sequence" to     *)
(* rows; a deleted row leaves the domain.                                  *)
(***************************************************************************)
EXTENDS Integers, FiniteSets

\* An empty chat_request_attempts table.
EmptyJournal == [s \in {} |-> {}]

\* The columns of a turn that an attempt copies.
Snapshot(turn) ==
  [status |-> turn.status, accounting |-> turn.accounting,
   total |-> turn.total, cost |-> turn.cost]

\* The row INSERTed for turn t: known is 1 for a dispatch recorded by the
\* program, 0 for one reconstructed from a turn of an older database.
AttemptRow(t, turn, known) ==
  [turn |-> t, chat |-> turn.chat, known |-> known, snapshot |-> Snapshot(turn)]

\* sequence s holds MAX(sequence) among the rows of turn t.
IsLatest(journal, s, t) ==
  /\ s \in DOMAIN journal
  /\ journal[s].turn = t
  /\ \A r \in DOMAIN journal : journal[r].turn = t => r <= s

\* sequence s holds MAX(sequence) among the rows of chat c.
IsLatestOfChat(journal, s, c) ==
  /\ s \in DOMAIN journal
  /\ journal[s].chat = c
  /\ \A r \in DOMAIN journal : journal[r].chat = c => r <= s

\* The turns ensure_request_attempts copies into a table it has just created.
Dispatched(turns) == {t \in DOMAIN turns : turns[t].sent}

\* The possible rowid orders of those turns (the order itself is not modelled).
BackfillOrders(turns) ==
  LET old == Dispatched(turns)
  IN  {order \in [1 .. Cardinality(old) -> old] :
         \A i, j \in DOMAIN order : order[i] = order[j] => i = j}

Backfill(turns, order) ==
  [i \in DOMAIN order |-> AttemptRow(order[i], turns[order[i]], FALSE)]

\* record_request_attempt: INSERT ... SELECT ... WHERE id = t AND request_sent = 1.
Record(journal, s, turns, t) ==
  IF turns[t].sent
    THEN [r \in DOMAIN journal \cup {s} |->
            IF r = s THEN AttemptRow(t, turns[t], TRUE) ELSE journal[r]]
    ELSE journal

\* synchronize_request_attempt: only the latest row of a turn, and only while
\* the turn's current attempt has been dispatched.
Synchronize(journal, turns, t) ==
  [s \in DOMAIN journal |->
     IF turns[t].sent /\ IsLatest(journal, s, t)
       THEN [journal[s] EXCEPT !.snapshot = Snapshot(turns[t])]
       ELSE journal[s]]

\* Mutant: the journal is not recovered with the turns.
RecoverMutant(journal, turns) == journal

\* recover_request_attempts: synchronise every turn that is no longer pending
\* but still owns a pending attempt.
Recover(journal, turns) ==
  LET Stale(t) ==
        /\ turns[t].status # "pending"
        /\ turns[t].sent
        /\ \E r \in DOMAIN journal :
             journal[r].turn = t /\ journal[r].snapshot.status = "pending"
  IN  [s \in DOMAIN journal |->
         IF Stale(journal[s].turn) /\ IsLatest(journal, s, journal[s].turn)
           THEN [journal[s] EXCEPT !.snapshot = Snapshot(turns[journal[s].turn])]
           ELSE journal[s]]

\* Mutant: every attempt of the turn is deleted.
DeleteAttemptMutant(journal, s) ==
  [r \in {q \in DOMAIN journal : journal[q].turn # journal[s].turn} |-> journal[r]]

\* DELETE FROM chat_request_attempts WHERE sequence = s.
DeleteAttempt(journal, s) == [r \in DOMAIN journal \ {s} |-> journal[r]]

\* Mutant: the journal has no foreign key to chats.
DeleteAttemptsOfMutant(journal, c) == journal

\* ON DELETE CASCADE from chats (and from the turns of that chat).
DeleteAttemptsOf(journal, c) ==
  [s \in {r \in DOMAIN journal : journal[r].chat # c} |-> journal[s]]

\* _last_request_from_row.
LastRequestState(row) ==
  CASE ~row.known                                              -> "unknown"
    [] row.known /\ row.snapshot.status = "pending"            -> "pending"
    [] row.known /\ row.snapshot.status # "pending"
                 /\ row.snapshot.accounting = "final"          -> "final"
    [] OTHER                                                   -> "unknown"
=============================================================================
