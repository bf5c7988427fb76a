---------------------------- MODULE GatewayBuffer ----------------------------
(***************************************************************************)
(* The gateway's SQLite buffer (gateway/app/db.py) as a value and the      *)
(* statements that change it.  A table is the sequence of its rows in id   *)
(* order; a row's id is its index.  Each statement commits by itself.      *)
(*                                                                         *)
(* next_retry_at is kept as the time still to wait (Elapse counts it down) *)
(* and retry_count saturates at RetryCap, above which the sender's         *)
(* behaviour no longer depends on it.                                      *)
(***************************************************************************)
EXTENDS Integers, Sequences, FiniteSets

CONSTANTS
    BufferedReadings,   \* what the adapters can produce (one per reading_hash)
    LongestWait,        \* bound on next_retry_at - now
    RetryCap            \* retry_count saturates here

ASSUME BufferAssumption ==
    /\ IsFiniteSet(BufferedReadings)
    /\ LongestWait \in Nat \ {0}
    /\ RetryCap \in Nat \ {0}

\* last_error: none, some retry message, client_error_4xx, permanent_upload_error.
Errors == {"none", "retry", "client", "permanent"}
Row == [reading: BufferedReadings, sent: BOOLEAN, failed: BOOLEAN,
        retry_count: 0..RetryCap, wait: 0..LongestWait, last_error: Errors]

Ids(table) == DOMAIN table
Buffered(table) == {table[i].reading : i \in Ids(table)}
Pending(row) == ~row.sent /\ ~row.failed

NewRow(r) == [reading |-> r, sent |-> FALSE, failed |-> FALSE,
              retry_count |-> 0, wait |-> 0, last_error |-> "none"]

\* The orders in which the readings of S can be inserted.
Arrangements(S) ==
    {q \in [1..Cardinality(S) -> S] :
        \A i, j \in 1..Cardinality(S) : q[i] = q[j] => i = j}

\* INSERT OR IGNORE of readings none of which the table holds, in the order q.
InsertReadings(table, q) ==
    [i \in 1..(Len(table) + Len(q)) |->
        IF i <= Len(table) THEN table[i] ELSE NewRow(q[i - Len(table)])]

\* Variants of the next definition: the statement without "sent = 0", and with a limit
\* on retry_count.
FetchUnfailed(table, limit) ==
    LET ready == {i \in Ids(table) : ~table[i].failed /\ table[i].wait = 0}
    IN  {i \in ready : Cardinality({j \in ready : j <= i}) <= limit}
FetchBelowLimit(table, limit) ==
    LET ready == {i \in Ids(table) : /\ Pending(table[i]) /\ table[i].wait = 0
                                     /\ table[i].retry_count < RetryCap}
    IN  {i \in ready : Cardinality({j \in ready : j <= i}) <= limit}

\* The limit ready rows with the smallest ids.
FetchReadyBatch(table, limit) ==
    LET ready == {i \in Ids(table) : Pending(table[i]) /\ table[i].wait = 0}
    IN  {i \in ready : Cardinality({j \in ready : j <= i}) <= limit}

MarkSent(table, ids) ==
    [i \in Ids(table) |-> IF i \in ids
        THEN [table[i] EXCEPT !.sent = TRUE, !.last_error = "none"]
        ELSE table[i]]

ScheduleRetry(table, ids, backoff) ==
    [i \in Ids(table) |-> IF i \in ids
        THEN [table[i] EXCEPT
                !.retry_count = IF @ < RetryCap THEN @ + 1 ELSE RetryCap,
                !.wait = IF backoff < 1 THEN 1 ELSE backoff,
                !.last_error = "retry"]
        ELSE table[i]]

MarkFailed(table, ids, error) ==
    [i \in Ids(table) |-> IF i \in ids
        THEN [table[i] EXCEPT !.failed = TRUE, !.last_error = error]
        ELSE table[i]]

\* A tick of the clock brings every next_retry_at one tick nearer.
Elapse(table) ==
    [i \in Ids(table) |->
        [table[i] EXCEPT !.wait = IF @ > 0 THEN @ - 1 ELSE 0]]
=============================================================================
