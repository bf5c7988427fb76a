------------------------------- MODULE Delivery -------------------------------
(***************************************************************************)
(* Store and forward, end to end: one gateway process (scheduler.py,       *)
(* sender.py) over its SQLite buffer (GatewayBuffer), posting batches to   *)
(* the ingestion endpoint (Ingestion).                                     *)
(*                                                                         *)
(* The gateway is one thread: poll, upload, poll, ...  An upload is the    *)
(* POST, the wait for the reply, and up to three separate commits.  The    *)
(* gateway can die between any two of these; the buffer survives.  A POST  *)
(* the sender has given up on can still be served, next to its retry.      *)
(***************************************************************************)
EXTENDS Ingestion, GatewayBuffer, Backoff

CONSTANTS
    Configs,        \* the [token, serial] an operator may put in config.yaml
    GoodConfig,     \* ... and the right one
    BatchSize,      \* batch_size
    MaxRetries,     \* max_retries
    Unserializable, \* readings whose value is infinite: no JSON for them
    NoSlot

ASSUME DeliveryAssumption ==
    /\ BufferedReadings = Readings
    /\ LongestWait = MaxBackoff
    /\ RetryCap >= MaxRetries
    /\ BatchSize \in Nat \ {0} /\ MaxRetries \in Nat
    /\ Configs \subseteq [token: Tokens, serial: Serials]
    /\ GoodConfig \in Configs
    /\ Unserializable \subseteq Readings
    /\ NoSlot \notin Slots

VARIABLES
    rows,       \* the table buffered_readings
    pc,         \* where the gateway thread is
    conn,       \* the slot of the POST in progress
    batch,      \* ids fetched for this upload
    verdict,    \* [sent, retry, failed]: ids still to commit after a reply
    config      \* the credentials in config.yaml

gatewayVars == <<rows, pc, conn, batch, verdict, config>>
vars == <<ingestionVars, gatewayVars>>

NoVerdict == [sent |-> {}, retry |-> {}, failed |-> {}]
ReadingsOf(ids) == {rows[i].reading : i \in ids}

\* _poll_adapters: the adapters return some readings; those whose reading_hash
\* is in the table already are ignored.
Poll ==
    /\ pc = "idle"
    /\ \E S \in SUBSET Readings : \E q \in Arrangements(S \ Buffered(rows)) :
         rows' = InsertReadings(rows, q)
    /\ UNCHANGED <<ingestionVars, pc, conn, batch, verdict, config>>

\* schedule_retry of ids, backed off by the highest retry_count among them.
Backlog(ids, table) ==
    \E i \in ids :
        /\ \A j \in ids : rows[j].retry_count <= rows[i].retry_count
        /\ \E delay \in BackoffSeconds(rows[i].retry_count) :
             table = ScheduleRetry(rows, ids, delay)

\* upload_once up to requests.post.  A batch with an infinite value has no JSON
\* body: requests raises before it sends anything, and the batch is retried.
Upload ==
    LET ready == FetchReadyBatch(rows, BatchSize) IN
    /\ pc = "idle"
    /\ ready # {}
    /\ IF ReadingsOf(ready) \cap Unserializable # {}
       THEN /\ Backlog(ready, rows')
            /\ UNCHANGED <<exchange, pc, conn, batch>>
       ELSE /\ \E s \in Slots :
                 /\ Arrive(s, config.token, config.serial, ReadingsOf(ready))
                 /\ conn' = s
            /\ pc' = "posted"
            /\ batch' = ready
            /\ UNCHANGED rows
    /\ UNCHANGED <<now, serverVars, verdict, config>>

\* The end of an upload without a reply to apply.
Finish == pc' = "idle" /\ conn' = NoSlot /\ batch' = {}

\* Variant of the next action: max_retries applied to network errors too.
NetworkErrorLimited ==
    /\ pc = "posted"
    /\ IF \E i \in batch : rows[i].retry_count >= MaxRetries
       THEN rows' = MarkFailed(rows, batch, "permanent")
       ELSE Backlog(batch, rows')
    /\ Finish
    /\ UNCHANGED <<ingestionVars, verdict, config>>

\* RequestException: the exchange is gone, or (Timeout) the sender stops waiting
\* for it, and the handler, if there is one, goes on.
NetworkError ==
    /\ pc = "posted"
    /\ Backlog(batch, rows')
    /\ Finish
    /\ UNCHANGED <<ingestionVars, verdict, config>>

\* The reply says nothing about single readings: retry or fail the whole batch.
ReplyForAll ==
    /\ pc = "posted"
    /\ exchange[conn].pc = "done"
    /\ LET code == exchange[conn].code IN
         \/ /\ code >= 500 \/ code \in {408, 429}
            /\ Backlog(batch, rows')
         \/ /\ code \in 400..499 \ {408, 429}
            /\ rows' = MarkFailed(rows, batch, "client")
    /\ Release(conn)
    /\ Finish
    /\ UNCHANGED <<now, serverVars, verdict, config>>

\* Where a row stands in the batch, counted from 0.  The payload lists the readings
\* of the batch in the order of its rows, and the handler numbers them so (forEach).
Index(i) == Cardinality({j \in batch : j < i})

\* The "index" of the entries that the readings in S have in the reply's errors.
ErrorIndexes(S) == {Index(i) : i \in {j \in batch : rows[j].reading \in S}}

\* Variants of the next definition: the indexes of the reply counted from 1; only the
\* errors that name an unknown meter read.
VerdictFromOne(x) ==
    LET failed == {i \in batch : Index(i) + 1 \in ErrorIndexes(Rejected(x))}
    IN  [NoVerdict EXCEPT !.sent = batch \ failed, !.failed = failed]
VerdictOnUnknown(x) ==
    LET failed == {i \in batch : rows[i].reading \in x.unknown}
    IN  [NoVerdict EXCEPT !.sent = batch \ failed, !.failed = failed]

\* Sort the rows of a batch by the errors of a 200 reply, which name them by index;
\* the message of an unknown meter is a permanent one.
Verdict(x) ==
    LET sent == {i \in batch : Index(i) \notin ErrorIndexes(Rejected(x))}
        failed == {i \in batch \ sent : \/ Index(i) \in ErrorIndexes(x.unknown)
                                        \/ rows[i].retry_count >= MaxRetries}
    IN  [sent |-> sent, failed |-> failed, retry |-> batch \ (sent \cup failed)]

ReplyPerReading ==
    /\ pc = "posted"
    /\ exchange[conn].pc = "done" /\ exchange[conn].code = 200
    /\ verdict' = Verdict(exchange[conn])
    /\ Release(conn)
    /\ pc' = "commit" /\ conn' = NoSlot /\ batch' = {}
    /\ UNCHANGED <<now, serverVars, rows, config>>

\* The commits that follow, in the order of the code, each a transaction.
CommitSent ==
    /\ pc = "commit"
    /\ verdict.sent # {}
    /\ rows' = MarkSent(rows, verdict.sent)
    /\ verdict' = [verdict EXCEPT !.sent = {}]
    /\ UNCHANGED <<ingestionVars, pc, conn, batch, config>>

CommitRetry ==
    /\ pc = "commit"
    /\ verdict.sent = {} /\ verdict.retry # {}
    /\ Backlog(verdict.retry, rows')
    /\ verdict' = [verdict EXCEPT !.retry = {}]
    /\ UNCHANGED <<ingestionVars, pc, conn, batch, config>>

CommitFailed ==
    /\ pc = "commit"
    /\ verdict.sent = {} /\ verdict.retry = {} /\ verdict.failed # {}
    /\ rows' = MarkFailed(rows, verdict.failed, "permanent")
    /\ verdict' = NoVerdict
    /\ UNCHANGED <<ingestionVars, pc, conn, batch, config>>

UploadDone ==
    /\ pc = "commit"
    /\ verdict = NoVerdict
    /\ pc' = "idle"
    /\ UNCHANGED <<ingestionVars, rows, conn, batch, verdict, config>>

\* The gateway dies (a signal, power, an exception that main.py does not
\* survive); docker restarts it, perhaps with an edited config.yaml.
Crash ==
    /\ pc # "down"
    /\ pc' = "down" /\ conn' = NoSlot /\ batch' = {} /\ verdict' = NoVerdict
    /\ UNCHANGED <<ingestionVars, rows, config>>

Restart ==
    /\ pc = "down"
    /\ pc' = "idle"
    /\ config' \in Configs
    /\ UNCHANGED <<ingestionVars, rows, conn, batch, verdict>>

\* One step of the API server for the exchange in slot s.
Serve(s) == Handle(s) /\ UNCHANGED gatewayVars

\* ... that fails, or disappears with its process or the connection.
Break(s) == (Fail(s) \/ Vanish(s)) /\ UNCHANGED gatewayVars

\* A reply nobody waits for.
Forget(s) ==
    /\ s # conn
    /\ Release(s)
    /\ UNCHANGED <<now, serverVars, gatewayVars>>

Clock ==
    /\ IF now < Horizon THEN Tick ELSE UNCHANGED ingestionVars
    /\ rows' = Elapse(rows)
    /\ <<now, rows>>' # <<now, rows>>
    /\ UNCHANGED <<pc, conn, batch, verdict, config>>

NewMeter ==
    /\ \E m \in MeterIds : CreateMeter(m)
    /\ UNCHANGED gatewayVars

\* An operator asks for raw events to be processed again.
RequestReprocess == Reprocess /\ UNCHANGED gatewayVars

Init ==
    /\ IngestionInit
    /\ rows = <<>>
    /\ pc = "idle" /\ conn = NoSlot /\ batch = {} /\ verdict = NoVerdict
    /\ config \in Configs

Gateway ==
    \/ Upload \/ NetworkError \/ ReplyForAll \/ ReplyPerReading
    \/ CommitSent \/ CommitRetry \/ CommitFailed \/ UploadDone

Next ==
    \/ Poll \/ Gateway \/ Crash \/ Restart
    \/ \E s \in Slots : Serve(s) \/ Break(s) \/ Forget(s)
    \/ Clock \/ NewMeter \/ RequestReprocess

Spec == Init /\ [][Next]_vars

(***************************************************************************)
(* The scheduler's loop, a handler that has its database, the clock and    *)
(* docker's restart policy (unless-stopped) always take their next step.   *)
(* Nothing makes adapters produce, operators register meters or faults     *)
(* happen.                                                                 *)
(***************************************************************************)
Fairness ==
    /\ WF_vars(Gateway) /\ WF_vars(Restart) /\ WF_vars(Clock)
    /\ \A s \in Slots : WF_vars(Serve(s)) /\ WF_vars(Forget(s))

LiveSpec == Spec /\ Fairness

\* A step the environment owes; the 500 that the handler answers by itself (a value
\* out of range) is the handler's.
Fault == \/ Crash
         \/ \E s \in Slots : Break(s) /\ ~Serve(s)
         \/ NetworkError /\ exchange[conn].pc # "free"

-----------------------------------------------------------------------------
(***************************************************************************)
(* Properties.                                                             *)
(***************************************************************************)

\* Every variable has its type.
TypeOK ==
    /\ ServerTypeOK
    /\ rows \in Seq(Row)
    /\ pc \in {"idle", "posted", "commit", "down"}
    /\ conn \in Slots \cup {NoSlot}
    /\ batch \subseteq Ids(rows)
    /\ verdict \in [sent: SUBSET Ids(rows), retry: SUBSET Ids(rows), failed: SUBSET Ids(rows)]
    /\ config \in Configs

\* What a handler has done of its own request: the readings it accepted and no
\* longer has to insert are stored; those it rejected are journaled by the time it
\* writes the heartbeat.
Progress(x) ==
    /\ x.pc \in {"insert", "journal"} \/ Succeeding(x) =>
         \A r \in x.payload \ (Rejected(x) \cup x.todo) : Key[r] \in meterReading
    /\ x.pc # "insert" => x.todo = {}
    /\ Succeeding(x) => \A r \in Rejected(x) \cap x.payload : Journaled(r, TRUE)
HandlerProgress == \A s \in Slots : Progress(exchange[s])

\* What remains to commit after a reply is about pending rows, and is true.
VerdictIsTrue ==
    /\ verdict.sent \cap verdict.retry = {}
    /\ (verdict.sent \cup verdict.retry) \cap verdict.failed = {}
    /\ \A i \in verdict.sent \cup verdict.retry \cup verdict.failed : Pending(rows[i])
    /\ \A i \in verdict.sent : Key[rows[i].reading] \in meterReading
    /\ \A i \in verdict.failed : Journaled(rows[i].reading, TRUE)
    /\ pc # "commit" => verdict = NoVerdict

\* A row marked sent is in meter_readings: whatever was lost, repeated, answered
\* late or interrupted on the way (sender.py, mark_sent).
SentIsStored ==
    \A i \in Ids(rows) : rows[i].sent => Key[rows[i].reading] \in meterReading

\* A row given up for an error of its own has a raw event with that error: the
\* operator who finds it in the buffer finds the reason in raw_meter_events, also
\* after a reprocess request has overwritten the event's status.
GivenUpIsJournaled ==
    \A i \in Ids(rows) :
        rows[i].last_error = "permanent" => Journaled(rows[i].reading, TRUE)

\* While the sender waits, its exchange carries the batch it holds, and the rows of
\* the batch are pending (a part of the invariant: POST and reply are one call).
ReplyAnswersBatch ==
    pc = "posted" =>
        /\ conn \in Slots
        /\ \A i \in batch : Pending(rows[i])
        /\ \/ exchange[conn].pc = "free"
           \/ exchange[conn].payload = ReadingsOf(batch)

\* The inductive invariant behind the safety properties.
IInv ==
    /\ TypeOK
    /\ HandlerProgress
    /\ ReplyAnswersBatch
    /\ VerdictIsTrue
    /\ SentIsStored
    /\ GivenUpIsJournaled

\* A settled row is settled for good: never uploaded, retried, failed or marked
\* sent again (only the time it would have waited runs on).
KeepsSettled ==
    \A i \in Ids(rows) : ~Pending(rows[i]) =>
        /\ i \in Ids(rows')
        /\ [rows[i] EXCEPT !.wait = 0] = [rows'[i] EXCEPT !.wait = 0]
SettledForGood == [][KeepsSettled]_vars

\* The buffer and the API implement store and forward.
StateIn(table, r) ==
    IF \E i \in Ids(table) : table[i].reading = r /\ table[i].sent THEN "delivered"
    ELSE IF \E i \in Ids(table) : table[i].reading = r /\ table[i].failed THEN "given_up"
    ELSE IF r \in Buffered(table) THEN "pending" ELSE "absent"
Fates == [r \in Readings |-> StateIn(rows, r)]
Abstract == INSTANCE StoreAndForward WITH state <- Fates, store <- meterReading
ImplementsStoreAndForward == Abstract!Spec

\* What the implementation rests on besides IInv: a reading has one row, no row is
\* both sent and given up, and what handlers are asked to store was buffered first.
OneRowEach(table) ==
    \A i, j \in Ids(table) : table[i].reading = table[j].reading => i = j
SettledOneWay(table) == \A i \in Ids(table) : ~(table[i].sent /\ table[i].failed)
PostedWasBuffered ==
    \A s \in Slots : exchange[s].payload \cup exchange[s].todo \subseteq Buffered(rows)
ImplementationInv ==
    IInv /\ OneRowEach(rows) /\ SettledOneWay(rows) /\ PostedWasBuffered

Waiting(r) == \E i \in Ids(rows) : rows[i].reading = r /\ Pending(rows[i])
Settled(r) == \E i \in Ids(rows) : rows[i].reading = r /\ ~Pending(rows[i])
Delivered(r) == \E i \in Ids(rows) : rows[i].reading = r /\ rows[i].sent

\* Readings that the API accepts whenever it sees them.
Acceptable ==
    {r \in Readings \ (Overflow \cup Unserializable) :
                      /\ Meter[r] \in InitialMeters
                      /\ Timestamp[r] <= MaxFuture
                      /\ Timestamp[r] >= Horizon - MaxAge}

\* When faults stop, every buffered reading is settled, one way or the other.
EveryReadingSettles ==
    <>[][~Fault]_vars => \A r \in Readings : Waiting(r) ~> Settled(r)

\* gateway/README.md: the gateway "buffers readings locally in SQLite and forwards
\* batches to Meteria when connectivity is available".
ForwardedWhenConnected ==
    (<>[][~Fault]_vars /\ [](config = GoodConfig))
        => \A r \in Acceptable : Waiting(r) ~> Delivered(r)
=============================================================================
