---------------------------- MODULE DeliveryProofs ----------------------------
(***************************************************************************)
(* The safety of store and forward, for any number of readings, slots and  *)
(* retries and any clock.  The inductive invariant is IInv (Delivery).     *)
(***************************************************************************)
EXTENDS Delivery, IngestionProofs, SequenceTheorems

(***************************************************************************)
(* What the statements of the gateway's buffer do to a table, and the      *)
(* range of the backoff.                                                   *)
(***************************************************************************)
\* Every delay that _backoff_seconds computes is between one second and
\* max_backoff_seconds, whatever the retry count and the jitter.
THEOREM BackoffRange ==
    ASSUME NEW rc \in Nat, NEW delay \in BackoffSeconds(rc)
    PROVE  delay \in 1..MaxBackoff
<1> DEFINE k == AtMost(rc, 12)
<1>1. k \in 0..12
  BY DEF AtMost
<1>2. PowersOfTwo[k + 1] \in Nat \ {0}
  BY <1>1 DEF PowersOfTwo
<1> DEFINE e == Exponential(rc)
<1>3. e \in Nat \ {0}
  BY <1>2, BackoffAssumption DEF Exponential
<1> DEFINE b == AtMost(e, MaxBackoff)
<1>4. b \in 1..MaxBackoff
  BY <1>3, BackoffAssumption DEF AtMost
<1>5. PICK jitter \in 0..AtLeast(1, b \div 5) : delay = AtMost(b + jitter, MaxBackoff)
  BY DEF BackoffSeconds
<1>6. jitter \in Nat
  BY <1>5
<1> QED
  BY <1>4, <1>5, <1>6, BackoffAssumption DEF AtMost

\* A table whose rows are replaced by rows is a table with the same ids.
LEMMA RowsReplaced ==
    ASSUME NEW table \in Seq(Row), NEW f \in [Ids(table) -> Row]
    PROVE  f \in Seq(Row) /\ Ids(f) = Ids(table)
<1>1. Ids(table) = 1..Len(table) /\ Len(table) \in Nat
  BY DEF Ids
<1> QED
  BY <1>1, IsASeq DEF Ids

LEMMA MarkSentRows ==
    ASSUME NEW table \in Seq(Row), NEW ids, NEW after, after = MarkSent(table, ids)
    PROVE  /\ after \in Seq(Row) /\ Ids(after) = Ids(table)
           /\ \A i \in Ids(table) \ ids : after[i] = table[i]
           /\ \A i \in Ids(table) : i \in ids =>
                after[i].reading = table[i].reading /\ after[i].last_error = "none"
<1>1. \A i \in Ids(table) : table[i] \in Row
  BY DEF Ids
<1>2. after \in [Ids(table) -> Row]
  BY <1>1 DEF MarkSent, Row, Errors
<1>3. after \in Seq(Row) /\ Ids(after) = Ids(table)
  BY <1>2, RowsReplaced
<1> QED
  BY <1>1, <1>3 DEF MarkSent, Row

LEMMA MarkFailedRows ==
    ASSUME NEW table \in Seq(Row), NEW ids, NEW error \in Errors, NEW after,
           after = MarkFailed(table, ids, error)
    PROVE  /\ after \in Seq(Row) /\ Ids(after) = Ids(table)
           /\ \A i \in Ids(table) \ ids : after[i] = table[i]
           /\ \A i \in Ids(table) : i \in ids =>
                /\ after[i].reading = table[i].reading /\ after[i].sent = table[i].sent
                /\ after[i].last_error = error
<1>1. \A i \in Ids(table) : table[i] \in Row
  BY DEF Ids
<1>2. after \in [Ids(table) -> Row]
  BY <1>1 DEF MarkFailed, Row, Errors
<1>3. after \in Seq(Row) /\ Ids(after) = Ids(table)
  BY <1>2, RowsReplaced
<1> QED
  BY <1>1, <1>3 DEF MarkFailed, Row

\* A retry keeps what a row is and whether it is settled.
LEMMA ScheduleRetryRows ==
    ASSUME NEW table \in Seq(Row), NEW ids, NEW backoff \in 1..LongestWait
    PROVE  /\ ScheduleRetry(table, ids, backoff) \in Seq(Row)
           /\ Ids(ScheduleRetry(table, ids, backoff)) = Ids(table)
           /\ \A i \in Ids(table) \ ids : ScheduleRetry(table, ids, backoff)[i] = table[i]
           /\ \A i \in Ids(table) \cap ids :
                LET row == ScheduleRetry(table, ids, backoff)[i]
                IN  /\ row.reading = table[i].reading /\ row.sent = table[i].sent
                    /\ row.failed = table[i].failed /\ row.last_error = "retry"
<1>1. \A i \in Ids(table) : table[i] \in Row
  BY DEF Ids
<1> DEFINE count(i) == IF table[i].retry_count < RetryCap THEN table[i].retry_count + 1
                       ELSE RetryCap
<1>2. \A i \in Ids(table) : count(i) \in 0..RetryCap
  BY <1>1, BufferAssumption DEF Row
<1>3. (IF backoff < 1 THEN 1 ELSE backoff) \in 0..LongestWait
  BY BufferAssumption
<1>4. ScheduleRetry(table, ids, backoff) \in [Ids(table) -> Row]
  BY <1>1, <1>2, <1>3 DEF ScheduleRetry, Row, Errors
<1> QED
  BY <1>1, <1>4, RowsReplaced DEF ScheduleRetry, Row

\* Time only shortens the waits.
LEMMA ElapseRows ==
    ASSUME NEW table \in Seq(Row)
    PROVE  /\ Elapse(table) \in Seq(Row)
           /\ Ids(Elapse(table)) = Ids(table)
           /\ \A i \in Ids(table) :
                /\ Elapse(table)[i] = [table[i] EXCEPT !.wait = Elapse(table)[i].wait]
                /\ Elapse(table)[i].wait \in 0..LongestWait
<1>1. \A i \in Ids(table) : table[i] \in Row
  BY DEF Ids
<1> DEFINE left(i) == IF table[i].wait > 0 THEN table[i].wait - 1 ELSE 0
<1>2. \A i \in Ids(table) : left(i) \in 0..LongestWait
  BY <1>1, BufferAssumption DEF Row
<1>3. Elapse(table) \in [Ids(table) -> Row]
  BY <1>1, <1>2 DEF Elapse, Row
<1> QED
  BY <1>1, <1>2, <1>3, RowsReplaced DEF Elapse, Row

\* Inserting appends fresh rows and leaves the others alone.
LEMMA InsertReadingsRows ==
    ASSUME NEW table \in Seq(Row), NEW n \in Nat, NEW q \in [1..n -> BufferedReadings],
           NEW after, after = InsertReadings(table, q)
    PROVE  /\ after \in Seq(Row)
           /\ Ids(after) = 1..(Len(table) + n)
           /\ \A i \in Ids(table) : after[i] = table[i]
<1>1. \A i \in Ids(table) : table[i] \in Row
  BY DEF Ids
<1>2. Ids(table) = 1..Len(table) /\ Len(table) \in Nat
  BY DEF Ids
<1>3. Len(q) = n /\ DOMAIN q = 1..n
  BY IsASeq, LenProperties
<1>4. \A r \in BufferedReadings : NewRow(r) \in Row
  BY BufferAssumption DEF NewRow, Row, Errors
<1>5. \A i \in (Len(table) + 1)..(Len(table) + n) :
        i - Len(table) \in 1..n /\ q[i - Len(table)] \in BufferedReadings
  BY <1>2
<1>6. after \in [1..(Len(table) + n) -> Row]
  BY <1>1, <1>2, <1>3, <1>4, <1>5 DEF InsertReadings
<1>7. after \in Seq(Row)
  BY <1>2, <1>6, IsASeq
<1> QED
  BY <1>2, <1>3, <1>5, <1>6, <1>7 DEF InsertReadings, Ids

(***************************************************************************)
(* Types: the server's are those of IngestionProofs.                       *)
(***************************************************************************)
LEMMA ServerTypes == TypeOK => ServerTypeOK
  BY DEF TypeOK, ServerTypeOK

\* A retry keeps the rows, what they hold and whether they are settled.
LEMMA BacklogRows ==
    ASSUME rows \in Seq(Row), NEW ids \in SUBSET Ids(rows), NEW table,
           Backlog(ids, table)
    PROVE  /\ table \in Seq(Row) /\ Ids(table) = Ids(rows)
           /\ \A i \in Ids(rows) \ ids : table[i] = rows[i]
           /\ \A i \in ids : /\ table[i].reading = rows[i].reading
                             /\ table[i].sent = rows[i].sent
                             /\ table[i].failed = rows[i].failed
                             /\ table[i].last_error = "retry"
<1>1. PICK i \in ids : \E delay \in BackoffSeconds(rows[i].retry_count) :
                         table = ScheduleRetry(rows, ids, delay)
  BY DEF Backlog
<1>2. PICK delay \in BackoffSeconds(rows[i].retry_count) :
        table = ScheduleRetry(rows, ids, delay)
  BY <1>1
<1>3. rows[i] \in Row
  BY <1>1 DEF Ids
<1>4. rows[i].retry_count \in Nat
  BY <1>3, BufferAssumption DEF Row
<1>5. delay \in 1..LongestWait
  BY <1>2, <1>4, BackoffRange, DeliveryAssumption
<1> QED
  BY <1>2, <1>5, ScheduleRetryRows

LEMMA ErrorsAre == "client" \in Errors /\ "permanent" \in Errors
  BY DEF Errors

LEMMA FetchedRows ==
    ASSUME NEW i \in FetchReadyBatch(rows, BatchSize)
    PROVE  i \in Ids(rows) /\ Pending(rows[i])
  BY DEF FetchReadyBatch

LEMMA NoVerdictType ==
    NoVerdict \in [sent: SUBSET Ids(rows), retry: SUBSET Ids(rows), failed: SUBSET Ids(rows)]
  BY DEF NoVerdict

LEMMA InitType == Init => TypeOK
<1> SUFFICES ASSUME Init PROVE TypeOK
  OBVIOUS
<1>1. /\ now \in 0..Horizon /\ meters \subseteq MeterIds
      /\ lastSeenAt \in [Gateways -> Never..Horizon]
  BY IngestionAssumption DEF Init, IngestionInit, Never
<1>2. exchange \in [Slots -> Exchange]
  BY FreeSlotType DEF Init, IngestionInit
<1> QED
  BY <1>1, <1>2, NoVerdictType DEF Init, IngestionInit, TypeOK, ServerTypeOK

\* A poll appends n rows, for readings that the buffer does not hold, one each.
PollAdds(n, q) ==
    /\ q \in [1..n -> BufferedReadings]
    /\ rows' \in Seq(Row) /\ Ids(rows') = 1..(Len(rows) + n)
    /\ \A i \in Ids(rows) : rows'[i] = rows[i]
    /\ \A i \in Ids(rows') \ Ids(rows) :
         rows'[i] = NewRow(q[i - Len(rows)])
    /\ \A i \in 1..n : q[i] \notin Buffered(rows)
    /\ \A i, j \in 1..n : q[i] = q[j] => i = j

LEMMA PollRows ==
    ASSUME TypeOK, Poll
    PROVE  \E n \in Nat : \E q : PollAdds(n, q)
<1>1. PICK S \in SUBSET Readings : \E q \in Arrangements(S \ Buffered(rows)) :
        rows' = InsertReadings(rows, q)
  BY DEF Poll
<1> DEFINE new == S \ Buffered(rows)
           n == Cardinality(new)
<1>2. PICK q \in Arrangements(new) : rows' = InsertReadings(rows, q)
  BY <1>1
<1>3. n \in Nat
  BY SubsetsFinite, FS_CardinalityType
<1>4. q \in [1..n -> BufferedReadings]
  BY DeliveryAssumption DEF Arrangements
<1>5. rows \in Seq(Row)
  BY DEF TypeOK, ServerTypeOK
<1>6. /\ \A i \in 1..n : q[i] \notin Buffered(rows)
      /\ \A i, j \in 1..n : q[i] = q[j] => i = j
  BY DEF Arrangements
<1> HIDE DEF n, new
<1>7. /\ rows' \in Seq(Row) /\ Ids(rows') = 1..(Len(rows) + n)
      /\ \A i \in Ids(rows) : rows'[i] = rows[i]
      /\ \A i \in Ids(rows') \ Ids(rows) :
           rows'[i] = NewRow(q[i - Len(rows)])
  <2> DEFINE after == rows'
  <2>1. after = InsertReadings(rows, q)
    BY <1>2
  <2> HIDE DEF after
  <2>2. after \in Seq(Row)
    BY <1>3, <1>4, <1>5, <2>1, InsertReadingsRows
  <2>3. Ids(after) = 1..(Len(rows) + n)
    BY <1>3, <1>4, <1>5, <2>1, InsertReadingsRows
  <2>4. \A i \in Ids(rows) : after[i] = rows[i]
    BY <1>3, <1>4, <1>5, <2>1, InsertReadingsRows
  <2>5. ASSUME NEW i \in Ids(after) \ Ids(rows)
        PROVE  after[i] = NewRow(q[i - Len(rows)])
    <3>1. Len(q) = n
      BY <1>3, <1>4, IsASeq, LenProperties
    <3>2. i \in 1..(Len(rows) + n) /\ i \notin 1..Len(rows) /\ Len(rows) \in Nat
      BY <1>5, <2>3 DEF Ids
    <3>3. i \in 1..(Len(rows) + Len(q)) /\ ~(i <= Len(rows))
      BY <1>3, <3>1, <3>2
    <3> QED
      BY <2>1, <3>3 DEF InsertReadings
  <2> QED
    BY <2>2, <2>3, <2>4, <2>5 DEF after
<1>8. PollAdds(n, q)
  BY <1>4, <1>6, <1>7 DEF PollAdds
<1> QED
  BY <1>3, <1>8

\* Steps that leave the buffer's ids alone keep the gateway's references valid.
LEMMA PollType ==
    ASSUME TypeOK, Poll
    PROVE  /\ TypeOK'
           /\ \A i \in Ids(rows) : i \in Ids(rows') /\ rows'[i] = rows[i]
           /\ \A i \in Ids(rows') \ Ids(rows) :
                \E r \in BufferedReadings : rows'[i] = NewRow(r)
<1>0. PICK n \in Nat : \E q : PollAdds(n, q)
  BY PollRows
<1>1. PICK q : PollAdds(n, q)
  BY <1>0
<1>2. /\ rows \in Seq(Row) /\ rows' \in Seq(Row) /\ Ids(rows') = 1..(Len(rows) + n)
      /\ \A i \in Ids(rows) : rows'[i] = rows[i]
  BY <1>1 DEF TypeOK, ServerTypeOK, PollAdds
<1>3. Ids(rows) \subseteq Ids(rows')
  BY <1>2 DEF Ids
<1>4. \A i \in Ids(rows') \ Ids(rows) : i - Len(rows) \in 1..n
  BY <1>2 DEF Ids
<1>5. \A i \in Ids(rows') \ Ids(rows) : \E r \in BufferedReadings : rows'[i] = NewRow(r)
  BY <1>1, <1>4 DEF PollAdds
<1> QED
  BY <1>2, <1>3, <1>5 DEF TypeOK, ServerTypeOK, Poll, ingestionVars, serverVars

LEMMA UploadType ==
    ASSUME TypeOK, Upload
    PROVE  TypeOK'
<1> DEFINE ready == FetchReadyBatch(rows, BatchSize)
<1>0. ready \in SUBSET Ids(rows)
  BY FetchedRows
<1>1. CASE ReadingsOf(ready) \cap Unserializable # {}
  <2>1. /\ Backlog(ready, rows')
        /\ UNCHANGED <<exchange, pc, conn, batch, now, serverVars, verdict, config>>
    BY <1>1 DEF Upload
  <2>2. rows' \in Seq(Row) /\ Ids(rows') = Ids(rows)
    <3> HIDE DEF ready
    <3> QED
      BY <1>0, <2>1, BacklogRows DEF TypeOK, ServerTypeOK
  <2> QED
    BY <2>1, <2>2 DEF TypeOK, ServerTypeOK, serverVars
<1>2. CASE ReadingsOf(ready) \cap Unserializable = {}
  <2>1. PICK s \in Slots : /\ Arrive(s, config.token, config.serial, ReadingsOf(ready))
                           /\ conn' = s
    BY <1>2 DEF Upload
  <2>2. /\ pc' = "posted" /\ batch' = ready
        /\ UNCHANGED <<rows, now, serverVars, verdict, config>>
    BY <1>2 DEF Upload
  <2>3. config.token \in Tokens /\ config.serial \in Serials
    BY DeliveryAssumption DEF TypeOK, ServerTypeOK
  <2>4. ReadingsOf(ready) \in SUBSET Readings
    <3>1. \A i \in Ids(rows) : rows[i] \in Row
      BY DEF TypeOK, ServerTypeOK, Ids
    <3>2. \A i \in Ids(rows) : rows[i].reading \in Readings
      BY <3>1, DeliveryAssumption DEF Row
    <3> QED
      BY <1>0, <3>2 DEF ReadingsOf
  <2>5. exchange' \in [Slots -> Exchange]
    BY <2>1, <2>3, <2>4, ArriveType DEF TypeOK, ServerTypeOK
  <2> QED
    BY <1>0, <2>1, <2>2, <2>5 DEF TypeOK, ServerTypeOK, serverVars
<1> QED
  BY <1>1, <1>2

\* The steps that end an upload.
LEMMA EndOfUploadType ==
    ASSUME TypeOK, NetworkError \/ ReplyForAll \/ ReplyPerReading
    PROVE  TypeOK' /\ Ids(rows') = Ids(rows)
<1>0. rows \in Seq(Row) /\ batch \in SUBSET Ids(rows) /\ exchange \in [Slots -> Exchange]
  BY DEF TypeOK, ServerTypeOK
<1>1. CASE NetworkError
  <2>1. rows' \in Seq(Row) /\ Ids(rows') = Ids(rows)
    BY <1>0, <1>1, BacklogRows DEF NetworkError
  <2> QED
    BY <1>1, <2>1 DEF NetworkError, Finish, TypeOK, ServerTypeOK, ingestionVars, serverVars
<1>2. CASE ReplyForAll
  <2>1. Backlog(batch, rows') \/ rows' = MarkFailed(rows, batch, "client")
    BY <1>2 DEF ReplyForAll
  <2>2. rows' \in Seq(Row) /\ Ids(rows') = Ids(rows)
    <3>1. CASE Backlog(batch, rows')
      BY <1>0, <3>1, BacklogRows
    <3>2. CASE rows' = MarkFailed(rows, batch, "client")
      BY <1>0, <3>2, MarkFailedRows, ErrorsAre
    <3> QED
      BY <2>1, <3>1, <3>2
  <2>3. exchange' \in [Slots -> Exchange]
    BY <1>0, <1>2, ReleaseType DEF ReplyForAll
  <2> QED
    BY <1>2, <2>2, <2>3 DEF ReplyForAll, Finish, TypeOK, ServerTypeOK, serverVars
<1>3. CASE ReplyPerReading
  <2>1. exchange' \in [Slots -> Exchange]
    BY <1>0, <1>3, ReleaseType DEF ReplyPerReading
  <2>2. verdict' \in [sent: SUBSET Ids(rows), retry: SUBSET Ids(rows), failed: SUBSET Ids(rows)]
    BY <1>0, <1>3 DEF ReplyPerReading, Verdict
  <2> QED
    BY <1>3, <2>1, <2>2 DEF ReplyPerReading, TypeOK, ServerTypeOK, serverVars
<1> QED
  BY <1>1, <1>2, <1>3

LEMMA CommitType ==
    ASSUME TypeOK, CommitSent \/ CommitRetry \/ CommitFailed \/ UploadDone
    PROVE  TypeOK' /\ Ids(rows') = Ids(rows)
<1> DEFINE Verdicts == [sent: SUBSET Ids(rows), retry: SUBSET Ids(rows),
                        failed: SUBSET Ids(rows)]
<1>0. rows \in Seq(Row) /\ verdict \in Verdicts
  BY DEF TypeOK, ServerTypeOK
<1>1. CASE CommitSent
  <2>1. rows' \in Seq(Row) /\ Ids(rows') = Ids(rows)
    BY <1>0, <1>1, MarkSentRows DEF CommitSent
  <2>2. verdict' \in Verdicts
    BY <1>0, <1>1 DEF CommitSent
  <2> QED
    BY <1>1, <2>1, <2>2 DEF CommitSent, TypeOK, ServerTypeOK, ingestionVars, serverVars
<1>2. CASE CommitRetry
  <2>1. rows' \in Seq(Row) /\ Ids(rows') = Ids(rows)
    BY <1>0, <1>2, BacklogRows DEF CommitRetry
  <2>2. verdict' \in Verdicts
    BY <1>0, <1>2 DEF CommitRetry
  <2> QED
    BY <1>2, <2>1, <2>2 DEF CommitRetry, TypeOK, ServerTypeOK, ingestionVars, serverVars
<1>3. CASE CommitFailed
  <2>1. rows' \in Seq(Row) /\ Ids(rows') = Ids(rows)
    BY <1>0, <1>3, MarkFailedRows, ErrorsAre DEF CommitFailed
  <2>2. verdict' \in Verdicts
    BY <1>3, NoVerdictType DEF CommitFailed
  <2> QED
    BY <1>3, <2>1, <2>2 DEF CommitFailed, TypeOK, ServerTypeOK, ingestionVars, serverVars
<1>4. CASE UploadDone
  BY <1>4 DEF UploadDone, TypeOK, ServerTypeOK, ingestionVars, serverVars
<1> QED
  BY <1>1, <1>2, <1>3, <1>4

\* Crashes, restarts, the server, the clock and operators.
LEMMA OtherType ==
    ASSUME TypeOK,
           \/ Crash \/ Restart \/ Clock \/ NewMeter \/ RequestReprocess
           \/ \E s \in Slots : Serve(s) \/ Break(s) \/ Forget(s)
    PROVE  TypeOK' /\ Ids(rows') = Ids(rows)
<1>1. CASE Crash
  BY <1>1, NoVerdictType DEF Crash, TypeOK, ServerTypeOK, ingestionVars, serverVars
<1>2. CASE Restart
  BY <1>2 DEF Restart, TypeOK, ServerTypeOK, ingestionVars, serverVars
<1>3. ASSUME NEW s \in Slots, Serve(s) PROVE TypeOK' /\ Ids(rows') = Ids(rows)
  <2>1. Handle(s) /\ UNCHANGED gatewayVars
    BY <1>3 DEF Serve
  <2>2. /\ now' = now /\ meters' = meters
        /\ meterReading' \subseteq Keys
        /\ rawMeterEvent' \subseteq Readings \X Statuses \X BOOLEAN
        /\ lastSeenAt' \in [Gateways -> Never..Horizon]
        /\ audited' \in Nat
        /\ exchange' \in [Slots -> Exchange]
    BY <2>1, HandleType, ServerTypes
  <2> QED
    BY <2>1, <2>2 DEF gatewayVars, TypeOK, ServerTypeOK
<1>4. ASSUME NEW s \in Slots, Break(s) PROVE TypeOK' /\ Ids(rows') = Ids(rows)
  <2>1. exchange' \in [Slots -> Exchange]
    BY <1>4, ReplyType, ReleaseType, StagesAndCodes DEF Break, Fail, TypeOK, ServerTypeOK
  <2> QED
    BY <1>4, <2>1 DEF Break, Fail, Vanish, gatewayVars, serverVars, TypeOK, ServerTypeOK
<1>5. ASSUME NEW s \in Slots, Forget(s) PROVE TypeOK' /\ Ids(rows') = Ids(rows)
  <2>1. exchange' \in [Slots -> Exchange]
    BY <1>5, ReleaseType DEF Forget, TypeOK, ServerTypeOK
  <2> QED
    BY <1>5, <2>1 DEF Forget, gatewayVars, serverVars, TypeOK, ServerTypeOK
<1>6. CASE Clock
  <2>1. now' \in 0..Horizon /\ UNCHANGED <<serverVars, exchange>>
    BY <1>6, IngestionAssumption DEF Clock, Tick, ingestionVars, TypeOK, ServerTypeOK
  <2>2. rows' \in Seq(Row) /\ Ids(rows') = Ids(rows)
    BY <1>6, ElapseRows DEF Clock, TypeOK, ServerTypeOK
  <2> QED
    BY <1>6, <2>1, <2>2 DEF Clock, serverVars, TypeOK, ServerTypeOK
<1>7. CASE NewMeter
  <2>1. PICK m \in MeterIds : CreateMeter(m)
    BY <1>7 DEF NewMeter
  <2> QED
    BY <1>7, <2>1 DEF NewMeter, CreateMeter, gatewayVars, TypeOK, ServerTypeOK
<1>8. CASE RequestReprocess
  <2>1. TypeOK'
    BY <1>8, ReprocessType, ServerTypes
       DEF RequestReprocess, Reprocess, gatewayVars, TypeOK, ServerTypeOK
  <2> QED
    BY <1>8, <2>1 DEF RequestReprocess, gatewayVars
<1> QED
  BY <1>1, <1>2, <1>3, <1>4, <1>5, <1>6, <1>7, <1>8

LEMMA TypeStep == TypeOK /\ [Next]_vars => TypeOK'
<1> SUFFICES ASSUME TypeOK, [Next]_vars PROVE TypeOK'
  OBVIOUS
<1>1. CASE Next
  BY <1>1, PollType, UploadType, EndOfUploadType, CommitType, OtherType
     DEF Next, Gateway
<1>2. CASE UNCHANGED vars
  BY <1>2 DEF vars, ingestionVars, serverVars, gatewayVars, TypeOK, ServerTypeOK
<1> QED
  BY <1>1, <1>2

\* Every variable of the composed system keeps its type.
THEOREM TypeCorrect == Spec => []TypeOK
  BY InitType, TypeStep, PTL DEF Spec

(***************************************************************************)
(* Handlers: what a step of one does to its exchange, and that it keeps    *)
(* what the reply will claim true.                                         *)
(***************************************************************************)
\* A handler's step only adds rows, touches its own exchange, keeps the payload,
\* and keeps Progress.
HandlerStepKeeps(s) ==
    /\ meterReading \subseteq meterReading' /\ rawMeterEvent \subseteq rawMeterEvent'
    /\ OnlyIn(s)
    /\ exchange[s].pc \notin {"free", "done"} /\ exchange'[s].pc # "free"
    /\ exchange'[s].payload = exchange[s].payload
    /\ Progress(exchange[s])'

LEMMA HandlerStep ==
    ASSUME TypeOK, NEW s \in Slots, Progress(exchange[s]), Handle(s)
    PROVE  HandlerStepKeeps(s)
<1> DEFINE x == exchange[s]
           y == exchange'[s]
<1>0. ServerTypeOK
  BY ServerTypes
<1>1. CASE Validate(s)
  <2>1. /\ x.pc = "arrived" /\ OnlyIn(s) /\ UNCHANGED <<meterReading, rawMeterEvent>>
        /\ \/ Sorted(x, y)
           \/ \E code \in Codes \ {200} : Replied(x, y, code)
    BY <1>0, <1>1, ValidateEffect DEF serverVars
  <2>2. CASE Sorted(x, y)
    BY <2>1, <2>2 DEF Sorted, HandlerStepKeeps, Progress, Succeeding, Rejected, Journaled
  <2>3. CASE \E code \in Codes \ {200} : Replied(x, y, code)
    BY <2>1, <2>3 DEF Replied, HandlerStepKeeps, Progress, Succeeding, Rejected, Journaled
  <2> QED
    BY <2>1, <2>2, <2>3
<1>2. CASE Insert(s)
  <2>1. /\ x.pc = "insert" /\ OnlyIn(s) /\ UNCHANGED rawMeterEvent
        /\ \/ \E chunk : Chunked(x, y, chunk)
           \/ Replied(x, y, 500) /\ UNCHANGED meterReading
    BY <1>0, <1>2, InsertEffect
  <2>2. ASSUME NEW chunk, Chunked(x, y, chunk) PROVE HandlerStepKeeps(s)
    <3>1. \A r \in x.payload \ (Rejected(x) \cup y.todo) : Key[r] \in meterReading'
      BY <2>1, <2>2 DEF Chunked, Progress
    <3>2. Progress(exchange[s])'
      BY <2>2, <3>1 DEF Chunked, Progress, Succeeding, Rejected, Journaled
    <3> QED
      BY <2>1, <2>2, <3>2 DEF Chunked, HandlerStepKeeps
  <2>3. CASE Replied(x, y, 500) /\ UNCHANGED meterReading
    BY <2>1, <2>3 DEF Replied, HandlerStepKeeps, Progress, Succeeding, Rejected, Journaled
  <2> QED
    BY <2>1, <2>2, <2>3
<1>3. CASE Journal(s)
  <2>1. /\ x.pc = "journal" /\ y.pc \in {"heartbeat", "audit"}
        /\ Moved(x, y) /\ OnlyIn(s) /\ UNCHANGED meterReading
        /\ rawMeterEvent \subseteq rawMeterEvent'
        /\ \A r \in Rejected(x) : Journaled(r, TRUE)'
    BY <1>0, <1>3, JournalEffect
  <2> QED
    BY <2>1 DEF Moved, HandlerStepKeeps, Progress, Succeeding, Rejected, Journaled
<1>4. CASE Heartbeat(s)
  <2>1. /\ x.pc = "heartbeat" /\ y.pc = "audit" /\ Moved(x, y) /\ OnlyIn(s)
        /\ UNCHANGED <<meterReading, rawMeterEvent>>
    BY <1>0, <1>4, HeartbeatEffect
  <2> QED
    BY <2>1 DEF Moved, HandlerStepKeeps, Progress, Succeeding, Rejected, Journaled
<1>5. CASE Audit(s)
  <2>1. /\ x.pc = "audit" /\ Replied(x, y, 200) /\ OnlyIn(s)
        /\ UNCHANGED <<meterReading, rawMeterEvent>>
    BY <1>0, <1>5, AuditEffect
  <2> QED
    BY <2>1 DEF Replied, HandlerStepKeeps, Progress, Succeeding, Rejected, Journaled
<1> QED
  BY <1>1, <1>2, <1>3, <1>4, <1>5 DEF Handle

LEMMA SlotChange ==
    ASSUME HandlerProgress, NEW s \in Slots, Progress(exchange[s])',
           meterReading \subseteq meterReading', JournalKept,
           \A t \in Slots \ {s} : exchange'[t] = exchange[t]
    PROVE  HandlerProgress'
<1> SUFFICES ASSUME NEW t \in Slots, t # s PROVE Progress(exchange[t])'
  BY DEF HandlerProgress
<1>1. Progress(exchange[t]) /\ exchange'[t] = exchange[t]
  BY DEF HandlerProgress
<1> DEFINE x == exchange[t]
<1>2. Succeeding(x) => \A r \in Rejected(x) \cap x.payload : Journaled(r, TRUE)'
  BY <1>1 DEF Progress, JournalKept
<1> QED
  BY <1>1, <1>2 DEF Progress, Succeeding, Rejected, Journaled

LEMMA SlotFreed ==
    ASSUME exchange \in [Slots -> Exchange], HandlerProgress, NEW s \in Slots,
           exchange' = [exchange EXCEPT ![s] = FreeSlot],
           UNCHANGED <<meterReading, rawMeterEvent>>
    PROVE  /\ HandlerProgress' /\ exchange'[s].pc = "free"
           /\ \A t \in Slots \ {s} : exchange'[t] = exchange[t]
<1>1. exchange'[s] = FreeSlot /\ \A t \in Slots \ {s} : exchange'[t] = exchange[t]
  OBVIOUS
<1>2. Progress(exchange[s])'
  BY <1>1, FreeSlotFields DEF Progress, Succeeding
<1> QED
  BY <1>1, <1>2, FreeSlotFields, JournalGrows, SlotChange

\* A row of the batch is the only one at its index.
LEMMA IndexNamesRow ==
    ASSUME TypeOK, NEW i \in batch, NEW j \in batch, i < j
    PROVE  Index(i) # Index(j)
<1>1. batch \subseteq 1..Len(rows) /\ IsFiniteSet(1..Len(rows))
  <2>1. rows \in Seq(Row) /\ batch \subseteq Ids(rows)
    BY DEF TypeOK
  <2>2. Len(rows) \in Nat /\ DOMAIN rows = 1..Len(rows)
    BY <2>1
  <2>3. IsFiniteSet(1..Len(rows))
    BY <2>2, FS_Interval
  <2> QED
    BY <2>1, <2>2, <2>3 DEF Ids
<1> DEFINE below(k) == {h \in batch : h < k}
<1>2. \A k \in batch : IsFiniteSet(below(k))
  BY <1>1, FS_Subset
<1>3. below(i) \subseteq below(j) /\ i \in below(j) /\ i \notin below(i)
  <2>1. i \in Int /\ j \in Int /\ \A h \in batch : h \in Int
    BY <1>1
  <2>2. \A h \in batch : h < i => h < j
    <3>1. \A h \in Int : h < i => h < j
      BY <2>1
    <3> QED
      BY <2>1, <3>1
  <2>3. below(i) \subseteq below(j)
    BY <2>2
  <2>4. i \in below(j)
    OBVIOUS
  <2>5. i \notin below(i)
    BY <2>1
  <2> QED
    BY <2>3, <2>4, <2>5
<1>4. Cardinality(below(i)) # Cardinality(below(j))
  <2> HIDE DEF below
  <2> QED
    BY <1>2, <1>3, FS_Subset
<1> QED
  BY <1>4 DEF Index

\* So the indexes of the errors pick out exactly the rows whose readings they are of.
LEMMA ErrorIndexesNameRows ==
    ASSUME TypeOK, NEW S, NEW i \in batch
    PROVE  Index(i) \in ErrorIndexes(S) <=> rows[i].reading \in S
<1>1. ASSUME NEW j \in batch, Index(i) = Index(j)
      PROVE  i = j
  <2>1. i \in Int /\ j \in Int
    BY DEF TypeOK, Ids
  <2>2. CASE i < j
    BY <1>1, <2>2, IndexNamesRow
  <2>3. CASE j < i
    BY <1>1, <2>3, IndexNamesRow
  <2> QED
    BY <2>1, <2>2, <2>3
<1> QED
  BY <1>1 DEF ErrorIndexes

\* What the sender makes of the reply, said of readings.
LEMMA VerdictByReading ==
    ASSUME TypeOK, NEW x
    PROVE  /\ Verdict(x).sent = {i \in batch : rows[i].reading \notin Rejected(x)}
           /\ Verdict(x).failed \subseteq batch \ Verdict(x).sent
           /\ Verdict(x).retry = batch \ (Verdict(x).sent \cup Verdict(x).failed)
<1>1. \A i \in batch : Index(i) \in ErrorIndexes(Rejected(x))
                            <=> rows[i].reading \in Rejected(x)
  BY ErrorIndexesNameRows
<1> QED
  BY <1>1 DEF Verdict

LEMMA NothingToCommit == verdict = NoVerdict => VerdictIsTrue
  BY DEF NoVerdict, VerdictIsTrue

(***************************************************************************)
(* The inductive invariant.  One lemma per group of actions; each takes up *)
(* the conjuncts of IInv that the group can disturb.                       *)
(***************************************************************************)
Safety == /\ HandlerProgress /\ ReplyAnswersBatch /\ VerdictIsTrue
          /\ SentIsStored /\ GivenUpIsJournaled

LEMMA InitSafety == Init => Safety
<1> SUFFICES ASSUME Init PROVE Safety
  OBVIOUS
<1>1. HandlerProgress
  <2>1. \A s \in Slots : exchange[s] = FreeSlot
    BY DEF Init, IngestionInit
  <2> QED
    BY <2>1, FreeSlotFields DEF HandlerProgress, Progress, Succeeding
<1>2. Ids(rows) = {}
  BY DEF Init, Ids
<1> QED
  BY <1>1, <1>2, NothingToCommit
     DEF Init, Safety, ReplyAnswersBatch, SentIsStored, GivenUpIsJournaled, Journaled

LEMMA PollSafety ==
    ASSUME IInv, Poll
    PROVE  Safety'
<1>1. /\ \A i \in Ids(rows) : i \in Ids(rows') /\ rows'[i] = rows[i]
      /\ \A i \in Ids(rows') \ Ids(rows) : ~rows'[i].sent /\ rows'[i].last_error = "none"
  <2>1. /\ \A i \in Ids(rows) : i \in Ids(rows') /\ rows'[i] = rows[i]
        /\ \A i \in Ids(rows') \ Ids(rows) :
             \E r \in BufferedReadings : rows'[i] = NewRow(r)
    BY PollType DEF IInv
  <2>2. \A r : ~NewRow(r).sent /\ NewRow(r).last_error = "none"
    BY DEF NewRow
  <2> QED
    BY <2>1, <2>2
<1>2. /\ pc = "idle" /\ pc' = "idle" /\ verdict' = verdict
      /\ UNCHANGED <<meterReading, rawMeterEvent, exchange>>
  BY DEF Poll, ingestionVars, serverVars
<1>3. HandlerProgress'
  BY <1>2 DEF IInv, HandlerProgress, Progress, Succeeding, Rejected, Journaled
<1>4. VerdictIsTrue'
  <2>1. verdict' = NoVerdict
    BY <1>2 DEF IInv, VerdictIsTrue
  <2> QED
    BY <2>1 DEF VerdictIsTrue, NoVerdict
<1>5. SentIsStored' /\ GivenUpIsJournaled'
  BY <1>1, <1>2 DEF IInv, SentIsStored, GivenUpIsJournaled, Journaled
<1> QED
  BY <1>2, <1>3, <1>4, <1>5 DEF Safety, ReplyAnswersBatch

\* After a retry of some rows, the rows still tell the truth.
LEMMA BacklogSafety ==
    ASSUME TypeOK, SentIsStored, GivenUpIsJournaled,
           UNCHANGED <<meterReading, rawMeterEvent>>,
           NEW ids \in SUBSET Ids(rows), Backlog(ids, rows')
    PROVE  SentIsStored' /\ GivenUpIsJournaled'
<1>1. /\ Ids(rows') = Ids(rows)
      /\ \A i \in Ids(rows) \ ids : rows'[i] = rows[i]
      /\ \A i \in ids : /\ rows'[i].reading = rows[i].reading
                        /\ rows'[i].sent = rows[i].sent
                        /\ rows'[i].last_error = "retry"
  BY BacklogRows DEF TypeOK, ServerTypeOK
<1> QED
  BY <1>1 DEF SentIsStored, GivenUpIsJournaled, Journaled

LEMMA UploadSafety ==
    ASSUME IInv, Upload
    PROVE  Safety'
<1> DEFINE ready == FetchReadyBatch(rows, BatchSize)
<1>0. /\ ready \in SUBSET Ids(rows) /\ \A i \in ready : Pending(rows[i])
      /\ pc = "idle" /\ UNCHANGED <<meterReading, rawMeterEvent, verdict>>
  BY FetchedRows DEF Upload, serverVars
<1>1. verdict' = NoVerdict
  BY <1>0 DEF IInv, VerdictIsTrue, Journaled
<1>2. VerdictIsTrue'
  BY <1>1 DEF NoVerdict, VerdictIsTrue
<1>3. CASE ReadingsOf(ready) \cap Unserializable # {}
  <2>1. Backlog(ready, rows') /\ pc' = "idle" /\ exchange' = exchange
    BY <1>0, <1>3 DEF Upload
  <2>2. HandlerProgress'
    BY <1>0, <2>1 DEF IInv, HandlerProgress, Progress, Succeeding, Rejected, Journaled
  <2> HIDE DEF ready
  <2>3. SentIsStored' /\ GivenUpIsJournaled'
    BY <1>0, <2>1, BacklogSafety DEF IInv
  <2> QED
    BY <1>2, <2>1, <2>2, <2>3 DEF Safety, ReplyAnswersBatch
<1>4. CASE ReadingsOf(ready) \cap Unserializable = {}
  <2>1. PICK s \in Slots : /\ Arrive(s, config.token, config.serial, ReadingsOf(ready))
                           /\ conn' = s
    BY <1>4 DEF Upload
  <2>2. rows' = rows /\ batch' = ready
    BY <1>4 DEF Upload
  <2> DEFINE y == [FreeSlot EXCEPT !.pc = "arrived", !.token = config.token,
                     !.serial = config.serial, !.payload = ReadingsOf(ready)]
  <2>3. y.pc = "arrived" /\ y.todo = {} /\ y.payload = ReadingsOf(ready)
    BY DEF FreeSlot
  <2>4. exchange' = [exchange EXCEPT ![s] = y]
    BY <2>1 DEF Arrive
  <2> HIDE DEF y
  <2>5. exchange'[s] = y /\ \A t \in Slots \ {s} : exchange'[t] = exchange[t]
    BY <2>4 DEF IInv, TypeOK, ServerTypeOK
  <2>6. HandlerProgress'
    <3>1. Progress(exchange[s])'
      BY <2>3, <2>5 DEF Progress, Succeeding
    <3> QED
      BY <1>0, <2>5, <3>1, JournalGrows, SlotChange DEF IInv
  <2>7. ReplyAnswersBatch'
    BY <1>0, <2>1, <2>2, <2>3, <2>5 DEF ReplyAnswersBatch, ReadingsOf
  <2>8. SentIsStored' /\ GivenUpIsJournaled'
    BY <1>0, <2>2 DEF IInv, SentIsStored, GivenUpIsJournaled, Journaled
  <2> QED
    BY <1>2, <2>6, <2>7, <2>8 DEF Safety
<1> QED
  BY <1>3, <1>4
LEMMA NetworkErrorSafety ==
    ASSUME IInv, NetworkError
    PROVE  Safety'
<1>1. /\ Backlog(batch, rows') /\ pc = "posted" /\ pc' = "idle" /\ verdict' = verdict
      /\ UNCHANGED <<meterReading, rawMeterEvent, exchange>>
  BY DEF NetworkError, Finish, ingestionVars, serverVars
<1>2. VerdictIsTrue'
  <2>1. verdict' = NoVerdict
    BY <1>1 DEF IInv, VerdictIsTrue
  <2> QED
    BY <2>1 DEF VerdictIsTrue, NoVerdict
<1>3. HandlerProgress'
  BY <1>1 DEF IInv, HandlerProgress, Progress, Succeeding, Rejected, Journaled
<1>4. SentIsStored' /\ GivenUpIsJournaled'
  BY <1>1, BacklogSafety DEF IInv, TypeOK, ServerTypeOK
<1> QED
  BY <1>1, <1>2, <1>3, <1>4 DEF Safety, ReplyAnswersBatch

LEMMA ReplyForAllSafety ==
    ASSUME IInv, ReplyForAll
    PROVE  Safety'
<1>1. /\ pc = "posted" /\ pc' = "idle" /\ verdict' = verdict /\ conn \in Slots
      /\ exchange' = [exchange EXCEPT ![conn] = FreeSlot]
      /\ UNCHANGED <<meterReading, rawMeterEvent>>
  BY DEF ReplyForAll, Release, Finish, serverVars, IInv, ReplyAnswersBatch
<1>2. VerdictIsTrue'
  <2>1. verdict' = NoVerdict
    BY <1>1 DEF IInv, VerdictIsTrue
  <2> QED
    BY <2>1 DEF VerdictIsTrue, NoVerdict
<1>3. HandlerProgress'
  BY <1>1, SlotFreed DEF IInv, TypeOK, ServerTypeOK
<1>4. SentIsStored' /\ GivenUpIsJournaled'
  <2>1. CASE Backlog(batch, rows')
    BY <1>1, <2>1, BacklogSafety DEF IInv, TypeOK, ServerTypeOK
  <2>2. CASE rows' = MarkFailed(rows, batch, "client")
    <3>1. /\ Ids(rows') = Ids(rows)
          /\ \A i \in Ids(rows) \ batch : rows'[i] = rows[i]
          /\ \A i \in Ids(rows) \cap batch : /\ rows'[i].sent = rows[i].sent
                                            /\ rows'[i].reading = rows[i].reading
                                            /\ rows'[i].last_error = "client"
      BY <2>2, MarkFailedRows, ErrorsAre DEF IInv, TypeOK, ServerTypeOK
    <3> QED
      BY <1>1, <3>1 DEF IInv, SentIsStored, GivenUpIsJournaled, Journaled
  <2> QED
    BY <2>1, <2>2 DEF ReplyForAll
<1> QED
  BY <1>1, <1>2, <1>3, <1>4 DEF Safety, ReplyAnswersBatch

\* The verdict drawn from a 200 reply is true: Progress holds of the exchange, and
\* its payload is the batch.
LEMMA ReplyPerReadingSafety ==
    ASSUME IInv, ReplyPerReading
    PROVE  Safety'
<1> DEFINE x == exchange[conn]
<1>1. /\ pc = "posted" /\ pc' = "commit" /\ verdict' = Verdict(x) /\ conn \in Slots
      /\ x.pc = "done" /\ x.code = 200 /\ rows' = rows
      /\ exchange' = [exchange EXCEPT ![conn] = FreeSlot]
      /\ UNCHANGED <<meterReading, rawMeterEvent>>
  BY DEF ReplyPerReading, Release, serverVars, IInv, ReplyAnswersBatch
<1>2. /\ \A i \in batch : Pending(rows[i]) /\ rows[i].reading \in x.payload
      /\ x.todo = {}
      /\ \A r \in x.payload \ Rejected(x) : Key[r] \in meterReading
      /\ \A r \in Rejected(x) \cap x.payload : Journaled(r, TRUE)
  <2>1. Progress(x) /\ Succeeding(x)
    BY <1>1 DEF IInv, HandlerProgress, Succeeding
  <2>2. \A i \in batch : Pending(rows[i]) /\ rows[i].reading \in x.payload
    BY <1>1 DEF IInv, ReplyAnswersBatch, ReadingsOf
  <2> QED
    BY <1>1, <2>1, <2>2 DEF Progress
<1>3. /\ verdict'.sent = {i \in batch : rows[i].reading \notin Rejected(x)}
      /\ verdict'.failed \subseteq batch \ verdict'.sent
      /\ verdict'.retry = batch \ (verdict'.sent \cup verdict'.failed)
  BY <1>1, VerdictByReading DEF IInv
<1>4. VerdictIsTrue'
  BY <1>1, <1>2, <1>3 DEF VerdictIsTrue, Journaled
<1>5. HandlerProgress'
  BY <1>1, SlotFreed DEF IInv, TypeOK, ServerTypeOK
<1>6. SentIsStored' /\ GivenUpIsJournaled'
  BY <1>1 DEF IInv, SentIsStored, GivenUpIsJournaled, Journaled
<1> QED
  BY <1>1, <1>4, <1>5, <1>6 DEF Safety, ReplyAnswersBatch

LEMMA CommitSafety ==
    ASSUME IInv, CommitSent \/ CommitRetry \/ CommitFailed \/ UploadDone
    PROVE  Safety'
<1>0. /\ pc = "commit" /\ pc' # "posted"
      /\ UNCHANGED <<meterReading, rawMeterEvent, exchange>>
  BY DEF CommitSent, CommitRetry, CommitFailed, UploadDone, ingestionVars, serverVars
<1>1. HandlerProgress' /\ ReplyAnswersBatch'
  BY <1>0 DEF IInv, HandlerProgress, Progress, Succeeding, Rejected, Journaled, ReplyAnswersBatch
<1>2. \A i \in Ids(rows) : rows[i] \in Row
  BY DEF IInv, TypeOK, ServerTypeOK, Ids
<1>3. /\ verdict \in [sent: SUBSET Ids(rows), retry: SUBSET Ids(rows),
                      failed: SUBSET Ids(rows)]
      /\ rows \in Seq(Row)
  BY DEF IInv, TypeOK, ServerTypeOK
<1>4. CASE CommitSent
  <2>1. /\ pc' = pc /\ rows' = MarkSent(rows, verdict.sent)
        /\ verdict' = [verdict EXCEPT !.sent = {}]
    BY <1>4 DEF CommitSent
  <2>2. verdict'.sent = {} /\ verdict'.retry = verdict.retry /\ verdict'.failed = verdict.failed
    BY <1>3, <2>1
  <2>3. /\ Ids(rows') = Ids(rows)
        /\ \A i \in Ids(rows) \ verdict.sent : rows'[i] = rows[i]
        /\ \A i \in Ids(rows) \cap verdict.sent : /\ rows'[i].reading = rows[i].reading
                                                /\ rows'[i].last_error = "none"
    BY <1>3, <2>1, MarkSentRows
  <2>5. VerdictIsTrue'
    BY <1>0, <1>3, <2>1, <2>2, <2>3 DEF IInv, VerdictIsTrue, Journaled
  <2>6. SentIsStored' /\ GivenUpIsJournaled'
    BY <1>0, <2>3 DEF IInv, SentIsStored, GivenUpIsJournaled, Journaled, VerdictIsTrue
  <2> QED
    BY <1>1, <2>5, <2>6 DEF Safety
<1>5. CASE CommitRetry
  <2>1. /\ pc' = pc /\ Backlog(verdict.retry, rows') /\ verdict.sent = {}
        /\ verdict' = [verdict EXCEPT !.retry = {}]
    BY <1>5 DEF CommitRetry
  <2>2. verdict'.sent = {} /\ verdict'.retry = {} /\ verdict'.failed = verdict.failed
    BY <1>3, <2>1
  <2>3. verdict.retry \in SUBSET Ids(rows)
    BY <1>3
  <2>4. \A i \in Ids(rows) \ verdict.retry : rows'[i] = rows[i]
    BY <1>3, <2>1, <2>3, BacklogRows
  <2>5. VerdictIsTrue'
    BY <1>0, <1>3, <2>1, <2>2, <2>4 DEF IInv, VerdictIsTrue, Journaled
  <2>6. SentIsStored' /\ GivenUpIsJournaled'
    BY <1>0, <2>1, <2>3, BacklogSafety DEF IInv
  <2> QED
    BY <1>1, <2>5, <2>6 DEF Safety
<1>6. CASE CommitFailed
  <2>1. /\ rows' = MarkFailed(rows, verdict.failed, "permanent")
        /\ verdict' = NoVerdict
    BY <1>6 DEF CommitFailed
  <2>2. /\ Ids(rows') = Ids(rows)
        /\ \A i \in Ids(rows) \ verdict.failed : rows'[i] = rows[i]
        /\ \A i \in Ids(rows) \cap verdict.failed : /\ rows'[i].reading = rows[i].reading
                                                  /\ rows'[i].sent = rows[i].sent
    BY <1>3, <2>1, MarkFailedRows, ErrorsAre
  <2>4. VerdictIsTrue'
    BY <2>1 DEF VerdictIsTrue, NoVerdict
  <2>5. SentIsStored' /\ GivenUpIsJournaled'
    BY <1>0, <2>2 DEF IInv, SentIsStored, GivenUpIsJournaled, Journaled, VerdictIsTrue
  <2> QED
    BY <1>1, <2>4, <2>5 DEF Safety
<1>7. CASE UploadDone
  <2>1. verdict = NoVerdict /\ verdict' = verdict /\ rows' = rows
    BY <1>7 DEF UploadDone
  <2>2. VerdictIsTrue'
    BY <2>1 DEF VerdictIsTrue, NoVerdict
  <2>3. SentIsStored' /\ GivenUpIsJournaled'
    BY <1>0, <2>1 DEF IInv, SentIsStored, GivenUpIsJournaled, Journaled
  <2> QED
    BY <1>1, <2>2, <2>3 DEF Safety
<1> QED
  BY <1>4, <1>5, <1>6, <1>7

\* The gateway dies or comes back: what it had in memory is gone.
LEMMA CrashSafety ==
    ASSUME IInv, Crash \/ Restart
    PROVE  Safety'
<1>1. /\ pc' # "posted" /\ verdict' = NoVerdict
      /\ UNCHANGED <<meterReading, rawMeterEvent, exchange, rows>>
  BY DEF Crash, Restart, ingestionVars, serverVars, IInv, VerdictIsTrue
<1>2. VerdictIsTrue'
  BY <1>1 DEF VerdictIsTrue, NoVerdict
<1> QED
  BY <1>1, <1>2 DEF Safety, IInv, HandlerProgress, Progress, Succeeding, Rejected, Journaled,
                    ReplyAnswersBatch, SentIsStored, GivenUpIsJournaled
LEMMA ServeSafety ==
    ASSUME IInv, NEW s \in Slots, Serve(s)
    PROVE  Safety'
<1>1. Handle(s) /\ UNCHANGED <<rows, pc, conn, batch, verdict>>
  BY DEF Serve, gatewayVars
<1>2. /\ meterReading \subseteq meterReading' /\ rawMeterEvent \subseteq rawMeterEvent'
      /\ \A t \in Slots \ {s} : exchange'[t] = exchange[t]
      /\ exchange[s].pc # "free" /\ exchange'[s].payload = exchange[s].payload
      /\ Progress(exchange[s])'
  BY <1>1, HandlerStep DEF HandlerStepKeeps, OnlyIn, IInv, HandlerProgress
<1>3. HandlerProgress'
  BY <1>2, JournalGrows, SlotChange DEF IInv
<1>4. ReplyAnswersBatch'
  BY <1>1, <1>2 DEF IInv, ReplyAnswersBatch, ReadingsOf
<1>5. VerdictIsTrue' /\ SentIsStored' /\ GivenUpIsJournaled'
  BY <1>1, <1>2 DEF IInv, VerdictIsTrue, SentIsStored, GivenUpIsJournaled, Journaled
<1> QED
  BY <1>3, <1>4, <1>5 DEF Safety

\* A handler that fails or vanishes, a reply that nobody waits for.
LEMMA BreakSafety ==
    ASSUME IInv, NEW s \in Slots, Break(s) \/ Forget(s)
    PROVE  Safety'
<1>1. UNCHANGED <<rows, pc, conn, batch, verdict, meterReading, rawMeterEvent>>
  BY DEF Break, Fail, Vanish, Forget, gatewayVars, serverVars
<1>2. VerdictIsTrue' /\ SentIsStored' /\ GivenUpIsJournaled'
  BY <1>1 DEF IInv, VerdictIsTrue, SentIsStored, GivenUpIsJournaled, Journaled
<1>3. exchange \in [Slots -> Exchange] /\ HandlerProgress /\ ReplyAnswersBatch
  BY DEF IInv, TypeOK, ServerTypeOK
<1>4. CASE Fail(s)
  <2>1. Live(s) /\ Reply(s, 500)
    BY <1>4 DEF Fail
  <2>2. /\ exchange'[s].pc = "done" /\ exchange'[s].code # 200
        /\ exchange'[s].todo = {} /\ exchange'[s].payload = exchange[s].payload
        /\ \A t \in Slots \ {s} : exchange'[t] = exchange[t]
    BY <1>3, <2>1, ReplyFields, StagesAndCodes DEF Replied, OnlyIn
  <2>3. HandlerProgress'
    <3>1. Progress(exchange[s])'
      BY <2>2 DEF Progress, Succeeding
    <3> QED
      BY <1>1, <1>3, <2>2, <3>1, JournalGrows, SlotChange
  <2>4. ReplyAnswersBatch'
    BY <1>1, <1>3, <2>1, <2>2 DEF ReplyAnswersBatch, ReadingsOf, Live
  <2> QED
    BY <1>2, <2>3, <2>4 DEF Safety
<1>5. CASE Vanish(s) \/ Release(s)
  <2>1. exchange' = [exchange EXCEPT ![s] = FreeSlot]
    BY <1>5 DEF Vanish, Release
  <2>2. /\ HandlerProgress' /\ exchange'[s].pc = "free"
        /\ \A t \in Slots \ {s} : exchange'[t] = exchange[t]
    BY <1>1, <1>3, <2>1, SlotFreed
  <2>3. ReplyAnswersBatch'
    BY <1>1, <1>3, <2>2 DEF ReplyAnswersBatch, ReadingsOf
  <2> QED
    BY <1>2, <2>2, <2>3 DEF Safety
<1> QED
  BY <1>4, <1>5 DEF Break, Forget

LEMMA ClockSafety ==
    ASSUME IInv, Clock \/ NewMeter
    PROVE  Safety'
<1>1. UNCHANGED <<pc, conn, batch, verdict, meterReading, rawMeterEvent, exchange>>
  BY DEF Clock, Tick, NewMeter, CreateMeter, ingestionVars, serverVars, gatewayVars
<1>2. /\ Ids(rows') = Ids(rows)
      /\ \A i \in Ids(rows) : /\ rows'[i].reading = rows[i].reading
                              /\ rows'[i].sent = rows[i].sent
                              /\ rows'[i].failed = rows[i].failed
                              /\ rows'[i].last_error = rows[i].last_error
  <2>1. CASE Clock
    <3>1. rows' = Elapse(rows)
      BY <2>1 DEF Clock
    <3>2. \A i \in Ids(rows) : rows[i] \in Row /\ rows'[i] \in Row
      BY <3>1, ElapseRows DEF IInv, TypeOK, ServerTypeOK, Ids
    <3>3. Ids(rows') = Ids(rows)
      BY <3>1, ElapseRows DEF IInv, TypeOK, ServerTypeOK
    <3>4. \A i \in Ids(rows) : rows'[i] = [rows[i] EXCEPT !.wait =
                                              IF @ > 0 THEN @ - 1 ELSE 0]
      BY <3>1 DEF Elapse
    <3> QED
      BY <3>2, <3>3, <3>4 DEF Row
  <2>2. CASE NewMeter
    BY <2>2 DEF NewMeter, gatewayVars
  <2> QED
    BY <2>1, <2>2
<1>3. HandlerProgress'
  BY <1>1 DEF IInv, HandlerProgress, Progress, Succeeding, Rejected, Journaled
<1>4. ReadingsOf(batch)' = ReadingsOf(batch)
  BY <1>1, <1>2 DEF IInv, TypeOK, ServerTypeOK, ReadingsOf
<1>5. ReplyAnswersBatch'
  BY <1>1, <1>2, <1>4 DEF IInv, TypeOK, ServerTypeOK, ReplyAnswersBatch, Pending
<1>6. VerdictIsTrue'
  BY <1>1, <1>2 DEF IInv, TypeOK, ServerTypeOK, VerdictIsTrue, Pending, Journaled
<1>7. SentIsStored' /\ GivenUpIsJournaled'
  BY <1>1, <1>2 DEF IInv, SentIsStored, GivenUpIsJournaled, Journaled
<1> QED
  BY <1>3, <1>5, <1>6, <1>7 DEF Safety

\* A reprocess request changes the status of events, not what they report.
LEMMA ReprocessSafety ==
    ASSUME IInv, RequestReprocess
    PROVE  Safety'
<1>1. /\ UNCHANGED <<rows, pc, conn, batch, verdict, meterReading, exchange>>
      /\ JournalKept
  BY ReprocessKeepsJournaled DEF RequestReprocess, Reprocess, gatewayVars
<1>2. HandlerProgress'
  <2> SUFFICES ASSUME NEW s \in Slots PROVE Progress(exchange[s])'
    BY DEF HandlerProgress
  <2> DEFINE x == exchange[s]
  <2>1. Progress(x)
    BY DEF IInv, HandlerProgress
  <2>2. Succeeding(x) => \A r \in Rejected(x) \cap x.payload : Journaled(r, TRUE)'
    BY <1>1, <2>1 DEF Progress, JournalKept
  <2> QED
    BY <1>1, <2>1, <2>2 DEF Progress, Succeeding, Rejected, Journaled
<1>3. ReplyAnswersBatch' /\ SentIsStored'
  BY <1>1 DEF IInv, ReplyAnswersBatch, ReadingsOf, SentIsStored
<1>4. VerdictIsTrue'
  <2>1. \A i \in verdict.failed : Journaled(rows[i].reading, TRUE)'
    BY <1>1 DEF IInv, VerdictIsTrue, JournalKept
  <2> QED
    BY <1>1, <2>1 DEF IInv, VerdictIsTrue, Journaled
<1>5. GivenUpIsJournaled'
  <2>1. \A i \in Ids(rows) :
          rows[i].last_error = "permanent" => Journaled(rows[i].reading, TRUE)'
    BY <1>1 DEF IInv, GivenUpIsJournaled, Journaled, JournalKept
  <2> QED
    BY <1>1, <2>1 DEF GivenUpIsJournaled, Journaled
<1> QED
  BY <1>2, <1>3, <1>4, <1>5 DEF Safety

LEMMA InvariantStep == IInv /\ [Next]_vars => IInv'
<1> SUFFICES ASSUME IInv, [Next]_vars PROVE IInv'
  OBVIOUS
<1>1. TypeOK'
  BY TypeStep DEF IInv
<1>2. CASE Next
  <2>1. Safety'
    BY <1>2, PollSafety, UploadSafety, NetworkErrorSafety, ReplyForAllSafety,
       ReplyPerReadingSafety, CommitSafety, CrashSafety, ServeSafety, BreakSafety,
       ClockSafety, ReprocessSafety DEF Next, Gateway
  <2> QED
    BY <1>1, <2>1 DEF Safety, IInv
<1>3. CASE UNCHANGED vars
  BY <1>1, <1>3 DEF vars, ingestionVars, serverVars, gatewayVars, IInv, HandlerProgress,
     Progress, Succeeding, Rejected, Journaled, ReplyAnswersBatch, ReadingsOf, VerdictIsTrue,
     SentIsStored, GivenUpIsJournaled
<1> QED
  BY <1>2, <1>3

\* The inductive invariant of gateway and endpoint together: types, the progress of
\* handlers, the reply and verdict in the sender's hands, and what rows say.
THEOREM InvariantHolds == Spec => []IInv
<1>1. Init => IInv
  BY InitType, InitSafety DEF Safety, IInv
<1> QED
  BY <1>1, InvariantStep, PTL DEF Spec

\* Whatever is lost, repeated, answered late or interrupted, for any number of
\* readings, slots and retries: a row that the gateway marks sent is stored.
THEOREM NothingSentIsLost == Spec => []SentIsStored
<1>1. IInv => SentIsStored
  BY DEF IInv
<1> QED
  BY <1>1, InvariantHolds, PTL

\* A row that the gateway gives up for an error of its own has a raw event with that
\* error, whatever operators request afterwards.
THEOREM GivenUpHasAReason == Spec => []GivenUpIsJournaled
<1>1. IInv => GivenUpIsJournaled
  BY DEF IInv
<1> QED
  BY <1>1, InvariantHolds, PTL

(***************************************************************************)
(* The ids that an upload or a commit writes are those of pending rows, by *)
(* ReplyAnswersBatch and VerdictIsTrue; so no step touches a settled row.  *)
(***************************************************************************)
LEMMA OnlyPendingWritten ==
    ASSUME NEW ids, \A i \in ids : Pending(rows[i]), Ids(rows') = Ids(rows),
           \A i \in Ids(rows) \ ids : rows'[i] = rows[i]
    PROVE  KeepsSettled
<1> SUFFICES ASSUME NEW i \in Ids(rows), ~Pending(rows[i])
             PROVE  i \in Ids(rows') /\ rows'[i] = rows[i]
  BY DEF KeepsSettled
<1> QED
  OBVIOUS

LEMMA GatewayKeepsSettled ==
    ASSUME IInv, Gateway
    PROVE  KeepsSettled
<1>0. /\ rows \in Seq(Row) /\ batch \in SUBSET Ids(rows)
      /\ verdict.sent \in SUBSET Ids(rows) /\ verdict.retry \in SUBSET Ids(rows)
  BY DEF IInv, TypeOK, ServerTypeOK
<1>1. CASE Upload
  <2> DEFINE ready == FetchReadyBatch(rows, BatchSize)
  <2>1. rows' = rows \/ Backlog(ready, rows')
    BY <1>1 DEF Upload
  <2>2. ready \in SUBSET Ids(rows) /\ \A i \in ready : Pending(rows[i])
    BY FetchedRows
  <2> HIDE DEF ready
  <2>3. CASE rows' = rows
    BY <2>3 DEF KeepsSettled
  <2>4. CASE Backlog(ready, rows')
    BY <1>0, <2>2, <2>4, BacklogRows, OnlyPendingWritten
  <2> QED
    BY <2>1, <2>3, <2>4
<1>2. CASE NetworkError \/ ReplyForAll
  <2>1. /\ \A i \in batch : Pending(rows[i])
        /\ Backlog(batch, rows') \/ rows' = MarkFailed(rows, batch, "client")
    BY <1>2 DEF NetworkError, ReplyForAll, IInv, ReplyAnswersBatch
  <2>2. CASE Backlog(batch, rows')
    BY <1>0, <2>1, <2>2, BacklogRows, OnlyPendingWritten
  <2>3. CASE rows' = MarkFailed(rows, batch, "client")
    <3>1. /\ Ids(rows') = Ids(rows)
          /\ \A i \in Ids(rows) \ batch : rows'[i] = rows[i]
      BY <1>0, <2>3, MarkFailedRows, ErrorsAre
    <3> QED
      BY <2>1, <3>1, OnlyPendingWritten
  <2> QED
    BY <2>1, <2>2, <2>3
<1>3. CASE ReplyPerReading \/ UploadDone
  BY <1>3 DEF ReplyPerReading, UploadDone, KeepsSettled
<1>4. CASE CommitSent
  <2>1. rows' = MarkSent(rows, verdict.sent) /\ \A i \in verdict.sent : Pending(rows[i])
    BY <1>4 DEF CommitSent, IInv, VerdictIsTrue
  <2>2. Ids(rows') = Ids(rows) /\ \A i \in Ids(rows) \ verdict.sent : rows'[i] = rows[i]
    BY <1>0, <2>1, MarkSentRows
  <2> QED
    BY <2>1, <2>2, OnlyPendingWritten
<1>5. CASE CommitRetry
  <2>1. Backlog(verdict.retry, rows') /\ \A i \in verdict.retry : Pending(rows[i])
    BY <1>5 DEF CommitRetry, IInv, VerdictIsTrue
  <2> QED
    BY <1>0, <2>1, BacklogRows, OnlyPendingWritten
<1>6. CASE CommitFailed
  <2>1. /\ rows' = MarkFailed(rows, verdict.failed, "permanent")
        /\ \A i \in verdict.failed : Pending(rows[i])
    BY <1>6 DEF CommitFailed, IInv, VerdictIsTrue
  <2>2. Ids(rows') = Ids(rows) /\ \A i \in Ids(rows) \ verdict.failed : rows'[i] = rows[i]
    BY <1>0, <2>1, MarkFailedRows, ErrorsAre
  <2> QED
    BY <2>1, <2>2, OnlyPendingWritten
<1> QED
  BY <1>1, <1>2, <1>3, <1>4, <1>5, <1>6 DEF Gateway

LEMMA ClockKeepsSettled ==
    ASSUME IInv, Clock
    PROVE  KeepsSettled
<1>1. rows' = Elapse(rows) /\ rows \in Seq(Row)
  BY DEF Clock, IInv, TypeOK, ServerTypeOK
<1>2. Ids(rows') = Ids(rows)
  BY <1>1, ElapseRows
<1> SUFFICES ASSUME NEW i \in Ids(rows)
             PROVE  [rows[i] EXCEPT !.wait = 0] = [rows'[i] EXCEPT !.wait = 0]
  BY <1>2 DEF KeepsSettled
<1>3. rows[i] \in Row
  BY <1>1 DEF Ids
<1>4. rows'[i] = [rows[i] EXCEPT !.wait = IF @ > 0 THEN @ - 1 ELSE 0]
  BY <1>1 DEF Elapse
<1> QED
  BY <1>3, <1>4 DEF Row

\* Once sent or given up, a row is never uploaded, retried, failed or sent again.
THEOREM SettledRowsStay == Spec => SettledForGood
<1>1. IInv /\ [Next]_vars => [KeepsSettled]_vars
  <2> SUFFICES ASSUME IInv, Next PROVE KeepsSettled
    OBVIOUS
  <2>1. CASE Poll
    <3>1. \A i \in Ids(rows) : i \in Ids(rows') /\ rows'[i] = rows[i]
      BY <2>1, PollType DEF IInv
    <3> QED
      BY <3>1 DEF KeepsSettled
  <2>2. CASE Gateway
    BY <2>2, GatewayKeepsSettled
  <2>3. CASE Clock
    BY <2>3, ClockKeepsSettled
  <2>4. CASE \/ Crash \/ Restart \/ NewMeter \/ RequestReprocess
             \/ \E s \in Slots : Serve(s) \/ Break(s) \/ Forget(s)
    <3>1. rows' = rows
      BY <2>4 DEF Crash, Restart, NewMeter, RequestReprocess, Serve, Break, Forget, gatewayVars
    <3> QED
      BY <3>1 DEF KeepsSettled
  <2> QED
    BY <2>1, <2>2, <2>3, <2>4 DEF Next
<1> QED
  BY <1>1, InvariantHolds, PTL DEF Spec, SettledForGood

(***************************************************************************)
(* Delivery implements StoreAndForward.  First, what a change of the table *)
(* does to the fate of the readings; then each action.                     *)
(***************************************************************************)
FatesAfter(table, after, S, fate) ==
    \A r \in Readings : StateIn(after, r) = IF r \in S THEN fate ELSE StateIn(table, r)

LEMMA FateOfRow ==
    ASSUME NEW table, OneRowEach(table), NEW i \in Ids(table)
    PROVE  StateIn(table, table[i].reading) =
               IF table[i].sent THEN "delivered"
               ELSE IF table[i].failed THEN "given_up" ELSE "pending"
<1>1. \A j \in Ids(table) : table[j].reading = table[i].reading => j = i
  BY DEF OneRowEach
<1>2. table[i].reading \in Buffered(table)
  BY DEF Buffered
<1> QED
  BY <1>1, <1>2 DEF StateIn

LEMMA FateOfAbsent ==
    ASSUME NEW table, NEW r, r \notin Buffered(table)
    PROVE  StateIn(table, r) = "absent"
  BY DEF StateIn, Buffered

\* Rows that are neither added nor settled.
LEMMA RowsUnsettled ==
    ASSUME NEW table, NEW after, Ids(after) = Ids(table),
           \A i \in Ids(table) : /\ after[i].reading = table[i].reading
                                 /\ after[i].sent = table[i].sent
                                 /\ after[i].failed = table[i].failed
    PROVE  /\ Buffered(after) = Buffered(table)
           /\ OneRowEach(table) => OneRowEach(after)
           /\ SettledOneWay(table) => SettledOneWay(after)
           /\ \A r : StateIn(after, r) = StateIn(table, r)
<1>1. Buffered(after) = Buffered(table)
  BY DEF Buffered
<1>2. OneRowEach(table) => OneRowEach(after)
  BY DEF OneRowEach
<1>3. SettledOneWay(table) => SettledOneWay(after)
  BY DEF SettledOneWay
<1>4. ASSUME NEW r PROVE StateIn(after, r) = StateIn(table, r)
  BY <1>1 DEF StateIn
<1> QED
  BY <1>1, <1>2, <1>3, <1>4

\* A change of the rows ids, pending before, that settles them one way.
Settles(table, after, ids, fate) ==
    /\ Ids(after) = Ids(table)
    /\ \A i \in Ids(table) \ ids : after[i] = table[i]
    /\ \A i \in ids :
         /\ Pending(table[i]) /\ after[i].reading = table[i].reading
         /\ \/ fate = "delivered" /\ after[i].sent /\ ~after[i].failed
            \/ fate = "given_up" /\ after[i].failed /\ ~after[i].sent

LEMMA RowsSettled ==
    ASSUME NEW table, NEW after, NEW ids \in SUBSET Ids(table), NEW fate,
           Settles(table, after, ids, fate), OneRowEach(table), SettledOneWay(table)
    PROVE  /\ Buffered(after) = Buffered(table)
           /\ OneRowEach(after) /\ SettledOneWay(after)
           /\ \A i \in ids : StateIn(table, table[i].reading) = "pending"
           /\ FatesAfter(table, after, {table[i].reading : i \in ids}, fate)
<1>1. /\ Ids(after) = Ids(table)
      /\ \A i \in Ids(table) : after[i].reading = table[i].reading
  BY DEF Settles
<1>2. Buffered(after) = Buffered(table)
  BY <1>1 DEF Buffered
<1>3. OneRowEach(after)
  BY <1>1 DEF OneRowEach
<1>4. SettledOneWay(after)
  BY DEF SettledOneWay, Settles, Pending
<1>5. \A i \in ids : StateIn(table, table[i].reading) = "pending"
  BY FateOfRow DEF Settles, Pending
<1>6. ASSUME NEW r \in Readings
      PROVE  StateIn(after, r) =
                 IF r \in {table[i].reading : i \in ids} THEN fate ELSE StateIn(table, r)
  <2>1. CASE r \notin Buffered(table)
    <3>1. r \notin {table[i].reading : i \in ids}
      BY <2>1 DEF Buffered
    <3> QED
      BY <1>2, <2>1, <3>1, FateOfAbsent
  <2>2. ASSUME NEW i \in Ids(table), r = table[i].reading
        PROVE  StateIn(after, r) =
                   IF r \in {table[j].reading : j \in ids} THEN fate ELSE StateIn(table, r)
    <3>1. r \in {table[j].reading : j \in ids} <=> i \in ids
      BY <2>2 DEF OneRowEach
    <3>2. StateIn(after, r) = IF after[i].sent THEN "delivered"
                              ELSE IF after[i].failed THEN "given_up" ELSE "pending"
      BY <1>1, <1>3, <2>2, FateOfRow
    <3>3. StateIn(table, r) = IF table[i].sent THEN "delivered"
                              ELSE IF table[i].failed THEN "given_up" ELSE "pending"
      BY <2>2, FateOfRow
    <3>4. CASE i \in ids
      BY <3>1, <3>2, <3>4 DEF Settles, Pending
    <3>5. CASE i \notin ids
      BY <3>1, <3>2, <3>3, <3>5 DEF Settles
    <3> QED
      BY <3>4, <3>5
  <2> QED
    BY <2>1, <2>2 DEF Buffered
<1> QED
  BY <1>2, <1>3, <1>4, <1>5, <1>6 DEF FatesAfter

\* New rows for readings that the table did not hold, one each.
Appends(table, after) ==
    LET new == Ids(after) \ Ids(table) IN
    /\ Ids(table) \subseteq Ids(after)
    /\ \A i \in Ids(table) : after[i] = table[i]
    /\ \A i \in new : /\ ~after[i].sent /\ ~after[i].failed
                      /\ after[i].reading \notin Buffered(table)
                      /\ after[i].reading \in Readings
    /\ \A i, j \in new : after[i].reading = after[j].reading => i = j

LEMMA RowsAppended ==
    ASSUME NEW table, NEW after, Appends(table, after),
           OneRowEach(table), SettledOneWay(table),
           NEW S, S = {after[i].reading : i \in Ids(after) \ Ids(table)}
    PROVE  /\ Buffered(table) \subseteq Buffered(after) /\ S \subseteq Readings
           /\ OneRowEach(after) /\ SettledOneWay(after)
           /\ \A r \in S : StateIn(table, r) = "absent"
           /\ FatesAfter(table, after, S, "pending")
<1>1. Buffered(after) = Buffered(table) \cup S /\ S \cap Buffered(table) = {}
  BY DEF Appends, Buffered
<1>2. OneRowEach(after)
  <2> SUFFICES ASSUME NEW i \in Ids(after), NEW j \in Ids(after),
                      after[i].reading = after[j].reading
               PROVE  i = j
    BY DEF OneRowEach
  <2>1. \A k \in Ids(table) : after[k].reading \in Buffered(table)
    BY DEF Appends, Buffered
  <2>2. CASE i \in Ids(table) /\ j \in Ids(table)
    BY <2>2 DEF Appends, OneRowEach
  <2>3. CASE i \notin Ids(table) /\ j \notin Ids(table)
    BY <2>3 DEF Appends
  <2> QED
    BY <2>1, <2>2, <2>3 DEF Appends
<1>3. SettledOneWay(after)
  BY DEF SettledOneWay, Appends
<1>4. \A r \in S : StateIn(table, r) = "absent"
  BY <1>1, FateOfAbsent
<1>5. ASSUME NEW r \in Readings
      PROVE  StateIn(after, r) = IF r \in S THEN "pending" ELSE StateIn(table, r)
  <2>1. ASSUME NEW i \in Ids(after) \ Ids(table), r = after[i].reading
        PROVE  StateIn(after, r) = "pending"
    BY <1>2, <2>1, FateOfRow DEF Appends
  <2>2. ASSUME NEW i \in Ids(table), r = table[i].reading
        PROVE  StateIn(after, r) = StateIn(table, r)
    <3>1. after[i] = table[i] /\ i \in Ids(after)
      BY DEF Appends
    <3>2. StateIn(table, r) = IF table[i].sent THEN "delivered"
                              ELSE IF table[i].failed THEN "given_up" ELSE "pending"
      BY <2>2, FateOfRow
    <3>3. StateIn(after, r) = IF after[i].sent THEN "delivered"
                              ELSE IF after[i].failed THEN "given_up" ELSE "pending"
      BY <1>2, <2>2, <3>1, FateOfRow
    <3> QED
      BY <3>1, <3>2, <3>3
  <2>3. CASE r \notin Buffered(after)
    BY <1>1, <2>3, FateOfAbsent
  <2>4. CASE r \in Buffered(table)
    BY <1>1, <2>2, <2>4 DEF Buffered
  <2>5. CASE r \in S
    BY <2>1, <2>5
  <2> QED
    BY <1>1, <2>3, <2>4, <2>5
<1> QED
  BY <1>1, <1>2, <1>3, <1>4, <1>5 DEF FatesAfter, Appends

\* The statements of the buffer: what each does to the fates.
LEMMA MarkSentSettles ==
    ASSUME NEW table \in Seq(Row), NEW ids \in SUBSET Ids(table),
           SettledOneWay(table), \A i \in ids : Pending(table[i]),
           NEW after, after = MarkSent(table, ids)
    PROVE  Settles(table, after, ids, "delivered")
<1>1. \A i \in Ids(table) : table[i] \in Row
  BY DEF Ids
<1>2. Ids(after) = Ids(table) /\ \A i \in Ids(table) \ ids : after[i] = table[i]
  BY MarkSentRows
<1>3. \A i \in ids : /\ after[i].reading = table[i].reading
                     /\ after[i].sent /\ ~after[i].failed
  BY <1>1 DEF MarkSent, Row, Pending
<1> QED
  BY <1>2, <1>3 DEF Settles

LEMMA MarkFailedSettles ==
    ASSUME NEW table \in Seq(Row), NEW ids \in SUBSET Ids(table), NEW error \in Errors,
           SettledOneWay(table), \A i \in ids : Pending(table[i]),
           NEW after, after = MarkFailed(table, ids, error)
    PROVE  Settles(table, after, ids, "given_up")
<1>1. \A i \in Ids(table) : table[i] \in Row
  BY DEF Ids
<1>2. Ids(after) = Ids(table) /\ \A i \in Ids(table) \ ids : after[i] = table[i]
  BY MarkFailedRows
<1>3. \A i \in ids : /\ after[i].reading = table[i].reading
                     /\ after[i].failed /\ ~after[i].sent
  BY <1>1 DEF MarkFailed, Row, Pending
<1> QED
  BY <1>2, <1>3 DEF Settles

LEMMA PollAppends ==
    ASSUME TypeOK, Poll
    PROVE  Appends(rows, rows')
<1>1. PICK n \in Nat : \E q : PollAdds(n, q)
  BY PollRows
<1>2. PICK q : PollAdds(n, q)
  BY <1>1
<1>3. /\ Ids(rows') = 1..(Len(rows) + n) /\ Ids(rows) = 1..Len(rows) /\ Len(rows) \in Nat
      /\ \A i \in Ids(rows) : rows'[i] = rows[i]
  BY <1>2 DEF PollAdds, TypeOK, ServerTypeOK, Ids
<1> DEFINE at(i) == i - Len(rows)
<1>4. ASSUME NEW i \in Ids(rows') \ Ids(rows)
      PROVE  /\ at(i) \in 1..n
             /\ rows'[i].reading = q[at(i)] /\ ~rows'[i].sent /\ ~rows'[i].failed
  <2>1. rows'[i] = NewRow(q[at(i)])
    BY <1>2 DEF PollAdds
  <2> QED
    BY <1>3, <2>1 DEF NewRow
<1>5. \A i \in 1..n : q[i] \in Readings /\ q[i] \notin Buffered(rows)
  BY <1>2, DeliveryAssumption DEF PollAdds
<1>6. \A i, j \in Ids(rows') \ Ids(rows) : rows'[i].reading = rows'[j].reading => i = j
  <2> SUFFICES ASSUME NEW i \in Ids(rows') \ Ids(rows), NEW j \in Ids(rows') \ Ids(rows),
                      rows'[i].reading = rows'[j].reading
               PROVE  i = j
    OBVIOUS
  <2>1. q[at(i)] = q[at(j)] /\ at(i) \in 1..n /\ at(j) \in 1..n
    BY <1>4
  <2>2. at(i) = at(j)
    BY <1>2, <2>1 DEF PollAdds
  <2> QED
    BY <1>3, <2>2
<1>7. Ids(rows) \subseteq Ids(rows')
  BY <1>3
<1> HIDE DEF at
<1> QED
  BY <1>3, <1>4, <1>5, <1>6, <1>7 DEF Appends

\* A retry, like the clock, settles nothing.
LEMMA BacklogUnsettled ==
    ASSUME rows \in Seq(Row), NEW ids \in SUBSET Ids(rows), Backlog(ids, rows')
    PROVE  /\ Ids(rows') = Ids(rows)
           /\ \A i \in Ids(rows) : /\ rows'[i].reading = rows[i].reading
                                   /\ rows'[i].sent = rows[i].sent
                                   /\ rows'[i].failed = rows[i].failed
<1>1. /\ Ids(rows') = Ids(rows)
      /\ \A i \in Ids(rows) \ ids : rows'[i] = rows[i]
  BY BacklogRows
<1>2. \A i \in ids : /\ rows'[i].reading = rows[i].reading
                     /\ rows'[i].sent = rows[i].sent
                     /\ rows'[i].failed = rows[i].failed
  BY BacklogRows
<1> QED
  BY <1>1, <1>2

LEMMA ElapseUnsettled ==
    ASSUME rows \in Seq(Row), rows' = Elapse(rows)
    PROVE  /\ Ids(rows') = Ids(rows)
           /\ \A i \in Ids(rows) : /\ rows'[i].reading = rows[i].reading
                                   /\ rows'[i].sent = rows[i].sent
                                   /\ rows'[i].failed = rows[i].failed
<1>1. \A i \in Ids(rows) : rows[i] \in Row
  BY DEF Ids
<1>2. \A i \in Ids(rows) : rows'[i] = [rows[i] EXCEPT !.wait =
                                          IF @ > 0 THEN @ - 1 ELSE 0]
  BY DEF Elapse
<1> QED
  BY <1>1, <1>2, ElapseRows DEF Row

\* The same changes as the abstract specification names them.
LEMMA FatesBecome ==
    ASSUME NEW S \in SUBSET Readings, NEW fate, FatesAfter(rows, rows', S, fate)
    PROVE  Abstract!Become(S, fate)
  BY DEF FatesAfter, Fates, Abstract!Become

LEMMA FatesAre ==
    ASSUME NEW S \in SUBSET Readings, NEW fate, \A r \in S : StateIn(rows, r) = fate
    PROVE  Abstract!Are(S, fate)
  BY DEF Fates, Abstract!Are

\* What every step must be, besides a step that keeps IInv.
ImplementsStep ==
    /\ OneRowEach(rows') /\ SettledOneWay(rows') /\ PostedWasBuffered'
    /\ Abstract!Next \/ UNCHANGED <<Fates, meterReading>>

LEMMA UnsettledStep ==
    ASSUME ImplementationInv, UNCHANGED meterReading, PostedWasBuffered',
           Ids(rows') = Ids(rows),
           \A i \in Ids(rows) : /\ rows'[i].reading = rows[i].reading
                                /\ rows'[i].sent = rows[i].sent
                                /\ rows'[i].failed = rows[i].failed
    PROVE  ImplementsStep
<1>1. /\ OneRowEach(rows') /\ SettledOneWay(rows')
      /\ \A r : StateIn(rows', r) = StateIn(rows, r)
  BY RowsUnsettled DEF ImplementationInv
<1>2. Fates' = Fates
  BY <1>1 DEF Fates
<1> QED
  BY <1>1, <1>2 DEF ImplementsStep

\* Readings stay buffered; so a step keeps PostedWasBuffered if the slots it changes
\* hold buffered readings.
LEMMA SlotStaysBuffered ==
    ASSUME PostedWasBuffered, NEW s \in Slots, OnlyIn(s),
           Buffered(rows) \subseteq Buffered(rows'),
           exchange'[s].payload \cup exchange'[s].todo \subseteq Buffered(rows')
    PROVE  PostedWasBuffered'
<1> SUFFICES ASSUME NEW t \in Slots, t # s
             PROVE  exchange'[t].payload \cup exchange'[t].todo \subseteq Buffered(rows')
  BY DEF PostedWasBuffered
<1>1. exchange'[t] = exchange[t]
  BY DEF OnlyIn
<1> QED
  BY <1>1 DEF PostedWasBuffered

LEMMA SlotsStayBuffered ==
    ASSUME PostedWasBuffered, UNCHANGED exchange, Buffered(rows) \subseteq Buffered(rows')
    PROVE  PostedWasBuffered'
  BY DEF PostedWasBuffered

LEMMA BufferedStays ==
    ASSUME Ids(rows') = Ids(rows),
           \A i \in Ids(rows) : rows'[i].reading = rows[i].reading
    PROVE  Buffered(rows') = Buffered(rows)
  BY DEF Buffered

\* A slot that is emptied.
LEMMA FreedStaysBuffered ==
    ASSUME ImplementationInv, NEW s \in Slots, Release(s) \/ Vanish(s),
           Buffered(rows') = Buffered(rows)
    PROVE  PostedWasBuffered'
<1>1. exchange'[s] = FreeSlot /\ OnlyIn(s)
  BY FreedFields DEF Release, Vanish, ImplementationInv, IInv, TypeOK, ServerTypeOK
<1> QED
  BY <1>1, FreeSlotFields, SlotStaysBuffered DEF ImplementationInv

\* A poll is Accept.
LEMMA PollImplements ==
    ASSUME ImplementationInv, Poll
    PROVE  ImplementsStep
<1>1. Appends(rows, rows')
  BY PollAppends DEF ImplementationInv, IInv
<1> DEFINE S == {rows'[i].reading : i \in Ids(rows') \ Ids(rows)}
<1>2. /\ Buffered(rows) \subseteq Buffered(rows') /\ S \in SUBSET Readings
      /\ OneRowEach(rows') /\ SettledOneWay(rows')
      /\ \A r \in S : StateIn(rows, r) = "absent"
      /\ FatesAfter(rows, rows', S, "pending")
  BY <1>1, RowsAppended DEF ImplementationInv
<1> HIDE DEF S
<1>3. UNCHANGED <<meterReading, exchange>>
  BY DEF Poll, ingestionVars, serverVars
<1>4. Abstract!Accept(S)
  BY <1>2, <1>3, FatesBecome, FatesAre DEF Abstract!Accept
<1>5. PostedWasBuffered'
  BY <1>2, <1>3, SlotsStayBuffered DEF ImplementationInv
<1> QED
  BY <1>2, <1>4, <1>5 DEF ImplementsStep, Abstract!Next

\* An upload changes no fate; what it posts it read from the buffer.
LEMMA UploadImplements ==
    ASSUME ImplementationInv, Upload
    PROVE  ImplementsStep
<1> DEFINE ready == FetchReadyBatch(rows, BatchSize)
<1>0. /\ rows \in Seq(Row) /\ ready \in SUBSET Ids(rows)
      /\ exchange \in [Slots -> Exchange] /\ UNCHANGED meterReading
  BY FetchedRows DEF ImplementationInv, IInv, TypeOK, ServerTypeOK, Upload, serverVars
<1>1. CASE ReadingsOf(ready) \cap Unserializable # {}
  <2>1. Backlog(ready, rows') /\ UNCHANGED exchange
    BY <1>1 DEF Upload
  <2> HIDE DEF ready
  <2>2. /\ Ids(rows') = Ids(rows)
        /\ \A i \in Ids(rows) : /\ rows'[i].reading = rows[i].reading
                                /\ rows'[i].sent = rows[i].sent
                                /\ rows'[i].failed = rows[i].failed
    BY <1>0, <2>1, BacklogUnsettled
  <2>3. PostedWasBuffered'
    BY <2>1, <2>2, BufferedStays, SlotsStayBuffered DEF ImplementationInv
  <2> QED
    BY <1>0, <2>2, <2>3, UnsettledStep
<1>2. CASE ReadingsOf(ready) \cap Unserializable = {}
  <2>1. PICK s \in Slots : Arrive(s, config.token, config.serial, ReadingsOf(ready))
    BY <1>2 DEF Upload
  <2>2. rows' = rows
    BY <1>2 DEF Upload
  <2>3. ReadingsOf(ready) \subseteq Buffered(rows)
    BY <1>0 DEF ReadingsOf, Buffered
  <2> HIDE DEF ready
  <2>4. /\ exchange'[s].payload = ReadingsOf(ready) /\ exchange'[s].todo = {}
        /\ OnlyIn(s)
    BY <1>0, <2>1, ArriveFields
  <2>5. PostedWasBuffered'
    BY <2>2, <2>3, <2>4, SlotStaysBuffered DEF ImplementationInv
  <2> QED
    BY <1>0, <2>2, <2>5, UnsettledStep
<1> QED
  BY <1>1, <1>2

\* Pending rows that a step gives up: GiveUp.
LEMMA GivingUpImplements ==
    ASSUME ImplementationInv, NEW ids \in SUBSET Ids(rows), NEW error \in Errors,
           \A i \in ids : Pending(rows[i]), rows' = MarkFailed(rows, ids, error),
           UNCHANGED meterReading, PostedWasBuffered'
    PROVE  ImplementsStep
<1> DEFINE S == {rows[i].reading : i \in ids}
<1>0. rows \in Seq(Row) /\ \A i \in Ids(rows) : rows[i].reading \in Readings
  <2>1. rows \in Seq(Row) /\ \A i \in Ids(rows) : rows[i] \in Row
    BY DEF ImplementationInv, IInv, TypeOK, ServerTypeOK, Ids
  <2> QED
    BY <2>1, DeliveryAssumption DEF Row
<1>1. Settles(rows, rows', ids, "given_up")
  BY <1>0, MarkFailedSettles DEF ImplementationInv
<1>2. /\ OneRowEach(rows') /\ SettledOneWay(rows')
      /\ \A i \in ids : StateIn(rows, rows[i].reading) = "pending"
      /\ FatesAfter(rows, rows', S, "given_up")
  BY <1>1, RowsSettled DEF ImplementationInv
<1>3. S \in SUBSET Readings /\ \A r \in S : StateIn(rows, r) = "pending"
  BY <1>0, <1>2
<1> HIDE DEF S
<1>4. Abstract!GiveUp(S)
  BY <1>2, <1>3, FatesBecome, FatesAre DEF Abstract!GiveUp
<1> QED
  BY <1>2, <1>3, <1>4 DEF ImplementsStep, Abstract!Next

\* The end of an upload gives up its batch or changes no fate.
LEMMA EndOfUploadImplements ==
    ASSUME ImplementationInv, NetworkError \/ ReplyForAll \/ ReplyPerReading
    PROVE  ImplementsStep
<1>0. /\ rows \in Seq(Row) /\ batch \in SUBSET Ids(rows)
      /\ pc = "posted" /\ conn \in Slots /\ \A i \in batch : Pending(rows[i])
      /\ UNCHANGED meterReading
  BY DEF ImplementationInv, IInv, TypeOK, ServerTypeOK, ReplyAnswersBatch, NetworkError, ReplyForAll,
         ReplyPerReading, ingestionVars, serverVars
<1>1. \/ rows' = rows \/ Backlog(batch, rows')
      \/ rows' = MarkFailed(rows, batch, "client")
  BY DEF NetworkError, ReplyForAll, ReplyPerReading
<1>2. UNCHANGED exchange \/ Release(conn)
  BY DEF NetworkError, ReplyForAll, ReplyPerReading, ingestionVars
<1>3. /\ Ids(rows') = Ids(rows)
      /\ \A i \in Ids(rows) : rows'[i].reading = rows[i].reading
  <2>1. CASE rows' = rows
    BY <2>1
  <2>2. CASE Backlog(batch, rows')
    BY <1>0, <2>2, BacklogUnsettled
  <2>3. CASE rows' = MarkFailed(rows, batch, "client")
    BY <1>0, <2>3, MarkFailedRows, ErrorsAre
  <2> QED
    BY <1>1, <2>1, <2>2, <2>3
<1>4. PostedWasBuffered'
  BY <1>0, <1>2, <1>3, BufferedStays, FreedStaysBuffered, SlotsStayBuffered
     DEF ImplementationInv
<1>5. CASE rows' = rows
  BY <1>0, <1>4, <1>5, UnsettledStep
<1>6. CASE Backlog(batch, rows')
  BY <1>0, <1>4, <1>6, BacklogUnsettled, UnsettledStep
<1>7. CASE rows' = MarkFailed(rows, batch, "client")
  BY <1>0, <1>4, <1>7, ErrorsAre, GivingUpImplements
<1> QED
  BY <1>1, <1>5, <1>6, <1>7

\* The first commit is Confirm, the second changes no fate, the third is GiveUp.
LEMMA CommitImplements ==
    ASSUME ImplementationInv, CommitSent \/ CommitRetry \/ CommitFailed \/ UploadDone
    PROVE  ImplementsStep
<1>0. /\ rows \in Seq(Row) /\ verdict.sent \in SUBSET Ids(rows)
      /\ verdict.retry \in SUBSET Ids(rows) /\ verdict.failed \in SUBSET Ids(rows)
      /\ \A i \in verdict.sent \cup verdict.retry \cup verdict.failed : Pending(rows[i])
      /\ \A i \in verdict.sent : Key[rows[i].reading] \in meterReading
  BY DEF ImplementationInv, IInv, TypeOK, ServerTypeOK, VerdictIsTrue
<1>1. UNCHANGED <<meterReading, exchange>>
  BY DEF CommitSent, CommitRetry, CommitFailed, UploadDone, ingestionVars, serverVars
<1>2. CASE CommitSent
  <2> DEFINE S == {rows[i].reading : i \in verdict.sent}
  <2>1. rows' = MarkSent(rows, verdict.sent)
    BY <1>2 DEF CommitSent
  <2>2. Settles(rows, rows', verdict.sent, "delivered")
    BY <1>0, <2>1, MarkSentSettles DEF ImplementationInv
  <2>3. /\ OneRowEach(rows') /\ SettledOneWay(rows')
        /\ Buffered(rows') = Buffered(rows)
        /\ \A i \in verdict.sent : StateIn(rows, rows[i].reading) = "pending"
        /\ FatesAfter(rows, rows', S, "delivered")
    BY <1>0, <2>2, RowsSettled DEF ImplementationInv
  <2>4. /\ S \in SUBSET Readings
        /\ \A r \in S : StateIn(rows, r) = "pending" /\ Key[r] \in meterReading
    <3>1. \A i \in Ids(rows) : rows[i] \in Row
      BY <1>0 DEF Ids
    <3> QED
      BY <1>0, <2>3, <3>1, DeliveryAssumption DEF Row
  <2> HIDE DEF S
  <2>5. Abstract!Confirm(S)
    BY <1>1, <2>3, <2>4, FatesBecome, FatesAre DEF Abstract!Confirm
  <2>6. PostedWasBuffered'
    BY <1>1, <2>3, SlotsStayBuffered DEF ImplementationInv
  <2> QED
    BY <2>3, <2>4, <2>5, <2>6 DEF ImplementsStep, Abstract!Next
<1>3. CASE CommitRetry
  <2>1. Backlog(verdict.retry, rows')
    BY <1>3 DEF CommitRetry
  <2>2. /\ Ids(rows') = Ids(rows)
        /\ \A i \in Ids(rows) : /\ rows'[i].reading = rows[i].reading
                                /\ rows'[i].sent = rows[i].sent
                                /\ rows'[i].failed = rows[i].failed
    BY <1>0, <2>1, BacklogUnsettled
  <2>3. PostedWasBuffered'
    BY <1>1, <2>2, BufferedStays, SlotsStayBuffered DEF ImplementationInv
  <2> QED
    BY <1>1, <2>2, <2>3, UnsettledStep
<1>4. CASE CommitFailed
  <2>1. rows' = MarkFailed(rows, verdict.failed, "permanent")
    BY <1>4 DEF CommitFailed
  <2>2. /\ Ids(rows') = Ids(rows)
        /\ \A i \in Ids(rows) : rows'[i].reading = rows[i].reading
    BY <1>0, <2>1, MarkFailedRows, ErrorsAre
  <2>3. PostedWasBuffered'
    BY <1>1, <2>2, BufferedStays, SlotsStayBuffered DEF ImplementationInv
  <2> QED
    BY <1>0, <1>1, <2>1, <2>3, ErrorsAre, GivingUpImplements
<1>5. CASE UploadDone
  <2>1. rows' = rows
    BY <1>5 DEF UploadDone
  <2> QED
    BY <1>1, <2>1, SlotsStayBuffered, UnsettledStep DEF ImplementationInv
<1> QED
  BY <1>2, <1>3, <1>4, <1>5

\* A chunk that a handler inserts is Transfer; its other steps change no fate and
\* store nothing.
LEMMA ServeImplements ==
    ASSUME ImplementationInv, NEW s \in Slots, Serve(s)
    PROVE  ImplementsStep
<1> DEFINE x == exchange[s]
           y == exchange'[s]
<1>0. ServerTypeOK /\ Handle(s) /\ rows' = rows
  BY ServerTypes DEF ImplementationInv, IInv, Serve, gatewayVars
<1>1. x.payload \cup x.todo \subseteq Buffered(rows)
  BY DEF ImplementationInv, PostedWasBuffered
<1>2. ASSUME y.payload \cup y.todo \subseteq x.payload \cup x.todo, OnlyIn(s)
      PROVE  PostedWasBuffered'
  BY <1>0, <1>1, <1>2, SlotStaysBuffered DEF ImplementationInv
<1>3. ASSUME NEW chunk, Chunked(x, y, chunk), OnlyIn(s)
      PROVE  ImplementsStep
  <2>1. /\ chunk \subseteq Buffered(rows)
        /\ meterReading' = meterReading \cup {Key[r] : r \in chunk}
        /\ y.payload \cup y.todo \subseteq x.payload \cup x.todo
    BY <1>1, <1>3 DEF Chunked
  <2>2. chunk \in SUBSET Readings
    BY <1>0, <1>3 DEF Chunked, ServerTypeOK, Exchange
  <2>3. \A r \in chunk : Fates[r] # "absent"
    BY <2>1, <2>2 DEF Fates, StateIn
  <2>4. Abstract!Transfer(chunk)
    BY <1>0, <2>1, <2>3 DEF Abstract!Transfer, Fates
  <2>5. PostedWasBuffered'
    BY <1>2, <1>3, <2>1
  <2> QED
    BY <1>0, <2>2, <2>4, <2>5 DEF ImplementsStep, ImplementationInv, Abstract!Next
<1>4. ASSUME y.payload \cup y.todo \subseteq x.payload \cup x.todo, OnlyIn(s),
             UNCHANGED meterReading
      PROVE  ImplementsStep
  <2>1. PostedWasBuffered'
    BY <1>2, <1>4
  <2> QED
    BY <1>0, <1>4, <2>1, UnsettledStep
<1>5. CASE Validate(s)
  BY <1>0, <1>4, <1>5, ValidateEffect DEF Sorted, Replied, serverVars
<1>6. CASE Insert(s)
  BY <1>0, <1>3, <1>4, <1>6, InsertEffect DEF Replied
<1>7. CASE Journal(s)
  BY <1>0, <1>4, <1>7, JournalEffect DEF Moved
<1>8. CASE Heartbeat(s)
  BY <1>0, <1>4, <1>8, HeartbeatEffect DEF Moved
<1>9. CASE Audit(s)
  BY <1>0, <1>4, <1>9, AuditEffect DEF Replied
<1> QED
  BY <1>0, <1>5, <1>6, <1>7, <1>8, <1>9 DEF Handle

\* Crashes, restarts, failing handlers, the clock and operators change no fate and
\* store nothing.
LEMMA OtherImplements ==
    ASSUME ImplementationInv,
           \/ Crash \/ Restart \/ Clock \/ NewMeter \/ RequestReprocess
           \/ \E s \in Slots : Break(s) \/ Forget(s)
    PROVE  ImplementsStep
<1>1. CASE Crash \/ Restart \/ NewMeter \/ RequestReprocess
  <2>1. UNCHANGED <<rows, exchange, meterReading>>
    BY <1>1 DEF Crash, Restart, NewMeter, CreateMeter, RequestReprocess, Reprocess, ingestionVars, serverVars,
                gatewayVars
  <2> QED
    BY <2>1, SlotsStayBuffered, UnsettledStep DEF ImplementationInv
<1>2. CASE Clock
  <2>1. rows' = Elapse(rows) /\ UNCHANGED <<exchange, meterReading>>
    BY <1>2 DEF Clock, Tick, ingestionVars, serverVars
  <2>2. /\ Ids(rows') = Ids(rows)
        /\ \A i \in Ids(rows) : /\ rows'[i].reading = rows[i].reading
                                /\ rows'[i].sent = rows[i].sent
                                /\ rows'[i].failed = rows[i].failed
    BY <2>1, ElapseUnsettled DEF ImplementationInv, IInv, TypeOK, ServerTypeOK
  <2>3. PostedWasBuffered'
    BY <2>1, <2>2, BufferedStays, SlotsStayBuffered DEF ImplementationInv
  <2> QED
    BY <2>1, <2>2, <2>3, UnsettledStep
<1>3. ASSUME NEW s \in Slots, Break(s) \/ Forget(s)
      PROVE  ImplementsStep
  <2>1. /\ UNCHANGED <<rows, meterReading>>
        /\ Fail(s) \/ Vanish(s) \/ (Release(s) /\ UNCHANGED <<now, serverVars>>)
    BY <1>3 DEF Break, Forget, Fail, Vanish, gatewayVars, serverVars
  <2>2. /\ OnlyIn(s)
        /\ exchange'[s] = FreeSlot \/ Replied(exchange[s], exchange'[s], 500)
    BY <2>1, EndEffect, ServerTypes DEF ImplementationInv, IInv
  <2>3. exchange'[s].payload \cup exchange'[s].todo \subseteq Buffered(rows')
    BY <2>1, <2>2, FreeSlotFields DEF Replied, ImplementationInv, PostedWasBuffered
  <2>4. PostedWasBuffered'
    BY <2>1, <2>2, <2>3, SlotStaysBuffered DEF ImplementationInv
  <2> QED
    BY <2>1, <2>4, UnsettledStep
<1> QED
  BY <1>1, <1>2, <1>3

LEMMA ImplementationStep ==
    ImplementationInv /\ [Next]_vars
        => ImplementationInv' /\ [Abstract!Next]_<<Fates, meterReading>>
<1> SUFFICES ASSUME ImplementationInv, [Next]_vars
             PROVE  ImplementationInv' /\ [Abstract!Next]_<<Fates, meterReading>>
  OBVIOUS
<1>1. IInv'
  BY InvariantStep DEF ImplementationInv
<1>2. CASE Next
  <2>1. ImplementsStep
    BY <1>2, PollImplements, UploadImplements, EndOfUploadImplements, CommitImplements,
       ServeImplements, OtherImplements DEF Next, Gateway
  <2> QED
    BY <1>1, <2>1 DEF ImplementsStep, ImplementationInv
<1>3. CASE UNCHANGED vars
  <2>1. UNCHANGED <<rows, exchange, meterReading>>
    BY <1>3 DEF vars, ingestionVars, serverVars, gatewayVars
  <2>2. ImplementsStep
    BY <2>1, SlotsStayBuffered, UnsettledStep DEF ImplementationInv
  <2> QED
    BY <1>1, <2>2 DEF ImplementsStep, ImplementationInv
<1> QED
  BY <1>2, <1>3

LEMMA ImplementationInit == Init => ImplementationInv /\ Abstract!Init
<1> SUFFICES ASSUME Init PROVE ImplementationInv /\ Abstract!Init
  OBVIOUS
<1>1. IInv
  BY InitType, InitSafety DEF Safety, IInv
<1>2. Ids(rows) = {} /\ Buffered(rows) = {} /\ meterReading = {}
  BY DEF Init, IngestionInit, Ids, Buffered
<1>3. PostedWasBuffered
  BY FreeSlotFields DEF Init, IngestionInit, PostedWasBuffered
<1>4. OneRowEach(rows) /\ SettledOneWay(rows)
  BY <1>2 DEF OneRowEach, SettledOneWay
<1>5. Abstract!Init
  BY <1>2, FateOfAbsent DEF Abstract!Init, Fates
<1> QED
  BY <1>1, <1>3, <1>4, <1>5 DEF ImplementationInv

\* The gateway's buffer, its sender and the endpoint together implement store and
\* forward: whatever is lost, repeated or interrupted, a reading is delivered or given
\* up at most once and for good, it is reported delivered only when it is stored, and
\* the API stores nothing that was not buffered and forgets nothing.
THEOREM StoreAndForwardImplemented == Spec => ImplementsStoreAndForward
<1>1. Spec => []ImplementationInv
  BY ImplementationInit, ImplementationStep, PTL DEF Spec
<1> QED
  BY <1>1, ImplementationInit, ImplementationStep, PTL
     DEF Spec, ImplementsStoreAndForward, Abstract!Spec
=============================================================================
