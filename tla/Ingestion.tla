------------------------------ MODULE Ingestion ------------------------------
(***************************************************************************)
(* The API's ingestion endpoint, POST /api/v1/ingestion/readings           *)
(* (apps/api/src/modules/ingestion/route.ts), and the rows it writes.      *)
(*                                                                         *)
(* The handler runs no transaction: every await between two database calls *)
(* is a point where other handlers run and where this one can stop.  One   *)
(* exchange (a request with the handler that serves it and the reply) lives *)
(* in a slot; the number of slots bounds the handlers in flight.           *)
(***************************************************************************)
EXTENDS Integers, FiniteSets

CONSTANTS
    Readings,       \* normalized readings (what one row of a payload says)
    Key,            \* Key[r]: the unique index entry (meter, timestamp, value)
    Meter,          \* Meter[r]: the external id of the meter of r
    Timestamp,      \* Timestamp[r]: when r was taken, in ticks
    Overflow,       \* readings whose value does not fit Decimal(18, 6)
    Gateways,       \* registered gateways (each with its token and serial)
    Slots,          \* bound: exchanges in flight
    MaxBatch,       \* MAX_INGESTION_BATCH_SIZE
    InsertChunk,    \* INGESTION_INSERT_CHUNK_SIZE
    MaxAge,         \* MAX_INGESTION_AGE_DAYS, in ticks
    MaxFuture,      \* MAX_INGESTION_FUTURE_MINUTES, in ticks
    MaxReprocess,   \* bound: raw events waiting in reprocess_requested
    Horizon,        \* bound: the clock stops here (every verdict is final by then)
    InitialMeters,  \* external ids of the meters that exist at the start
    NoGateway,      \* gatewayId = null, and an omitted gateway_serial
    UnknownSerial,  \* a gateway_serial that no gateway has
    ApiKey,         \* credentials: a valid API key
    BadToken        \* credentials: a token no gateway has

Keys == {Key[r] : r \in Readings}
MeterIds == {Meter[r] : r \in Readings}
Tokens == Gateways \cup {ApiKey, BadToken}
Serials == Gateways \cup {NoGateway, UnknownSerial}
Never == -1

ASSUME IngestionAssumption ==
    /\ IsFiniteSet(Readings)
    /\ DOMAIN Key = Readings /\ DOMAIN Meter = Readings
    /\ Timestamp \in [Readings -> Int]
    /\ Overflow \subseteq Readings
    /\ {NoGateway, UnknownSerial, ApiKey, BadToken} \cap Gateways = {}
    /\ MaxBatch \in Nat \ {0} /\ InsertChunk \in Nat \ {0}
    /\ MaxReprocess \in Nat
    /\ MaxAge \in Nat /\ MaxFuture \in Nat /\ Horizon \in Nat
    /\ InitialMeters \subseteq MeterIds

VARIABLES
    now,            \* wall clock
    meters,         \* external ids of the tenant's meters
    meterReading,   \* meter_readings, by unique index entry
    rawMeterEvent,  \* raw_meter_events: <<reading, processing_status, has errorJson>>
    lastSeenAt,     \* gateways.last_seen_at
    audited,        \* sum of payload.inserted over the ingestion audit entries
    exchange        \* slot -> exchange

serverVars == <<meters, meterReading, rawMeterEvent, lastSeenAt, audited>>
ingestionVars == <<now, serverVars, exchange>>

Stages == {"free", "arrived", "insert", "journal", "heartbeat", "audit", "done"}
Codes == {0, 200, 400, 401, 404, 500}
Statuses == {"accepted", "rejected", "reprocess_requested"}
Exchange == [pc: Stages, token: Tokens, serial: Serials,
             payload: SUBSET Readings, at: 0..Horizon, todo: SUBSET Readings,
             unknown: SUBSET Readings, outside: SUBSET Readings,
             inserted: Nat, code: Codes]
FreeSlot == [pc |-> "free", token |-> BadToken, serial |-> NoGateway,
             payload |-> {}, at |-> 0, todo |-> {}, unknown |-> {}, outside |-> {},
             inserted |-> 0, code |-> 0]

Live(s) == exchange[s].pc \notin {"free", "done"}
Rejected(x) == x.unknown \cup x.outside

\* gatewayId: the gateway of the token, else the one the payload's serial names.
GatewayId(x) == IF x.token \in Gateways THEN x.token
                ELSE IF x.serial \in Gateways THEN x.serial ELSE NoGateway

(***************************************************************************)
(* The client's request reaches the server.                                *)
(***************************************************************************)
Arrive(s, token, serial, payload) ==
    /\ exchange[s].pc = "free"
    /\ exchange' = [exchange EXCEPT ![s] =
           [FreeSlot EXCEPT !.pc = "arrived", !.token = token,
                            !.serial = serial, !.payload = payload]]

\* A reply ends the handler and its locals; only a 200 reply lists errors.
Reply(s, code) ==
    exchange' = [exchange EXCEPT ![s] =
        [FreeSlot EXCEPT !.pc = "done", !.code = code, !.payload = exchange[s].payload,
            !.unknown = IF code = 200 THEN exchange[s].unknown ELSE {},
            !.outside = IF code = 200 THEN exchange[s].outside ELSE {}]]

\* Variant of the next definition: only the past is bounded.
InWindowPast(r, t) == Timestamp[r] >= t - MaxAge

InWindow(r, t) == Timestamp[r] >= t - MaxAge /\ Timestamp[r] <= t + MaxFuture

\* The whole request is refused: credentials, then payload, then serial.
Refusal(x) ==
    IF x.token = BadToken THEN 401
    ELSE IF Cardinality(x.payload) \notin 1..MaxBatch THEN 400
    ELSE IF x.token \in Gateways /\ x.serial \notin {x.token, NoGateway} THEN 400
    ELSE IF x.token = ApiKey /\ x.serial = UnknownSerial THEN 404
    ELSE 0

\* Sort the readings: unknown meters first, then the timestamp window.
Classified(x) ==
    LET unknown == {r \in x.payload : Meter[r] \notin meters}
        outside == {r \in x.payload \ unknown : ~InWindow(r, now)}
        accepted == x.payload \ (unknown \cup outside)
    IN  [x EXCEPT !.pc = IF accepted = {} THEN "journal" ELSE "insert", !.at = now,
                  !.todo = accepted, !.unknown = unknown, !.outside = outside]

Validate(s) ==
    /\ exchange[s].pc = "arrived"
    /\ LET x == exchange[s] IN
       IF Refusal(x) # 0 THEN Reply(s, Refusal(x))
       ELSE exchange' = [exchange EXCEPT ![s] = Classified(x)]
    /\ UNCHANGED <<now, serverVars>>

\* Variant of the next action: the rows of the statement are counted, not those
\* that it inserted.
InsertCountingChunk(s) ==
    LET x == exchange[s] IN
    /\ x.pc = "insert"
    /\ Cardinality(x.todo) <= InsertChunk
    /\ meterReading' = meterReading \cup {Key[r] : r \in x.todo}
    /\ exchange' = [exchange EXCEPT ![s] =
           [x EXCEPT !.todo = {}, !.inserted = Cardinality(x.todo), !.pc = "journal"]]
    /\ UNCHANGED <<now, meters, rawMeterEvent, lastSeenAt, audited>>

\* One chunk of createMany(skipDuplicates): only new index entries are inserted
\* and counted; a value out of range fails the statement and the handler.
Insert(s) ==
    LET x == exchange[s] IN
    /\ x.pc = "insert"
    /\ \E chunk \in SUBSET x.todo :
         LET new == {Key[r] : r \in chunk} \ meterReading
             rest == x.todo \ chunk
         IN
         /\ chunk # {}
         /\ Cardinality(chunk) <= InsertChunk
         /\ rest # {} => Cardinality(chunk) = InsertChunk
         /\ IF chunk \cap Overflow # {}
            THEN Reply(s, 500) /\ UNCHANGED meterReading
            ELSE /\ meterReading' = meterReading \cup new
                 /\ exchange' = [exchange EXCEPT ![s] =
                        [x EXCEPT !.todo = rest, !.inserted = @ + Cardinality(new),
                                  !.pc = IF rest = {} THEN "journal" ELSE "insert"]]
    /\ UNCHANGED <<now, meters, rawMeterEvent, lastSeenAt, audited>>

\* Variant of the next action: only accepted readings are journaled.
JournalAccepted(s) ==
    LET x == exchange[s] IN
    /\ x.pc = "journal"
    /\ rawMeterEvent' = rawMeterEvent
           \cup ((x.payload \ Rejected(x)) \X {"accepted"} \X {FALSE})
    /\ exchange' = [exchange EXCEPT ![s].pc =
           IF GatewayId(x) = NoGateway THEN "audit" ELSE "heartbeat"]
    /\ UNCHANGED <<now, meters, meterReading, lastSeenAt, audited>>

\* rawMeterEvent.createMany; a payload fits one chunk (MaxBatch = 1000 = chunk).
Journal(s) ==
    LET x == exchange[s] IN
    /\ x.pc = "journal"
    /\ rawMeterEvent' = rawMeterEvent
           \cup ((x.payload \ Rejected(x)) \X {"accepted"} \X {FALSE})
           \cup (Rejected(x) \X {"rejected"} \X {TRUE})
    /\ exchange' = [exchange EXCEPT ![s].pc =
           IF GatewayId(x) = NoGateway THEN "audit" ELSE "heartbeat"]
    /\ UNCHANGED <<now, meters, meterReading, lastSeenAt, audited>>

\* lastSeenAt is the time the request was read, however late this write is.
Heartbeat(s) ==
    LET x == exchange[s] IN
    /\ x.pc = "heartbeat"
    /\ lastSeenAt' = [lastSeenAt EXCEPT ![GatewayId(x)] = x.at]
    /\ exchange' = [exchange EXCEPT ![s].pc = "audit"]
    /\ UNCHANGED <<now, meters, meterReading, rawMeterEvent, audited>>

Audit(s) ==
    /\ exchange[s].pc = "audit"
    /\ audited' = audited + exchange[s].inserted
    /\ Reply(s, 200)
    /\ UNCHANGED <<now, meters, meterReading, rawMeterEvent, lastSeenAt>>

\* A database call of the handler throws: the error handler answers 500 and what
\* the handler has already written stays.
Fail(s) ==
    /\ Live(s)
    /\ Reply(s, 500)
    /\ UNCHANGED <<now, serverVars>>

\* The request is lost, or the API process dies while it serves it.
Vanish(s) ==
    /\ Live(s)
    /\ exchange' = [exchange EXCEPT ![s] = FreeSlot]
    /\ UNCHANGED <<now, serverVars>>

\* The reply has been read, or nobody waits for it any more.
Release(s) ==
    /\ exchange[s].pc = "done"
    /\ exchange' = [exchange EXCEPT ![s] = FreeSlot]

\* POST /api/v1/meters registers a meter.
CreateMeter(m) ==
    /\ m \in MeterIds \ meters
    /\ meters' = meters \cup {m}
    /\ UNCHANGED <<now, meterReading, rawMeterEvent, lastSeenAt, audited, exchange>>

\* POST .../raw-events/reprocess: events become reprocess_requested (here one at a
\* time; the port called afterwards does nothing) and keep their errorJson.  The
\* reading may have further events of the old status that the request did not select.
Reprocess ==
    /\ Cardinality({e \in rawMeterEvent : e[2] = "reprocess_requested"}) < MaxReprocess
    /\ \E e \in rawMeterEvent : \E others \in {{}, {e}} :
         rawMeterEvent' = (rawMeterEvent \ {e}) \cup others
                              \cup {<<e[1], "reprocess_requested", e[3]>>}
    /\ UNCHANGED <<now, meters, meterReading, lastSeenAt, audited, exchange>>

Tick ==
    /\ now < Horizon
    /\ now' = now + 1
    /\ UNCHANGED <<serverVars, exchange>>

IngestionInit ==
    /\ now = 0
    /\ meters = InitialMeters
    /\ meterReading = {}
    /\ rawMeterEvent = {}
    /\ lastSeenAt = [g \in Gateways |-> Never]
    /\ audited = 0
    /\ exchange = [s \in Slots |-> FreeSlot]

Handle(s) == Validate(s) \/ Insert(s) \/ Journal(s) \/ Heartbeat(s) \/ Audit(s)

-----------------------------------------------------------------------------
\* The variables of the server have their types.
ServerTypeOK ==
    /\ now \in 0..Horizon
    /\ meters \subseteq MeterIds
    /\ meterReading \subseteq Keys
    /\ rawMeterEvent \subseteq Readings \X Statuses \X BOOLEAN
    /\ lastSeenAt \in [Gateways -> Never..Horizon]
    /\ audited \in Nat
    /\ exchange \in [Slots -> Exchange]

\* raw_meter_events has an event of r that carries an error, or one that does not.
\* Its processing_status may have changed since.
Journaled(r, error) == \E status \in Statuses : <<r, status, error>> \in rawMeterEvent

\* A handler that only has to answer 200, or has.
Succeeding(x) == x.pc \in {"heartbeat", "audit"} \/ (x.pc = "done" /\ x.code = 200)
=============================================================================
