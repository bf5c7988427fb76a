--------------------------- MODULE IngestionClients ---------------------------
(***************************************************************************)
(* The ingestion endpoint under arbitrary clients: gateways and holders of *)
(* API keys post overlapping payloads at the same time and repeat them,    *)
(* operators register meters and request reprocessing, database calls fail *)
(* and the process dies between any two of a handler's steps.              *)
(***************************************************************************)
EXTENDS Ingestion

CONSTANTS
    Credentials,    \* the [token, serial] that clients send
    MaxRequests     \* bound: requests posted

ASSUME ClientsAssumption ==
    /\ Credentials \subseteq [token: Tokens, serial: Serials]
    /\ MaxRequests \in Nat

VARIABLE posted     \* requests posted so far
clientVars == <<ingestionVars, posted>>

Post(s) ==
    /\ posted < MaxRequests
    /\ posted' = posted + 1
    /\ \E c \in Credentials, payload \in SUBSET Readings :
         Arrive(s, c.token, c.serial, payload)
    /\ UNCHANGED <<now, serverVars>>

Take(s) == Release(s) /\ UNCHANGED <<now, serverVars>>

Server(s) == (Handle(s) \/ Fail(s) \/ Vanish(s) \/ Take(s)) /\ UNCHANGED posted
Environment ==
    /\ (\E m \in MeterIds : CreateMeter(m)) \/ Reprocess \/ Tick
    /\ UNCHANGED posted

Init == IngestionInit /\ posted = 0
Next == (\E s \in Slots : Post(s) \/ Server(s)) \/ Environment

Spec == Init /\ [][Next]_clientVars

-----------------------------------------------------------------------------
Accepted(x) == x.payload \ Rejected(x)

\* A 200 reply tells the truth, whatever ran beside its handler: the readings it
\* does not list as errors are stored and journaled, those it lists are journaled
\* with their error, also after an operator has asked for their reprocessing.
ReplyIsTrue ==
    \A s \in Slots : LET x == exchange[s] IN
        x.pc = "done" /\ x.code = 200 =>
            /\ \A r \in Accepted(x) :
                 Key[r] \in meterReading /\ Journaled(r, FALSE)
            /\ \A r \in Rejected(x) : Journaled(r, TRUE)

\* No stored reading is counted as inserted twice, by two requests that race for
\* it or by a request and its repetition: each handler's count is backed by stored
\* readings of its own, and the audit log's total by others still.
InsertedOnce ==
    \E counted \in [Slots -> SUBSET meterReading] :
        /\ \A s \in Slots : Cardinality(counted[s]) = exchange[s].inserted
        /\ \A s, t \in Slots : s # t => counted[s] \cap counted[t] = {}
        /\ audited <= Cardinality(meterReading \ UNION {counted[s] : s \in Slots})

\* What is stored belongs to a registered meter and was not ahead of the window.
StoredWasAcceptable ==
    \A k \in meterReading : \E r \in Readings :
        /\ Key[r] = k /\ Meter[r] \in meters
        /\ Timestamp[r] <= now + MaxFuture

\* What a handler has made true of its own request so far, and of the readings it is
\* about to insert: they were acceptable when it looked, and are still.
Progress(x) ==
    /\ x.pc # "insert" => x.todo = {}
    /\ x.pc \in {"insert", "journal"} \/ Succeeding(x) =>
         \A r \in Accepted(x) \ x.todo : Key[r] \in meterReading
    /\ Succeeding(x) =>
         /\ \A r \in Accepted(x) : Journaled(r, FALSE)
         /\ \A r \in Rejected(x) : Journaled(r, TRUE)
    /\ \A r \in x.todo : Meter[r] \in meters /\ Timestamp[r] <= now + MaxFuture
HandlerProgress == \A s \in Slots : Progress(exchange[s])

\* The inductive invariant behind the safety properties.
IInv ==
    /\ ServerTypeOK
    /\ HandlerProgress
    /\ InsertedOnce
    /\ StoredWasAcceptable

\* docs/ingestion-flow.md: "Every normalized reading is written to
\* raw_meter_events".  Stated for the moments when no handler is running.
EveryReadingIsJournaled ==
    (\A s \in Slots : ~Live(s)) =>
        \A k \in meterReading : \E e \in rawMeterEvent : Key[e[1]] = k
=============================================================================
