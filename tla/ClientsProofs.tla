----------------------------- MODULE ClientsProofs -----------------------------
(***************************************************************************)
(* The safety of the ingestion endpoint under arbitrary clients, for any   *)
(* number of requests in flight, readings, gateways and crashes: its       *)
(* replies are true, its audit log counts nothing twice, and what it       *)
(* stores was acceptable.  The inductive invariant is IInv                 *)
(* (IngestionClients).                                                     *)
(***************************************************************************)
EXTENDS IngestionClients, IngestionProofs

(***************************************************************************)
(* Types.                                                                  *)
(***************************************************************************)
LEMMA InitType == Init => ServerTypeOK
<1> SUFFICES ASSUME Init PROVE ServerTypeOK
  OBVIOUS
<1>1. /\ now \in 0..Horizon /\ meters \subseteq MeterIds
      /\ lastSeenAt \in [Gateways -> Never..Horizon]
  BY IngestionAssumption DEF Init, IngestionInit, Never
<1>2. exchange \in [Slots -> Exchange]
  BY FreeSlotType DEF Init, IngestionInit
<1> QED
  BY <1>1, <1>2 DEF Init, IngestionInit, ServerTypeOK

LEMMA PostType ==
    ASSUME ServerTypeOK, NEW s \in Slots, Post(s)
    PROVE  ServerTypeOK' /\ UNCHANGED <<now, serverVars>>
<1>1. PICK c \in Credentials, payload \in SUBSET Readings :
        Arrive(s, c.token, c.serial, payload)
  BY DEF Post
<1>2. c.token \in Tokens /\ c.serial \in Serials
  BY ClientsAssumption
<1>3. exchange' \in [Slots -> Exchange]
  BY <1>1, <1>2, ArriveType DEF ServerTypeOK
<1> QED
  BY <1>3 DEF Post, serverVars, ServerTypeOK

LEMMA ServerStepType ==
    ASSUME ServerTypeOK, NEW s \in Slots, Server(s)
    PROVE  ServerTypeOK'
<1>1. CASE Handle(s)
  BY <1>1, HandleType DEF ServerTypeOK
<1>2. CASE Fail(s)
  <2>1. exchange' \in [Slots -> Exchange]
    BY <1>2, ReplyType, StagesAndCodes DEF Fail, ServerTypeOK
  <2> QED
    BY <1>2, <2>1 DEF Fail, serverVars, ServerTypeOK
<1>3. CASE Vanish(s) \/ Take(s)
  <2>1. exchange' \in [Slots -> Exchange]
    BY <1>3, ReleaseType DEF Take, ServerTypeOK
  <2> QED
    BY <1>3, <2>1 DEF Vanish, Take, serverVars, ServerTypeOK
<1> QED
  BY <1>1, <1>2, <1>3 DEF Server

LEMMA EnvironmentType ==
    ASSUME ServerTypeOK, Environment
    PROVE  ServerTypeOK'
<1>1. CASE \E m \in MeterIds : CreateMeter(m)
  BY <1>1 DEF CreateMeter, ServerTypeOK
<1>2. CASE Reprocess
  BY <1>2, ReprocessType DEF Reprocess, ServerTypeOK
<1>3. CASE Tick
  BY <1>3, IngestionAssumption DEF Tick, serverVars, ServerTypeOK
<1> QED
  BY <1>1, <1>2, <1>3 DEF Environment

LEMMA TypeStep == ServerTypeOK /\ [Next]_clientVars => ServerTypeOK'
<1> SUFFICES ASSUME ServerTypeOK, [Next]_clientVars PROVE ServerTypeOK'
  OBVIOUS
<1>1. CASE Next
  BY <1>1, PostType, ServerStepType, EnvironmentType DEF Next
<1>2. CASE UNCHANGED clientVars
  BY <1>2 DEF clientVars, ingestionVars, serverVars, ServerTypeOK
<1> QED
  BY <1>1, <1>2

\* Every table of the endpoint and every exchange keeps its type.
THEOREM TypeCorrect == Spec => []ServerTypeOK
  BY InitType, TypeStep, PTL DEF Spec

(***************************************************************************)
(* Counting: each step keeps every count backed by readings of its own.    *)
(***************************************************************************)
LEMMA StoredFinite ==
    ASSUME ServerTypeOK
    PROVE  \A S \in SUBSET meterReading : IsFiniteSet(S) /\ Cardinality(S) \in Nat
<1>1. IsFiniteSet(Keys)
  BY IngestionAssumption, KeysFinite DEF Keys
<1> QED
  BY <1>1, FS_Subset, FS_CardinalityType DEF ServerTypeOK

\* counted backs the counts of the handlers and of the audit log.
Backs(counted) ==
    /\ \A s \in Slots : Cardinality(counted[s]) = exchange[s].inserted
    /\ \A s, t \in Slots : s # t => counted[s] \cap counted[t] = {}
    /\ audited <= Cardinality(meterReading \ UNION {counted[s] : s \in Slots})

LEMMA Backed == InsertedOnce <=> \E counted \in [Slots -> SUBSET meterReading] : Backs(counted)
  BY DEF InsertedOnce, Backs

LEMMA DisjointUnion ==
    ASSUME NEW S, IsFiniteSet(S), NEW T, IsFiniteSet(T), S \cap T = {}
    PROVE  Cardinality(S \cup T) = Cardinality(S) + Cardinality(T)
<1>1. Cardinality(S \cap T) = 0
  BY FS_EmptySet
<1>2. Cardinality(S) \in Nat /\ Cardinality(T) \in Nat
  BY FS_CardinalityType
<1>3. Cardinality(S \cup T) = Cardinality(S) + Cardinality(T) - Cardinality(S \cap T)
  BY FS_Union
<1> QED
  BY <1>1, <1>2, <1>3

\* A handler that ends keeps no count, and leaves at most its count to the audit log.
LEMMA EndedCounts ==
    ASSUME ServerTypeOK, ServerTypeOK', InsertedOnce, NEW s \in Slots, OnlyIn(s),
           UNCHANGED meterReading, exchange'[s].inserted = 0,
           audited' <= audited + exchange[s].inserted
    PROVE  InsertedOnce'
<1>1. PICK counted \in [Slots -> SUBSET meterReading] : Backs(counted)
  BY Backed
<1> DEFINE after == [counted EXCEPT ![s] = {}]
           rest == meterReading \ UNION {counted[t] : t \in Slots}
<1>2. after \in [Slots -> SUBSET meterReading']
  OBVIOUS
<1>3. \A t \in Slots : Cardinality(after[t]) = exchange'[t].inserted
  <2>1. Cardinality(after[s]) = exchange'[s].inserted
    BY FS_EmptySet
  <2>2. \A t \in Slots \ {s} : after[t] = counted[t] /\ exchange'[t] = exchange[t]
    BY DEF OnlyIn
  <2> QED
    BY <1>1, <2>1, <2>2 DEF Backs
<1>4. \A t, u \in Slots : t # u => after[t] \cap after[u] = {}
  BY <1>1 DEF Backs
<1>5. meterReading' \ UNION {after[t] : t \in Slots} = rest \cup counted[s]
  <2>1. ASSUME NEW k \in counted[s], NEW t \in Slots PROVE k \notin after[t]
    <3>1. CASE t = s
      BY <3>1
    <3>2. CASE t # s
      BY <1>1, <3>2 DEF Backs
    <3> QED
      BY <3>1, <3>2
  <2>2. \A k : (\E t \in Slots : k \in counted[t])
                   <=> (k \in counted[s] \/ \E t \in Slots : k \in after[t])
    OBVIOUS
  <2> QED
    BY <2>1, <2>2
<1>6. Cardinality(rest \cup counted[s]) = Cardinality(rest) + Cardinality(counted[s])
  <2>1. rest \cap counted[s] = {}
    OBVIOUS
  <2>2. IsFiniteSet(rest) /\ IsFiniteSet(counted[s])
    <3>1. rest \in SUBSET meterReading /\ counted[s] \in SUBSET meterReading
      OBVIOUS
    <3> HIDE DEF rest
    <3> QED
      BY <3>1, StoredFinite
  <2> HIDE DEF rest
  <2> QED
    BY <2>1, <2>2, DisjointUnion
<1>7. audited' <= Cardinality(meterReading' \ UNION {after[t] : t \in Slots})
  <2>1. audited <= Cardinality(rest) /\ Cardinality(counted[s]) = exchange[s].inserted
    BY <1>1 DEF Backs
  <2>2. /\ audited \in Nat /\ audited' \in Nat
        /\ Cardinality(rest) \in Nat /\ Cardinality(counted[s]) \in Nat
    <3>1. rest \in SUBSET meterReading /\ counted[s] \in SUBSET meterReading
      OBVIOUS
    <3> HIDE DEF rest
    <3> QED
      BY <3>1, StoredFinite DEF ServerTypeOK
  <2>3. Cardinality(meterReading' \ UNION {after[t] : t \in Slots})
            = Cardinality(rest) + Cardinality(counted[s])
    BY <1>5, <1>6, Zenon
  <2> DEFINE total == Cardinality(meterReading' \ UNION {after[t] : t \in Slots})
             others == Cardinality(rest)
             own == Cardinality(counted[s])
  <2>4. /\ total = others + own /\ audited <= others /\ own = exchange[s].inserted
        /\ audited \in Nat /\ audited' \in Nat /\ others \in Nat /\ own \in Nat
    BY <2>1, <2>2, <2>3
  <2> HIDE DEF total, others, own
  <2>5. audited' <= total
    BY <2>4
  <2> QED
    BY <2>5 DEF total
<1> HIDE DEF after
<1> QED
  BY <1>2, <1>3, <1>4, <1>7 DEF InsertedOnce

\* A chunk counts only the entries it adds.
LEMMA ChunkCounts ==
    ASSUME ServerTypeOK, ServerTypeOK', InsertedOnce, NEW s \in Slots, OnlyIn(s), NEW chunk,
           Chunked(exchange[s], exchange'[s], chunk), UNCHANGED audited
    PROVE  InsertedOnce'
<1>1. PICK counted \in [Slots -> SUBSET meterReading] : Backs(counted)
  BY Backed
<1> DEFINE new == {Key[r] : r \in chunk} \ meterReading
           after == [counted EXCEPT ![s] = counted[s] \cup new]
<1>2. meterReading' = meterReading \cup new /\ new \cap meterReading = {}
  BY DEF Chunked
<1>3. exchange'[s].inserted = exchange[s].inserted + Cardinality(new)
  BY DEF Chunked
<1> HIDE DEF new
<1>4. after \in [Slots -> SUBSET meterReading']
  BY <1>2
<1>5. IsFiniteSet(new) /\ IsFiniteSet(counted[s])
  <2>1. new \in SUBSET meterReading'
    BY <1>2
  <2>2. \A S \in SUBSET meterReading' : IsFiniteSet(S)
    <3>1. IsFiniteSet(Keys)
      BY IngestionAssumption, KeysFinite DEF Keys
    <3> QED
      BY <3>1, FS_Subset DEF ServerTypeOK
  <2> QED
    BY <2>1, <2>2, StoredFinite
<1>6. Cardinality(counted[s] \cup new) = Cardinality(counted[s]) + Cardinality(new)
  <2>1. counted[s] \cap new = {}
    BY <1>2
  <2> QED
    BY <1>5, <2>1, DisjointUnion
<1>7. \A t \in Slots : Cardinality(after[t]) = exchange'[t].inserted
  <2>1. Cardinality(after[s]) = exchange'[s].inserted
    BY <1>1, <1>3, <1>6 DEF Backs
  <2>2. \A t \in Slots \ {s} : after[t] = counted[t] /\ exchange'[t] = exchange[t]
    BY DEF OnlyIn
  <2> QED
    BY <1>1, <2>1, <2>2 DEF Backs
<1>8. \A t, u \in Slots : t # u => after[t] \cap after[u] = {}
  BY <1>1, <1>2 DEF Backs
<1>9. meterReading' \ UNION {after[t] : t \in Slots}
          = meterReading \ UNION {counted[t] : t \in Slots}
  <2>1. \A k : (\E t \in Slots : k \in after[t])
                   <=> (k \in new \/ \E t \in Slots : k \in counted[t])
    OBVIOUS
  <2> QED
    BY <1>2, <2>1
<1>10. audited' <= Cardinality(meterReading' \ UNION {after[t] : t \in Slots})
  BY <1>1, <1>9 DEF Backs
<1> HIDE DEF after
<1> QED
  BY <1>4, <1>7, <1>8, <1>10 DEF InsertedOnce

\* A step that changes no count.
LEMMA SameCounts ==
    ASSUME InsertedOnce, UNCHANGED <<meterReading, audited>>,
           \A s \in Slots : exchange'[s].inserted = exchange[s].inserted
    PROVE  InsertedOnce'
  BY DEF InsertedOnce

(***************************************************************************)
(* Progress of handlers, and what is stored.                               *)
(***************************************************************************)
\* Tables only grow, time only passes, and a journaled reading stays journaled.
Grows ==
    /\ meterReading \subseteq meterReading' /\ meters \subseteq meters' /\ now <= now'
    /\ JournalKept

\* An exchange that a step leaves alone keeps its progress.
LEMMA ProgressStays ==
    ASSUME ServerTypeOK, ServerTypeOK', Grows, NEW t \in Slots, Progress(exchange[t]),
           exchange'[t] = exchange[t]
    PROVE  Progress(exchange[t])'
<1>1. \A r \in exchange[t].todo : Timestamp[r] \in Int
  BY IngestionAssumption DEF ServerTypeOK, Exchange
<1>2. now \in Int /\ now' \in Int /\ MaxFuture \in Nat
  BY IngestionAssumption DEF ServerTypeOK
<1>3. \A r \in exchange[t].todo :
        Timestamp[r] <= now + MaxFuture => Timestamp[r] <= now' + MaxFuture
  BY <1>1, <1>2 DEF Grows
<1> DEFINE x == exchange[t]
<1>4. Succeeding(x) => /\ \A r \in Accepted(x) : Journaled(r, FALSE)'
                       /\ \A r \in Rejected(x) : Journaled(r, TRUE)'
  BY DEF Grows, JournalKept, Progress
<1> QED
  BY <1>3, <1>4 DEF Progress, Succeeding, Accepted, Rejected, Journaled, Grows

LEMMA SlotProgress ==
    ASSUME ServerTypeOK, ServerTypeOK', HandlerProgress, Grows, NEW s \in Slots, OnlyIn(s),
           Progress(exchange[s])'
    PROVE  HandlerProgress'
<1> SUFFICES ASSUME NEW t \in Slots, t # s PROVE Progress(exchange[t])'
  BY DEF HandlerProgress
<1> QED
  BY ProgressStays DEF HandlerProgress, OnlyIn

\* What is stored stays acceptable while nothing more is stored.
LEMMA StoredStays ==
    ASSUME ServerTypeOK, ServerTypeOK', StoredWasAcceptable, Grows, UNCHANGED meterReading
    PROVE  StoredWasAcceptable'
<1> SUFFICES ASSUME NEW k \in meterReading
             PROVE  \E r \in Readings : /\ Key[r] = k /\ Meter[r] \in meters'
                                        /\ Timestamp[r] <= now' + MaxFuture
  BY DEF StoredWasAcceptable
<1>1. PICK r \in Readings : /\ Key[r] = k /\ Meter[r] \in meters
                            /\ Timestamp[r] <= now + MaxFuture
  BY DEF StoredWasAcceptable
<1>2. Timestamp[r] \in Int /\ now \in Int /\ now' \in Int /\ MaxFuture \in Nat
  BY IngestionAssumption DEF ServerTypeOK
<1>3. Timestamp[r] <= now' + MaxFuture
  BY <1>1, <1>2 DEF Grows
<1> QED
  BY <1>1, <1>3 DEF Grows

\* A chunk of readings that were acceptable when the handler looked.
LEMMA ChunkAcceptable ==
    ASSUME ServerTypeOK, StoredWasAcceptable, NEW s \in Slots, Progress(exchange[s]),
           NEW chunk, Chunked(exchange[s], exchange'[s], chunk), UNCHANGED <<now, meters>>
    PROVE  StoredWasAcceptable'
<1>1. chunk \subseteq Readings
  BY DEF Chunked, ServerTypeOK, Exchange
<1>2. \A r \in chunk : Meter[r] \in meters /\ Timestamp[r] <= now + MaxFuture
  BY DEF Chunked, Progress
<1>3. meterReading' = meterReading \cup {Key[r] : r \in chunk}
  BY DEF Chunked
<1> QED
  BY <1>1, <1>2, <1>3 DEF StoredWasAcceptable

(***************************************************************************)
(* The steps, action by action: each preserves HandlerProgress,            *)
(* InsertedOnce and StoredWasAcceptable.                                   *)
(***************************************************************************)
Safe == HandlerProgress /\ InsertedOnce /\ StoredWasAcceptable

\* An exchange with nothing to insert that has not reached the insert is in order.
LEMMA EarlyProgress ==
    ASSUME NEW x, x.todo = {},
           x.pc \in {"free", "arrived"} \/ (x.pc = "done" /\ x.code # 200)
    PROVE  Progress(x)
  BY DEF Progress, Succeeding

\* A step that keeps the rest of the server, given the progress and counts of s.
LEMMA TablesKept ==
    ASSUME ServerTypeOK, ServerTypeOK', Safe, NEW s \in Slots, OnlyIn(s), Grows,
           UNCHANGED meterReading, Progress(exchange[s])', InsertedOnce'
    PROVE  Safe'
  BY SlotProgress, StoredStays DEF Safe

LEMMA UnchangedGrows ==
    ASSUME ServerTypeOK, ServerTypeOK', UNCHANGED <<now, meters, meterReading, rawMeterEvent>>
    PROVE  Grows
<1>1. now <= now'
  BY DEF ServerTypeOK
<1> QED
  BY <1>1, JournalGrows DEF Grows

\* An exchange that ends without a success, the audit log unchanged.
LEMMA EndSafe ==
    ASSUME ServerTypeOK, ServerTypeOK', Safe, NEW s \in Slots, OnlyIn(s),
           UNCHANGED <<now, meters, meterReading, rawMeterEvent, audited>>,
           exchange'[s].inserted = 0, exchange'[s].todo = {},
           \/ exchange'[s].pc \in {"free", "arrived"}
           \/ exchange'[s].pc = "done" /\ exchange'[s].code # 200
    PROVE  Safe'
<1>1. Grows
  BY UnchangedGrows
<1>2. Progress(exchange[s])'
  BY DEF Progress, Succeeding
<1>3. audited' <= audited + exchange[s].inserted
  BY DEF ServerTypeOK, Exchange
<1>4. InsertedOnce'
  BY <1>3, EndedCounts DEF Safe
<1> QED
  BY <1>1, <1>2, <1>4, TablesKept

LEMMA PostSafe ==
    ASSUME ServerTypeOK, ServerTypeOK', Safe, NEW s \in Slots, Post(s)
    PROVE  Safe'
<1>1. PICK c \in Credentials, payload \in SUBSET Readings :
        Arrive(s, c.token, c.serial, payload)
  BY DEF Post
<1>2. /\ exchange'[s].pc = "arrived" /\ exchange'[s].todo = {}
      /\ exchange'[s].inserted = 0 /\ OnlyIn(s)
  BY <1>1, ArriveFields DEF ServerTypeOK
<1> QED
  BY <1>2, EndSafe DEF Post, serverVars

LEMMA ValidateSafe ==
    ASSUME ServerTypeOK, ServerTypeOK', Safe, NEW s \in Slots, Validate(s)
    PROVE  Safe'
<1> DEFINE x == exchange[s]
           y == exchange'[s]
<1>1. OnlyIn(s) /\ UNCHANGED <<now, meters, meterReading, rawMeterEvent, audited>>
  BY ValidateEffect DEF serverVars
<1>2. CASE Sorted(x, y)
  <2>1. Grows
    BY <1>1, UnchangedGrows
  <2>2. \A r \in y.todo : Timestamp[r] <= now' + MaxFuture /\ Meter[r] \in meters'
    BY <1>1, <1>2 DEF Sorted, InWindow
  <2>3. Accepted(y) = y.todo
    BY <1>2 DEF Sorted, Accepted
  <2>4. ~Succeeding(y) /\ (y.pc # "insert" => y.todo = {})
    BY <1>2 DEF Sorted, Succeeding
  <2>5. Progress(exchange[s])'
    BY <2>2, <2>3, <2>4 DEF Progress, Succeeding, Accepted, Rejected
  <2>6. \A t \in Slots : exchange'[t].inserted = exchange[t].inserted
    BY <1>1, <1>2 DEF Sorted, OnlyIn
  <2>7. InsertedOnce'
    BY <1>1, <2>6, SameCounts DEF Safe
  <2> QED
    BY <1>1, <2>1, <2>5, <2>7, TablesKept
<1>3. CASE \E code \in Codes \ {200} : Replied(x, y, code)
  <2>1. y.pc = "done" /\ y.code # 200 /\ y.todo = {} /\ y.inserted = 0
    BY <1>3 DEF Replied
  <2> QED
    BY <1>1, <2>1, EndSafe
<1> QED
  BY <1>2, <1>3, ValidateEffect

LEMMA InsertSafe ==
    ASSUME ServerTypeOK, ServerTypeOK', Safe, NEW s \in Slots, Insert(s)
    PROVE  Safe'
<1> DEFINE x == exchange[s]
           y == exchange'[s]
<1>1. /\ x.pc = "insert" /\ OnlyIn(s) /\ UNCHANGED <<now, meters, rawMeterEvent, audited>>
  BY InsertEffect
<1>2. ASSUME NEW chunk, Chunked(x, y, chunk) PROVE Safe'
  <2>1. Progress(x)
    BY DEF Safe, HandlerProgress
  <2>2. meterReading' = meterReading \cup {Key[r] : r \in chunk}
    BY <1>2 DEF Chunked
  <2>3. Grows
    <3>1. now <= now'
      BY <1>1 DEF ServerTypeOK
    <3> QED
      BY <1>1, <2>2, <3>1, JournalGrows DEF Grows
  <2>4. ~Succeeding(y)
    BY <1>2 DEF Chunked, Succeeding
  <2>5. \A r \in Accepted(y) \ y.todo : Key[r] \in meterReading'
    <3> SUFFICES ASSUME NEW r \in Accepted(y) \ y.todo PROVE Key[r] \in meterReading'
      OBVIOUS
    <3>1. r \in Accepted(x)
      BY <1>2 DEF Chunked, Accepted
    <3>2. CASE r \in x.todo
      BY <1>2, <2>2, <3>2 DEF Chunked
    <3>3. CASE r \notin x.todo
      BY <1>1, <2>1, <2>2, <3>1, <3>3 DEF Progress
    <3> QED
      BY <3>2, <3>3
  <2>6. \A r \in y.todo : Meter[r] \in meters' /\ Timestamp[r] <= now' + MaxFuture
    BY <1>1, <1>2, <2>1 DEF Chunked, Progress
  <2>7. y.pc # "insert" => y.todo = {}
    BY <1>2 DEF Chunked
  <2>8. Progress(exchange[s])'
    BY <2>4, <2>5, <2>6, <2>7 DEF Progress, Succeeding, Accepted, Rejected
  <2>9. InsertedOnce'
    BY <1>1, <1>2, ChunkCounts DEF Safe
  <2>10. StoredWasAcceptable'
    BY <1>1, <1>2, <2>1, ChunkAcceptable DEF Safe
  <2> QED
    BY <1>1, <2>3, <2>8, <2>9, <2>10, SlotProgress DEF Safe
<1>3. CASE Replied(x, y, 500) /\ UNCHANGED meterReading
  <2>1. y.pc = "done" /\ y.code # 200 /\ y.todo = {} /\ y.inserted = 0
    BY <1>3 DEF Replied
  <2> QED
    BY <1>1, <1>3, <2>1, EndSafe
<1> QED
  BY <1>2, <1>3, InsertEffect

LEMMA JournalSafe ==
    ASSUME ServerTypeOK, ServerTypeOK', Safe, NEW s \in Slots, Journal(s)
    PROVE  Safe'
<1> DEFINE x == exchange[s]
           y == exchange'[s]
<1>1. /\ x.pc = "journal" /\ y.pc \in {"heartbeat", "audit"} /\ Moved(x, y) /\ OnlyIn(s)
      /\ UNCHANGED <<now, meters, meterReading, audited>>
      /\ rawMeterEvent \subseteq rawMeterEvent'
      /\ \A r \in Accepted(x) : Journaled(r, FALSE)'
      /\ \A r \in Rejected(x) : Journaled(r, TRUE)'
  BY JournalEffect DEF Accepted
<1>2. Grows
  <2>1. now <= now'
    BY <1>1 DEF ServerTypeOK
  <2> QED
    BY <1>1, <2>1, JournalGrows DEF Grows
<1>3. Progress(x)
  BY DEF Safe, HandlerProgress
<1>4. /\ y.todo = {} /\ Accepted(y) = Accepted(x) /\ Rejected(y) = Rejected(x)
  BY <1>1, <1>3 DEF Moved, Progress, Accepted
<1>5. \A r \in Accepted(y) : Key[r] \in meterReading'
  BY <1>1, <1>3, <1>4 DEF Progress, Moved
<1>6. \A r \in Accepted(y) : Journaled(r, FALSE)'
  BY <1>1, <1>4
<1>7. \A r \in Rejected(y) : Journaled(r, TRUE)'
  BY <1>1, <1>4
<1>8. Progress(exchange[s])'
  BY <1>4, <1>5, <1>6, <1>7 DEF Progress, Succeeding, Accepted, Rejected, Journaled
<1>9. \A t \in Slots : exchange'[t].inserted = exchange[t].inserted
  BY <1>1 DEF Moved, OnlyIn
<1>10. InsertedOnce'
  BY <1>1, <1>9, SameCounts DEF Safe
<1> QED
  BY <1>1, <1>2, <1>8, <1>10, TablesKept

LEMMA HeartbeatSafe ==
    ASSUME ServerTypeOK, ServerTypeOK', Safe, NEW s \in Slots, Heartbeat(s)
    PROVE  Safe'
<1> DEFINE x == exchange[s]
           y == exchange'[s]
<1>1. /\ x.pc = "heartbeat" /\ y.pc = "audit" /\ Moved(x, y) /\ OnlyIn(s)
      /\ UNCHANGED <<now, meters, meterReading, rawMeterEvent, audited>>
  BY HeartbeatEffect
<1>2. Grows
  BY <1>1, UnchangedGrows
<1>3. Progress(x) /\ Succeeding(x)
  BY <1>1 DEF Safe, HandlerProgress, Succeeding
<1>4. y.todo = x.todo /\ Accepted(y) = Accepted(x) /\ Rejected(y) = Rejected(x)
  BY <1>1 DEF Moved, Accepted
<1>5. Progress(exchange[s])'
  BY <1>1, <1>2, <1>3, <1>4 DEF Progress, Succeeding, Accepted, Rejected, Journaled
<1>6. \A t \in Slots : exchange'[t].inserted = exchange[t].inserted
  BY <1>1 DEF Moved, OnlyIn
<1>7. InsertedOnce'
  BY <1>1, <1>6, SameCounts DEF Safe
<1> QED
  BY <1>1, <1>2, <1>5, <1>7, TablesKept

LEMMA AuditSafe ==
    ASSUME ServerTypeOK, ServerTypeOK', Safe, NEW s \in Slots, Audit(s)
    PROVE  Safe'
<1> DEFINE x == exchange[s]
           y == exchange'[s]
<1>1. /\ x.pc = "audit" /\ Replied(x, y, 200) /\ OnlyIn(s)
      /\ audited' = audited + x.inserted
      /\ UNCHANGED <<now, meters, meterReading, rawMeterEvent>>
  BY AuditEffect
<1>2. Grows
  BY <1>1, UnchangedGrows
<1>3. Progress(x) /\ Succeeding(x)
  BY <1>1 DEF Safe, HandlerProgress, Succeeding
<1>4. y.todo = {} /\ Accepted(y) = Accepted(x) /\ Rejected(y) = Rejected(x)
  BY <1>1 DEF Replied, Accepted
<1>5. x.todo = {}
  BY <1>1, <1>3 DEF Progress
<1>6. Progress(exchange[s])'
  BY <1>1, <1>3, <1>4, <1>5 DEF Progress, Succeeding, Accepted, Rejected, Journaled
<1>7. audited' <= audited + x.inserted /\ y.inserted = 0
  BY <1>1 DEF Replied, ServerTypeOK, Exchange
<1>8. InsertedOnce'
  BY <1>1, <1>7, EndedCounts DEF Safe
<1> QED
  BY <1>1, <1>2, <1>6, <1>8, TablesKept

\* A handler that fails, a request that is lost, a reply that has been read.
LEMMA EndingSafe ==
    ASSUME ServerTypeOK, ServerTypeOK', Safe, NEW s \in Slots, Fail(s) \/ Vanish(s) \/ Take(s)
    PROVE  Safe'
<1>1. /\ OnlyIn(s) /\ UNCHANGED <<now, serverVars>>
      /\ exchange'[s] = FreeSlot \/ Replied(exchange[s], exchange'[s], 500)
  BY EndEffect DEF Take
<1>2. /\ exchange'[s].inserted = 0 /\ exchange'[s].todo = {}
      /\ \/ exchange'[s].pc \in {"free", "arrived"}
         \/ exchange'[s].pc = "done" /\ exchange'[s].code # 200
  BY <1>1, FreeSlotFields DEF Replied
<1> QED
  BY <1>1, <1>2, EndSafe DEF serverVars

LEMMA EnvironmentSafe ==
    ASSUME ServerTypeOK, ServerTypeOK', Safe, Environment
    PROVE  Safe'
<1>1. UNCHANGED <<exchange, meterReading, audited>> /\ Grows
  <2>1. CASE \E m \in MeterIds : CreateMeter(m)
    BY <2>1, JournalGrows DEF CreateMeter, Grows, ServerTypeOK
  <2>2. CASE Reprocess
    BY <2>2, ReprocessKeepsJournaled DEF Reprocess, Grows, ServerTypeOK
  <2>3. CASE Tick
    BY <2>3, JournalGrows DEF Tick, serverVars, Grows, ServerTypeOK
  <2> QED
    BY <2>1, <2>2, <2>3 DEF Environment
<1>2. HandlerProgress'
  BY <1>1, ProgressStays DEF Safe, HandlerProgress
<1>3. InsertedOnce'
  BY <1>1, SameCounts DEF Safe
<1>4. StoredWasAcceptable'
  BY <1>1, StoredStays DEF Safe
<1> QED
  BY <1>2, <1>3, <1>4 DEF Safe

(***************************************************************************)
(* The invariant and what follows from it.                                 *)
(***************************************************************************)
LEMMA InitSafe == Init => IInv
<1> SUFFICES ASSUME Init PROVE IInv
  OBVIOUS
<1>1. /\ meterReading = {} /\ audited = 0
      /\ \A s \in Slots : exchange[s] = FreeSlot
  BY DEF Init, IngestionInit
<1>2. HandlerProgress
  BY <1>1, FreeSlotFields, EarlyProgress DEF HandlerProgress
<1>3. StoredWasAcceptable
  BY <1>1 DEF StoredWasAcceptable
<1>4. InsertedOnce
  <2> DEFINE none == [s \in Slots |-> {}]
  <2>1. none \in [Slots -> SUBSET meterReading]
    OBVIOUS
  <2>2. \A s \in Slots : Cardinality(none[s]) = exchange[s].inserted
    BY <1>1, FreeSlotFields, FS_EmptySet
  <2>3. \A s, t \in Slots : s # t => none[s] \cap none[t] = {}
    OBVIOUS
  <2>4. audited <= Cardinality(meterReading \ UNION {none[s] : s \in Slots})
    <3>1. meterReading \ UNION {none[s] : s \in Slots} = {}
      BY <1>1
    <3>2. Cardinality({}) = 0
      BY FS_EmptySet
    <3> HIDE DEF none
    <3> QED
      BY <1>1, <3>1, <3>2
  <2> HIDE DEF none
  <2> QED
    BY <2>1, <2>2, <2>3, <2>4 DEF InsertedOnce
<1> QED
  BY <1>2, <1>3, <1>4, InitType DEF IInv

LEMMA StepSafe == IInv /\ [Next]_clientVars => IInv'
<1> SUFFICES ASSUME IInv, [Next]_clientVars PROVE IInv'
  OBVIOUS
<1>1. ServerTypeOK /\ ServerTypeOK' /\ Safe
  BY TypeStep DEF IInv, Safe
<1>2. ASSUME NEW s \in Slots, Post(s) PROVE Safe'
  BY <1>1, <1>2, PostSafe
<1>3. ASSUME NEW s \in Slots, Server(s) PROVE Safe'
  BY <1>1, <1>3, ValidateSafe, InsertSafe, JournalSafe, HeartbeatSafe, AuditSafe, EndingSafe
     DEF Server, Handle
<1>4. ASSUME Environment PROVE Safe'
  BY <1>1, <1>4, EnvironmentSafe
<1>5. ASSUME UNCHANGED clientVars PROVE Safe'
  <2>1. UNCHANGED <<exchange, meterReading, audited>> /\ Grows
    BY <1>1, <1>5, UnchangedGrows DEF clientVars, ingestionVars, serverVars
  <2>2. HandlerProgress'
    BY <1>1, <2>1, ProgressStays DEF Safe, HandlerProgress
  <2>3. InsertedOnce' /\ StoredWasAcceptable'
    BY <1>1, <2>1, SameCounts, StoredStays DEF Safe
  <2> QED
    BY <2>2, <2>3 DEF Safe
<1>6. Safe'
  BY <1>2, <1>3, <1>4, <1>5 DEF Next
<1> QED
  BY <1>1, <1>6 DEF IInv, Safe

\* The inductive invariant of the endpoint holds in every reachable state.
THEOREM InvariantHolds == Spec => []IInv
  BY InitSafe, StepSafe, PTL DEF Spec

\* A 200 reply tells the truth (the handler's last lines, route.ts), whatever other
\* handlers, registrations, reprocessing and crashes ran beside it.
THEOREM RepliesAreTrue == Spec => []ReplyIsTrue
<1>1. IInv => ReplyIsTrue
  <2> SUFFICES ASSUME IInv, NEW s \in Slots, exchange[s].pc = "done", exchange[s].code = 200
               PROVE  /\ \A r \in Accepted(exchange[s]) :
                           Key[r] \in meterReading /\ Journaled(r, FALSE)
                      /\ \A r \in Rejected(exchange[s]) : Journaled(r, TRUE)
    BY DEF ReplyIsTrue
  <2> QED
    BY DEF IInv, HandlerProgress, Progress, Succeeding, Accepted, Rejected, Journaled
<1> QED
  BY <1>1, InvariantHolds, PTL

\* createMany(skipDuplicates) over the unique index and the audit entry after it count
\* no stored reading twice, however requests race and repeat.
THEOREM NothingCountedTwice == Spec => []InsertedOnce
<1>1. IInv => InsertedOnce
  BY DEF IInv
<1> QED
  BY <1>1, InvariantHolds, PTL

\* What the handler checked before it waited for the database still holds of what it
\* then stores: a registered meter, and no timestamp ahead of the window.
THEOREM StoredIsAcceptable == Spec => []StoredWasAcceptable
<1>1. IInv => StoredWasAcceptable
  BY DEF IInv
<1> QED
  BY <1>1, InvariantHolds, PTL
=============================================================================
