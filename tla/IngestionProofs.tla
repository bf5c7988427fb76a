---------------------------- MODULE IngestionProofs ----------------------------
(***************************************************************************)
(* What a step of the ingestion endpoint does to its exchange and to the   *)
(* tables, for any readings, gateways and slots.  DeliveryProofs and       *)
(* ClientsProofs build on it.                                              *)
(***************************************************************************)
EXTENDS Ingestion, FiniteSetTheorems, TLAPS

LEMMA StagesAndCodes ==
    /\ \A c \in {"free", "arrived", "insert", "journal", "heartbeat", "audit", "done"} :
          c \in Stages
    /\ \A c \in {0, 200, 400, 401, 404, 500} : c \in Codes
  BY DEF Stages, Codes

LEMMA FreeSlotType == FreeSlot \in Exchange
<1>1. BadToken \in Tokens /\ NoGateway \in Serials /\ 0 \in 0..Horizon
  BY IngestionAssumption DEF Tokens, Serials
<1> QED
  BY <1>1, StagesAndCodes DEF FreeSlot, Exchange

\* The shapes in which exchanges change.
LEMMA ArrivedType ==
    ASSUME NEW x \in Exchange, NEW stage \in Stages, NEW token \in Tokens,
           NEW serial \in Serials, NEW payload \in SUBSET Readings
    PROVE  [x EXCEPT !.pc = stage, !.token = token, !.serial = serial,
                     !.payload = payload] \in Exchange
  BY DEF Exchange

LEMMA RepliedType ==
    ASSUME NEW x \in Exchange, NEW stage \in Stages, NEW code \in Codes,
           NEW payload \in SUBSET Readings, NEW unknown \in SUBSET Readings,
           NEW outside \in SUBSET Readings
    PROVE  [x EXCEPT !.pc = stage, !.code = code, !.payload = payload,
                     !.unknown = unknown, !.outside = outside] \in Exchange
  BY DEF Exchange

LEMMA ClassifiedType ==
    ASSUME NEW x \in Exchange, NEW stage \in Stages, NEW at \in 0..Horizon,
           NEW todo \in SUBSET Readings, NEW unknown \in SUBSET Readings,
           NEW outside \in SUBSET Readings
    PROVE  [x EXCEPT !.pc = stage, !.at = at, !.todo = todo,
                     !.unknown = unknown, !.outside = outside] \in Exchange
  BY DEF Exchange

LEMMA InsertedType ==
    ASSUME NEW x \in Exchange, NEW todo \in SUBSET Readings, NEW inserted \in Nat,
           NEW stage \in Stages
    PROVE  [x EXCEPT !.todo = todo, !.inserted = inserted, !.pc = stage] \in Exchange
  BY DEF Exchange

LEMMA StageType ==
    ASSUME NEW x \in Exchange, NEW stage \in Stages
    PROVE  [x EXCEPT !.pc = stage] \in Exchange
  BY DEF Exchange

LEMMA SlotUpdate ==
    ASSUME exchange \in [Slots -> Exchange], NEW s \in Slots, NEW y \in Exchange
    PROVE  [exchange EXCEPT ![s] = y] \in [Slots -> Exchange]
  OBVIOUS

LEMMA ArriveType ==
    ASSUME exchange \in [Slots -> Exchange], NEW s \in Slots, NEW token \in Tokens,
           NEW serial \in Serials, NEW payload \in SUBSET Readings,
           Arrive(s, token, serial, payload)
    PROVE  exchange' \in [Slots -> Exchange]
<1>1. [FreeSlot EXCEPT !.pc = "arrived", !.token = token, !.serial = serial,
                       !.payload = payload] \in Exchange
  BY ArrivedType, StagesAndCodes, FreeSlotType, Zenon
<1> QED
  BY <1>1, SlotUpdate, Zenon DEF Arrive

LEMMA ReplyType ==
    ASSUME exchange \in [Slots -> Exchange], NEW s \in Slots,
           NEW code \in Codes, Reply(s, code)
    PROVE  exchange' \in [Slots -> Exchange]
<1> DEFINE listed(S) == IF code = 200 THEN S ELSE {}
<1>1. /\ exchange[s].payload \in SUBSET Readings
      /\ listed(exchange[s].unknown) \in SUBSET Readings
      /\ listed(exchange[s].outside) \in SUBSET Readings
  BY DEF Exchange
<1>2. [FreeSlot EXCEPT !.pc = "done", !.code = code, !.payload = exchange[s].payload,
            !.unknown = listed(exchange[s].unknown),
            !.outside = listed(exchange[s].outside)] \in Exchange
  <2> HIDE DEF listed
  <2> QED
    BY <1>1, RepliedType, StagesAndCodes, FreeSlotType, Zenon
<1> QED
  BY <1>2, SlotUpdate, Zenon DEF Reply

LEMMA StageStepType ==
    ASSUME exchange \in [Slots -> Exchange], NEW s \in Slots, NEW stage \in Stages,
           exchange' = [exchange EXCEPT ![s].pc = stage]
    PROVE  exchange' \in [Slots -> Exchange]
<1>1. [exchange[s] EXCEPT !.pc = stage] \in Exchange
  BY StageType, Zenon
<1>2. exchange' = [exchange EXCEPT ![s] = [exchange[s] EXCEPT !.pc = stage]]
  OBVIOUS
<1> QED
  BY <1>1, <1>2, SlotUpdate, Zenon

LEMMA ReleaseType ==
    ASSUME exchange \in [Slots -> Exchange], NEW s, Release(s) \/ Vanish(s)
    PROVE  exchange' \in [Slots -> Exchange]
  BY FreeSlotType DEF Release, Vanish

LEMMA SubsetsFinite == \A S \in SUBSET Readings : IsFiniteSet(S)
  BY IngestionAssumption, FS_Subset

LEMMA KeysFinite ==
    ASSUME NEW S, IsFiniteSet(S)
    PROVE  IsFiniteSet({Key[r] : r \in S})
<1> DEFINE T == {Key[r] : r \in S}
           f == [r \in S |-> Key[r]]
<1>1. f \in Surjection(S, T)
  BY DEF Surjection
<1> QED
  BY <1>1, FS_Surjection, Zenon

\* A reprocess request keeps the journal's type, and every reading journaled as it is.
LEMMA ReprocessType ==
    ASSUME ServerTypeOK, Reprocess
    PROVE  rawMeterEvent' \subseteq Readings \X Statuses \X BOOLEAN
<1>1. PICK e \in rawMeterEvent : \E others \in {{}, {e}} :
        rawMeterEvent' = (rawMeterEvent \ {e}) \cup others
                             \cup {<<e[1], "reprocess_requested", e[3]>>}
  BY DEF Reprocess
<1>2. <<e[1], "reprocess_requested", e[3]>> \in Readings \X Statuses \X BOOLEAN
  BY DEF ServerTypeOK, Statuses
<1> QED
  BY <1>1, <1>2 DEF ServerTypeOK

JournalKept == \A r, error : Journaled(r, error) => Journaled(r, error)'

LEMMA JournalGrows ==
    ASSUME rawMeterEvent \subseteq rawMeterEvent'
    PROVE  JournalKept
  BY DEF Journaled, JournalKept

LEMMA ReprocessKeepsJournaled ==
    ASSUME Reprocess
    PROVE  JournalKept
<1>1. PICK e \in rawMeterEvent : \E others \in {{}, {e}} :
        rawMeterEvent' = (rawMeterEvent \ {e}) \cup others
                             \cup {<<e[1], "reprocess_requested", e[3]>>}
  BY DEF Reprocess
<1> SUFFICES ASSUME NEW r, NEW error, Journaled(r, error)
             PROVE  Journaled(r, error)'
  BY DEF JournalKept
<1>2. PICK status \in Statuses : <<r, status, error>> \in rawMeterEvent
  BY DEF Journaled
<1>3. CASE <<r, status, error>> = e
  <2>1. <<r, "reprocess_requested", error>> \in rawMeterEvent'
    BY <1>1, <1>3
  <2> QED
    BY <2>1 DEF Journaled, Statuses
<1>4. CASE <<r, status, error>> # e
  BY <1>1, <1>2, <1>4 DEF Journaled
<1> QED
  BY <1>3, <1>4

\* Every step of a handler keeps the server's variables in their types.
LEMMA HandleType ==
    ASSUME ServerTypeOK, NEW s \in Slots, Handle(s)
    PROVE  /\ now' = now /\ meters' = meters
           /\ meterReading' \subseteq Keys
           /\ rawMeterEvent' \subseteq Readings \X Statuses \X BOOLEAN
           /\ lastSeenAt' \in [Gateways -> Never..Horizon]
           /\ audited' \in Nat
           /\ exchange' \in [Slots -> Exchange]
<1> DEFINE x == exchange[s]
<1>0. x \in Exchange
  BY DEF ServerTypeOK
<1>1. CASE Validate(s)
  <2>1. CASE Refusal(x) # 0
    <3>1. Refusal(x) \in Codes
      BY DEF Refusal, Codes
    <3>2. Reply(s, Refusal(x))
      BY <1>1, <2>1 DEF Validate
    <3> QED
      BY <1>1, <3>1, <3>2, ReplyType DEF Validate, serverVars, ServerTypeOK
  <2>2. CASE Refusal(x) = 0
    <3> DEFINE unknown == {r \in x.payload : Meter[r] \notin meters}
               outside == {r \in x.payload \ unknown : ~InWindow(r, now)}
               accepted == x.payload \ (unknown \cup outside)
               stage == IF accepted = {} THEN "journal" ELSE "insert"
    <3>1. /\ unknown \in SUBSET Readings /\ outside \in SUBSET Readings
          /\ accepted \in SUBSET Readings
      BY <1>0 DEF Exchange
    <3>2. stage \in Stages /\ now \in 0..Horizon
      BY StagesAndCodes DEF ServerTypeOK
    <3>3. Classified(x) = [x EXCEPT !.pc = stage, !.at = now, !.todo = accepted,
                                    !.unknown = unknown, !.outside = outside]
      BY DEF Classified
    <3> HIDE DEF unknown, outside, accepted, stage, x
    <3>4. [x EXCEPT !.pc = stage, !.at = now, !.todo = accepted,
                    !.unknown = unknown, !.outside = outside] \in Exchange
      BY <1>0, <3>1, <3>2, ClassifiedType, Zenon
    <3>5. exchange' = [exchange EXCEPT ![s] = Classified(x)]
      BY <1>1, <2>2 DEF Validate, x
    <3>6. exchange' \in [Slots -> Exchange]
      BY <3>3, <3>4, <3>5, SlotUpdate, Zenon DEF ServerTypeOK
    <3> QED
      BY <1>1, <3>6 DEF Validate, serverVars, ServerTypeOK
  <2> QED
    BY <2>1, <2>2
<1>2. CASE Insert(s)
  <2>1. PICK chunk \in SUBSET x.todo :
          LET new == {Key[r] : r \in chunk} \ meterReading
              rest == x.todo \ chunk
          IN  IF chunk \cap Overflow # {}
              THEN Reply(s, 500) /\ UNCHANGED meterReading
              ELSE /\ meterReading' = meterReading \cup new
                   /\ exchange' = [exchange EXCEPT ![s] =
                        [x EXCEPT !.todo = rest, !.inserted = @ + Cardinality(new),
                                  !.pc = IF rest = {} THEN "journal" ELSE "insert"]]
    BY <1>2 DEF Insert
  <2> DEFINE new == {Key[r] : r \in chunk} \ meterReading
             rest == x.todo \ chunk
  <2>2. chunk \in SUBSET Readings
    BY <1>0 DEF Exchange
  <2>3. Cardinality(new) \in Nat
    <3>1. IsFiniteSet(chunk)
      BY <2>2, SubsetsFinite
    <3>2. IsFiniteSet({Key[r] : r \in chunk})
      BY <3>1, KeysFinite
    <3>3. IsFiniteSet(new)
      BY <3>2, FS_Subset
    <3> QED
      BY <3>3, FS_CardinalityType
  <2>4. CASE chunk \cap Overflow # {}
    <3>1. Reply(s, 500) /\ UNCHANGED meterReading
      BY <2>1, <2>4
    <3>2. exchange' \in [Slots -> Exchange]
      BY <3>1, ReplyType, StagesAndCodes DEF ServerTypeOK
    <3> QED
      BY <1>2, <3>1, <3>2 DEF Insert, ServerTypeOK
  <2>5. CASE chunk \cap Overflow = {}
    <3> DEFINE stage == IF rest = {} THEN "journal" ELSE "insert"
               total == x.inserted + Cardinality(new)
    <3>1. rest \in SUBSET Readings /\ total \in Nat /\ stage \in Stages
      BY <1>0, <2>3, StagesAndCodes DEF Exchange
    <3>2. /\ meterReading' = meterReading \cup new
          /\ exchange' = [exchange EXCEPT ![s] =
                 [x EXCEPT !.todo = rest, !.inserted = total, !.pc = stage]]
      BY <2>1, <2>5
    <3>3. new \subseteq Keys
      BY <2>2 DEF Keys
    <3> HIDE DEF rest, total, stage, x, new
    <3>4. [x EXCEPT !.todo = rest, !.inserted = total, !.pc = stage] \in Exchange
      BY <1>0, <3>1, InsertedType, Zenon
    <3>5. exchange' \in [Slots -> Exchange]
      BY <3>2, <3>4, SlotUpdate, Zenon DEF ServerTypeOK
    <3> QED
      BY <1>2, <3>2, <3>3, <3>5 DEF Insert, ServerTypeOK
  <2> QED
    BY <2>4, <2>5
<1>3. CASE Journal(s)
  <2>1. x.payload \subseteq Readings /\ Rejected(x) \subseteq Readings
    BY <1>0 DEF Rejected, Exchange
  <2>0. /\ (x.payload \ Rejected(x)) \X {"accepted"} \X {FALSE}
              \subseteq Readings \X Statuses \X BOOLEAN
        /\ Rejected(x) \X {"rejected"} \X {TRUE} \subseteq Readings \X Statuses \X BOOLEAN
    BY <2>1 DEF Statuses
  <2>2. exchange' \in [Slots -> Exchange]
    <3> DEFINE stage == IF GatewayId(x) = NoGateway THEN "audit" ELSE "heartbeat"
    <3>1. stage \in Stages
      BY StagesAndCodes
    <3>2. exchange' = [exchange EXCEPT ![s].pc = stage]
      BY <1>3 DEF Journal
    <3> HIDE DEF stage
    <3> QED
      BY <3>1, <3>2, StageStepType DEF ServerTypeOK
  <2> QED
    BY <1>3, <2>0, <2>2 DEF Journal, ServerTypeOK
<1>4. CASE Heartbeat(s)
  <2>1. exchange' \in [Slots -> Exchange]
    BY <1>4, StageStepType, StagesAndCodes DEF Heartbeat, ServerTypeOK
  <2>2. x.at \in Never..Horizon
    BY <1>0, IngestionAssumption DEF Exchange, Never
  <2> QED
    BY <1>4, <2>1, <2>2 DEF Heartbeat, ServerTypeOK
<1>5. CASE Audit(s)
  <2>1. x.inserted \in Nat
    BY <1>0 DEF Exchange
  <2>2. exchange' \in [Slots -> Exchange]
    BY <1>5, ReplyType, StagesAndCodes DEF Audit, ServerTypeOK
  <2> QED
    BY <1>5, <2>1, <2>2 DEF Audit, ServerTypeOK
<1> QED
  BY <1>1, <1>2, <1>3, <1>4, <1>5 DEF Handle

(***************************************************************************)
(* Fields: what a step leaves in its exchange.                             *)
(***************************************************************************)
LEMMA FreeSlotFields ==
    /\ FreeSlot.pc = "free" /\ FreeSlot.todo = {} /\ FreeSlot.code = 0
    /\ FreeSlot.unknown = {} /\ FreeSlot.outside = {} /\ FreeSlot.payload = {}
    /\ FreeSlot.inserted = 0
  BY DEF FreeSlot

\* Only the exchange in slot s changes.
OnlyIn(s) == \A t \in Slots \ {s} : exchange'[t] = exchange[t]

\* From x to y, a reply with the code: it keeps the payload, and a 200 its errors.
Replied(x, y, code) ==
    /\ y.pc = "done" /\ y.code = code
    /\ y.todo = {} /\ y.inserted = 0 /\ y.payload = x.payload
    /\ code = 200 => Rejected(y) = Rejected(x)

\* From x to y, the classification: what is not rejected is to be inserted, and its
\* meters are registered and its timestamps in the window at that moment.
Sorted(x, y) ==
    /\ y.pc \in {"insert", "journal"} /\ (y.pc # "insert" => y.todo = {})
    /\ y.payload = x.payload /\ y.inserted = x.inserted
    /\ y.todo = x.payload \ Rejected(y)
    /\ \A r \in y.todo : Meter[r] \in meters /\ InWindow(r, now)

\* From x to y, one chunk inserted.
Chunked(x, y, chunk) ==
    /\ chunk \subseteq x.todo /\ y.todo = x.todo \ chunk
    /\ y.pc \in {"insert", "journal"} /\ (y.pc # "insert" => y.todo = {})
    /\ y.payload = x.payload /\ Rejected(y) = Rejected(x)
    /\ y.inserted = x.inserted + Cardinality({Key[r] : r \in chunk} \ meterReading)
    /\ meterReading' = meterReading \cup {Key[r] : r \in chunk}

\* From x to y, the next stage and nothing else.
Moved(x, y) ==
    /\ y.todo = x.todo /\ y.payload = x.payload /\ y.inserted = x.inserted
    /\ Rejected(y) = Rejected(x)

LEMMA ReplyFields ==
    ASSUME exchange \in [Slots -> Exchange], NEW s \in Slots, NEW code \in Codes,
           Reply(s, code)
    PROVE  Replied(exchange[s], exchange'[s], code) /\ OnlyIn(s)
<1> DEFINE y == [FreeSlot EXCEPT !.pc = "done", !.code = code,
                    !.payload = exchange[s].payload,
                    !.unknown = IF code = 200 THEN exchange[s].unknown ELSE {},
                    !.outside = IF code = 200 THEN exchange[s].outside ELSE {}]
<1>1. /\ y.pc = "done" /\ y.code = code /\ y.todo = {} /\ y.inserted = 0
      /\ y.payload = exchange[s].payload
      /\ code = 200 => y.unknown = exchange[s].unknown /\ y.outside = exchange[s].outside
  BY DEF FreeSlot
<1>2. exchange' = [exchange EXCEPT ![s] = y]
  BY DEF Reply
<1> HIDE DEF y
<1>3. exchange'[s] = y /\ OnlyIn(s)
  BY <1>2 DEF OnlyIn
<1> QED
  BY <1>1, <1>3 DEF Replied, Rejected

LEMMA FreedFields ==
    ASSUME exchange \in [Slots -> Exchange], NEW s \in Slots,
           exchange' = [exchange EXCEPT ![s] = FreeSlot]
    PROVE  exchange'[s] = FreeSlot /\ OnlyIn(s)
  BY DEF OnlyIn

LEMMA StageFields ==
    ASSUME exchange \in [Slots -> Exchange], NEW s \in Slots, NEW stage,
           exchange' = [exchange EXCEPT ![s].pc = stage]
    PROVE  /\ exchange'[s].pc = stage /\ Moved(exchange[s], exchange'[s]) /\ OnlyIn(s)
<1>1. /\ exchange'[s].pc = stage
      /\ exchange'[s].todo = exchange[s].todo
      /\ exchange'[s].payload = exchange[s].payload
      /\ exchange'[s].inserted = exchange[s].inserted
      /\ exchange'[s].unknown = exchange[s].unknown
      /\ exchange'[s].outside = exchange[s].outside
      /\ OnlyIn(s)
  BY DEF Exchange, OnlyIn
<1> QED
  BY <1>1 DEF Moved, Rejected

LEMMA ArriveFields ==
    ASSUME exchange \in [Slots -> Exchange], NEW s \in Slots, NEW token, NEW serial,
           NEW payload, Arrive(s, token, serial, payload)
    PROVE  /\ exchange'[s].pc = "arrived" /\ exchange'[s].payload = payload
           /\ exchange'[s].todo = {} /\ exchange'[s].inserted = 0
           /\ OnlyIn(s)
<1> DEFINE y == [FreeSlot EXCEPT !.pc = "arrived", !.token = token, !.serial = serial,
                                 !.payload = payload]
<1>1. y.pc = "arrived" /\ y.payload = payload /\ y.todo = {} /\ y.inserted = 0
  BY DEF FreeSlot
<1>2. exchange' = [exchange EXCEPT ![s] = y]
  BY DEF Arrive
<1> HIDE DEF y
<1> QED
  BY <1>1, <1>2 DEF OnlyIn

LEMMA ClassifiedFields ==
    ASSUME NEW x \in Exchange
    PROVE  Sorted(x, Classified(x))
<1> DEFINE unknown == {r \in x.payload : Meter[r] \notin meters}
           outside == {r \in x.payload \ unknown : ~InWindow(r, now)}
           accepted == x.payload \ (unknown \cup outside)
           stage == IF accepted = {} THEN "journal" ELSE "insert"
<1>1. Classified(x) = [x EXCEPT !.pc = stage, !.at = now, !.todo = accepted,
                                !.unknown = unknown, !.outside = outside]
  BY DEF Classified
<1>2. \A r \in accepted : Meter[r] \in meters /\ InWindow(r, now)
  OBVIOUS
<1>3. stage \in {"insert", "journal"} /\ (stage # "insert" => accepted = {})
  OBVIOUS
<1>4. accepted = x.payload \ (unknown \cup outside)
  OBVIOUS
<1> HIDE DEF unknown, outside, accepted, stage
<1>5. /\ Classified(x).pc = stage /\ Classified(x).todo = accepted
      /\ Classified(x).unknown = unknown /\ Classified(x).outside = outside
      /\ Classified(x).payload = x.payload /\ Classified(x).inserted = x.inserted
  BY <1>1 DEF Exchange
<1> QED
  BY <1>2, <1>3, <1>4, <1>5 DEF Sorted, Rejected

(***************************************************************************)
(* The steps of a handler, action by action.                               *)
(***************************************************************************)
LEMMA ValidateEffect ==
    ASSUME ServerTypeOK, NEW s \in Slots, Validate(s)
    PROVE  /\ exchange[s].pc = "arrived" /\ OnlyIn(s) /\ UNCHANGED <<now, serverVars>>
           /\ \/ Sorted(exchange[s], exchange'[s])
              \/ \E code \in Codes \ {200} : Replied(exchange[s], exchange'[s], code)
<1> DEFINE x == exchange[s]
<1>0. x \in Exchange /\ exchange \in [Slots -> Exchange]
  BY DEF ServerTypeOK
<1>1. CASE Refusal(x) # 0
  <2>1. Refusal(x) \in Codes \ {200}
    BY DEF Refusal, Codes
  <2>2. Reply(s, Refusal(x))
    BY <1>1 DEF Validate
  <2> HIDE DEF x
  <2> QED
    BY <1>0, <2>1, <2>2, ReplyFields DEF Validate, x
<1>2. CASE Refusal(x) = 0
  <2>1. exchange' = [exchange EXCEPT ![s] = Classified(x)]
    BY <1>2 DEF Validate
  <2>2. exchange'[s] = Classified(x) /\ OnlyIn(s)
    BY <1>0, <2>1 DEF OnlyIn
  <2>3. Sorted(x, exchange'[s])
    BY <1>0, <2>2, ClassifiedFields
  <2> QED
    BY <2>2, <2>3 DEF Validate
<1> QED
  BY <1>1, <1>2

LEMMA InsertEffect ==
    ASSUME ServerTypeOK, NEW s \in Slots, Insert(s)
    PROVE  /\ exchange[s].pc = "insert" /\ OnlyIn(s)
           /\ UNCHANGED <<now, meters, rawMeterEvent, lastSeenAt, audited>>
           /\ \/ \E chunk : Chunked(exchange[s], exchange'[s], chunk)
              \/ Replied(exchange[s], exchange'[s], 500) /\ UNCHANGED meterReading
<1> DEFINE x == exchange[s]
<1>0. x \in Exchange /\ exchange \in [Slots -> Exchange] /\ x.pc = "insert"
  BY DEF ServerTypeOK, Insert
<1>1. PICK chunk \in SUBSET x.todo :
        LET new == {Key[r] : r \in chunk} \ meterReading
            rest == x.todo \ chunk
        IN  IF chunk \cap Overflow # {}
            THEN Reply(s, 500) /\ UNCHANGED meterReading
            ELSE /\ meterReading' = meterReading \cup new
                 /\ exchange' = [exchange EXCEPT ![s] =
                      [x EXCEPT !.todo = rest, !.inserted = @ + Cardinality(new),
                                !.pc = IF rest = {} THEN "journal" ELSE "insert"]]
  BY DEF Insert
<1>2. CASE chunk \cap Overflow # {}
  <2>1. Reply(s, 500) /\ UNCHANGED meterReading
    BY <1>1, <1>2
  <2> QED
    BY <1>0, <2>1, ReplyFields, StagesAndCodes DEF Insert
<1>3. CASE chunk \cap Overflow = {}
  <2> DEFINE new == {Key[r] : r \in chunk} \ meterReading
             rest == x.todo \ chunk
             stage == IF rest = {} THEN "journal" ELSE "insert"
             total == x.inserted + Cardinality(new)
             y == [x EXCEPT !.todo = rest, !.inserted = total, !.pc = stage]
  <2>1. meterReading' = meterReading \cup new /\ exchange' = [exchange EXCEPT ![s] = y]
    BY <1>1, <1>3
  <2>2. stage \in {"insert", "journal"} /\ (stage # "insert" => rest = {})
    OBVIOUS
  <2>3. meterReading' = meterReading \cup {Key[r] : r \in chunk}
    BY <2>1
  <2>4. /\ y.todo = rest /\ y.pc = stage /\ y.payload = x.payload /\ y.inserted = total
        /\ y.unknown = x.unknown /\ y.outside = x.outside
    <3> HIDE DEF rest, stage, total, x
    <3> QED
      BY <1>0 DEF Exchange
  <2>5. Rejected(y) = Rejected(x)
    BY <2>4 DEF Rejected
  <2>6. exchange'[s] = y /\ OnlyIn(s)
    BY <1>0, <2>1 DEF OnlyIn
  <2> HIDE DEF y, stage
  <2>7. Chunked(x, exchange'[s], chunk)
    BY <2>2, <2>3, <2>4, <2>5, <2>6 DEF Chunked
  <2> QED
    BY <1>0, <2>6, <2>7 DEF Insert
<1> QED
  BY <1>2, <1>3

LEMMA JournalEffect ==
    ASSUME ServerTypeOK, NEW s \in Slots, Journal(s)
    PROVE  LET x == exchange[s] IN
           /\ x.pc = "journal" /\ exchange'[s].pc \in {"heartbeat", "audit"}
           /\ Moved(x, exchange'[s]) /\ OnlyIn(s)
           /\ UNCHANGED <<now, meters, meterReading, lastSeenAt, audited>>
           /\ rawMeterEvent' = rawMeterEvent
                  \cup ((x.payload \ Rejected(x)) \X {"accepted"} \X {FALSE})
                  \cup (Rejected(x) \X {"rejected"} \X {TRUE})
           /\ \A r \in x.payload \ Rejected(x) : Journaled(r, FALSE)'
           /\ \A r \in Rejected(x) : Journaled(r, TRUE)'
<1> DEFINE stage == IF GatewayId(exchange[s]) = NoGateway THEN "audit" ELSE "heartbeat"
<1>1. exchange' = [exchange EXCEPT ![s].pc = stage] /\ stage \in {"audit", "heartbeat"}
  BY DEF Journal
<1> HIDE DEF stage
<1>2. exchange'[s].pc = stage /\ Moved(exchange[s], exchange'[s]) /\ OnlyIn(s)
  BY <1>1, StageFields DEF ServerTypeOK
<1> DEFINE x == exchange[s]
<1>3. rawMeterEvent' = rawMeterEvent
          \cup ((x.payload \ Rejected(x)) \X {"accepted"} \X {FALSE})
          \cup (Rejected(x) \X {"rejected"} \X {TRUE})
  BY DEF Journal
<1>4. /\ \A r \in x.payload \ Rejected(x) : <<r, "accepted", FALSE>> \in rawMeterEvent'
      /\ \A r \in Rejected(x) : <<r, "rejected", TRUE>> \in rawMeterEvent'
  BY <1>3
<1>5. /\ \A r \in x.payload \ Rejected(x) : Journaled(r, FALSE)'
      /\ \A r \in Rejected(x) : Journaled(r, TRUE)'
  BY <1>4 DEF Journaled, Statuses
<1> QED
  BY <1>1, <1>2, <1>3, <1>5 DEF Journal

LEMMA HeartbeatEffect ==
    ASSUME ServerTypeOK, NEW s \in Slots, Heartbeat(s)
    PROVE  /\ exchange[s].pc = "heartbeat" /\ exchange'[s].pc = "audit"
           /\ Moved(exchange[s], exchange'[s]) /\ OnlyIn(s)
           /\ UNCHANGED <<now, meters, meterReading, rawMeterEvent, audited>>
<1>1. exchange' = [exchange EXCEPT ![s].pc = "audit"]
  BY DEF Heartbeat
<1> QED
  BY <1>1, StageFields DEF ServerTypeOK, Heartbeat

LEMMA AuditEffect ==
    ASSUME ServerTypeOK, NEW s \in Slots, Audit(s)
    PROVE  /\ exchange[s].pc = "audit" /\ Replied(exchange[s], exchange'[s], 200)
           /\ OnlyIn(s) /\ audited' = audited + exchange[s].inserted
           /\ UNCHANGED <<now, meters, meterReading, rawMeterEvent, lastSeenAt>>
  BY ReplyFields, StagesAndCodes DEF ServerTypeOK, Audit

\* A handler that fails, vanishes or is released keeps every table.
LEMMA EndEffect ==
    ASSUME ServerTypeOK, NEW s \in Slots,
           \/ Fail(s) \/ Vanish(s)
           \/ Release(s) /\ UNCHANGED <<now, serverVars>>
    PROVE  /\ OnlyIn(s) /\ UNCHANGED <<now, serverVars>>
           /\ \/ exchange'[s] = FreeSlot
              \/ Live(s) /\ Replied(exchange[s], exchange'[s], 500)
<1>1. CASE Fail(s)
  BY <1>1, ReplyFields, StagesAndCodes DEF ServerTypeOK, Fail
<1>2. CASE Vanish(s) \/ (Release(s) /\ UNCHANGED <<now, serverVars>>)
  BY <1>2, FreedFields DEF ServerTypeOK, Vanish, Release
<1> QED
  BY <1>1, <1>2
=============================================================================
