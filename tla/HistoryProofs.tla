---------------------------- MODULE HistoryProofs ----------------------------
(***************************************************************************)
(* Proofs about ReadingHistory and Consumption, for every meter, any       *)
(* timestamps and values, and any number of users.  What corrections leave *)
(* behind is typed, recorded, free of cycles and permanent, and the logs   *)
(* are true.  The bills of adjacent periods add up, a chart shows no more  *)
(* than its consumption, a draft does not depend on the order of rows, and *)
(* what is billed differs from the readings in force only where a          *)
(* correction event says so.                                               *)
(***************************************************************************)
EXTENDS Consumption, FiniteSetTheorems, WellFoundedInduction, TLAPS

\* New rows: blank entries filled, nothing else touched.  That is what ingestion,
\* manual entry and the import do to the table.
Fills(S) ==
    /\ \A k \in Keys \ S : reading'[k] = reading[k]
    /\ \A k \in S : reading'[k] \in Row /\ reading'[k].lifecycle \in Entered
                      /\ reading'[k].supersedes = None
    /\ reading' \in [Keys -> Row]
    /\ S \cap Present = {} /\ S \subseteq Keys

\* A row that a handler fills in has the type of a row.
LEMMA NewRowType ==
    ASSUME NEW lifecycle \in Entered \cup {"corrected"},
           NEW source \in {"gateway", "manual", "import"}
    PROVE  /\ NewRow(lifecycle, source) \in Row
           /\ NewRow(lifecycle, source).lifecycle = lifecycle
           /\ NewRow(lifecycle, source).source = source
           /\ NewRow(lifecycle, source).supersedes = None
BY DEF NewRow, Absent, Row, Entered

\* Filling blank entries keeps everything that is said about the table: the lineage,
\* its acyclicity and what was there.
LEMMA FillingKeeps ==
    ASSUME TypeOK, AbsentIsBlank, LineageIsRecorded, LineageIsAcyclic,
           NEW S, Fills(S), UNCHANGED event
    PROVE  /\ AbsentIsBlank' /\ LineageIsRecorded' /\ LineageIsAcyclic'
           /\ Present \cup S = Present'
           /\ KeepsHistory
<1>0. None \notin Keys BY HistoryAssumption
<1>1. \A k \in S : reading[k] = Absent /\ reading[k].lifecycle = "absent"
                     /\ reading[k].supersedes = None
  BY DEF Fills, AbsentIsBlank, Present, Exists, Absent
<1>2. \A k \in Keys : reading'[k].supersedes = reading[k].supersedes
  BY <1>1 DEF Fills
<1>3. \A k \in Keys : reading'[k].lifecycle = "superseded"
                        <=> reading[k].lifecycle = "superseded"
  BY <1>1 DEF Fills, Entered
<1>4. LineageIsRecorded' BY <1>2, <1>3 DEF LineageIsRecorded
<1>5. LineageIsAcyclic' BY <1>2 DEF LineageIsAcyclic
<1>6. Present' = Present \cup S BY DEF Present, Exists, Fills, Entered
<1>7. AbsentIsBlank' BY <1>6 DEF AbsentIsBlank, Fills, Present, Exists, Entered
<1>8. KeepsHistory BY DEF KeepsHistory, Fills, Present
<1> QED BY <1>4, <1>5, <1>6, <1>7, <1>8

\* The transaction of a correction: the new row hangs on an existing one, so it can
\* close no cycle, and its event is the trace of it.
LEMMA CorrectKeeps ==
    ASSUME TypeOK, RequestsAreTrue, AbsentIsBlank, LineageIsRecorded, LineageIsAcyclic,
           NEW q \in Requests, NEW k \in Keys, Correct(q, k)
    PROVE  /\ reading' \in [Keys -> Row] /\ event' \subseteq Keys \X Keys
           /\ AbsentIsBlank' /\ LineageIsRecorded' /\ LineageIsAcyclic'
           /\ Present' = Present \cup {k}
           /\ KeepsHistory
<1> DEFINE o == request[q].original
<1>0. None \notin Keys BY HistoryAssumption
<1>1. o \in Keys /\ Exists(o) /\ ~Exists(k) /\ o # k
  BY DEF Correct, RequestsAreTrue, Present
<1>2. /\ reading[k] = Absent /\ reading[k].supersedes = None
      /\ reading[k].lifecycle = "absent"
  BY <1>1 DEF AbsentIsBlank, Absent
<1>3. /\ reading \in [Keys -> Row]
      /\ reading' = [reading EXCEPT
             ![k] = [NewRow("corrected", "manual") EXCEPT !.supersedes = o],
             ![o].lifecycle = "superseded"]
      /\ event' = event \cup {<<o, k>>}
  BY DEF Correct, TypeOK
<1>4. /\ reading'[k] = [lifecycle |-> "corrected", source |-> "manual", supersedes |-> o]
      /\ reading'[o] = [reading[o] EXCEPT !.lifecycle = "superseded"]
      /\ \A j \in Keys \ {k, o} : reading'[j] = reading[j]
      /\ DOMAIN reading' = Keys
  BY <1>1, <1>3 DEF NewRow, Absent
<1>5. reading[o] \in Row BY <1>1, <1>3
<1>6. /\ reading'[o] \in Row /\ reading'[o].lifecycle = "superseded"
      /\ reading'[o].supersedes = reading[o].supersedes
      /\ reading'[o].source = reading[o].source
  BY <1>4, <1>5 DEF Row
<1>7. /\ reading'[k] \in Row /\ reading'[k].lifecycle = "corrected"
      /\ reading'[k].supersedes = o
  BY <1>1, <1>4 DEF Row
<1>8. reading' \in [Keys -> Row]
  <2>1. \A j \in Keys : reading'[j] \in Row BY <1>3, <1>4, <1>6, <1>7
  <2> QED BY <1>3, <1>4, <2>1
<1>9. event' \subseteq Keys \X Keys BY <1>1, <1>3 DEF TypeOK
<1>10. Present' = Present \cup {k}
  <2>1. ASSUME NEW j \in Keys PROVE Exists(j)' <=> Exists(j) \/ j = k
    <3>1. CASE j = k BY <1>7, <3>1 DEF Exists
    <3>2. CASE j = o BY <1>1, <1>6, <3>2 DEF Present, Exists
    <3>3. CASE j \notin {k, o} BY <1>4, <3>3 DEF Exists
    <3> QED BY <3>1, <3>2, <3>3
  <2> QED BY <1>1, <2>1 DEF Present
<1>11. AbsentIsBlank' BY <1>1, <1>4, <1>6, <1>7 DEF AbsentIsBlank, Exists
<1>12. \A j \in Keys \ {k} : reading'[j].supersedes = reading[j].supersedes
  BY <1>4, <1>6
\* Nothing names k yet, and no event mentions it.
<1>13. \A j \in Keys : reading[j].supersedes # k /\ <<k, j>> \notin event
                         /\ <<j, k>> \notin event
  <2> TAKE j \in Keys
  <2>1. <<k, j>> \notin event BY <1>2 DEF LineageIsRecorded
  <2>2. <<j, k>> \notin event BY <1>0, <1>2 DEF LineageIsRecorded
  <2> QED BY <2>1, <2>2 DEF LineageIsRecorded
<1>14. LineageIsRecorded'
  <2>1. ASSUME NEW j \in Keys, NEW p \in Keys
        PROVE  reading'[j].supersedes = p <=> <<p, j>> \in event'
    <3>1. CASE j = k BY <1>3, <1>7, <1>13, <3>1
    <3>2. CASE j # k
      <4>1. <<p, j>> \in event' <=> <<p, j>> \in event BY <1>3, <3>2
      <4> QED BY <4>1, <1>12, <3>2 DEF LineageIsRecorded
    <3> QED BY <3>1, <3>2
  <2>2. ASSUME NEW p \in Keys
        PROVE  reading'[p].lifecycle = "superseded" <=> \E j \in Keys : <<p, j>> \in event'
    <3>1. CASE p = o BY <1>3, <1>6, <3>1
    <3>2. CASE p = k BY <1>1, <1>3, <1>7, <1>13, <3>2
    <3>3. CASE p \notin {o, k}
      <4>1. \A j \in Keys : <<p, j>> \in event' <=> <<p, j>> \in event BY <1>3, <3>3
      <4> QED BY <4>1, <1>4, <3>3 DEF LineageIsRecorded
    <3> QED BY <3>1, <3>2, <3>3
  <2> QED BY <2>1, <2>2 DEF LineageIsRecorded
<1>15. LineageIsAcyclic'
  <2> SUFFICES ASSUME NEW S \in (SUBSET Keys) \ {{}}
               PROVE  \E j \in S : reading'[j].supersedes \notin S
    BY DEF LineageIsAcyclic
  <2>1. CASE S \ {k} = {} BY <1>1, <1>7, <2>1
  <2>2. CASE S \ {k} # {}
    <3>1. PICK j \in S \ {k} : reading[j].supersedes \notin S \ {k}
      BY <2>2 DEF LineageIsAcyclic
    <3>2. reading[j].supersedes \notin S BY <1>13, <3>1
    <3> QED BY <1>12, <3>1, <3>2
  <2> QED BY <2>1, <2>2
<1>16. KeepsHistory
  BY <1>1, <1>3, <1>4, <1>6 DEF KeepsHistory, Present
<1> QED BY <1>8, <1>9, <1>10, <1>11, <1>14, <1>15, <1>16

\* What is left for a step that fills the entries S: requests and logs.
LEMMA FillingStep ==
    ASSUME IInv, NEW S, Fills(S), UNCHANGED <<event, logs>>,
           request' \in [Requests -> Request],
           \A q \in Requests : \/ request'[q] = request[q]
                               \/ request'[q].pc = "audit" /\ request'[q].wrote = S
    PROVE  IInv' /\ KeepsHistory
<1>1. /\ TypeOK /\ AbsentIsBlank /\ LineageIsRecorded /\ LineageIsAcyclic
      /\ RequestsAreTrue /\ LogsAreTrue
  BY DEF IInv
<1>2. /\ AbsentIsBlank' /\ LineageIsRecorded' /\ LineageIsAcyclic'
      /\ Present' = Present \cup S /\ KeepsHistory
  BY <1>1, FillingKeeps
<1>3. TypeOK' BY <1>1 DEF TypeOK, Fills, logs
<1>4. LogsAreTrue' BY <1>1, <1>2 DEF LogsAreTrue, logs
<1>5. RequestsAreTrue' BY <1>1, <1>2 DEF RequestsAreTrue, logs
<1> QED BY <1>2, <1>3, <1>4, <1>5 DEF IInv

\* A request that committed rows goes on to write the logs.
LEMMA WroteType ==
    ASSUME TypeOK, NEW q \in Requests, NEW S \in SUBSET Keys, Wrote(q, S)
    PROVE  /\ request' \in [Requests -> Request]
           /\ \A p \in Requests : \/ request'[p] = request[p]
                                  \/ request'[p].pc = "audit" /\ request'[p].wrote = S
           /\ \A p \in Requests \ {q} : request'[p] = request[p]
<1>1. [Idle EXCEPT !.pc = "audit", !.wrote = S] \in Request
  BY DEF Idle, Request, Stages
<1>2. /\ [Idle EXCEPT !.pc = "audit", !.wrote = S].pc = "audit"
      /\ [Idle EXCEPT !.pc = "audit", !.wrote = S].wrote = S
  BY DEF Idle
<1> QED BY <1>1, <1>2 DEF Wrote, TypeOK

\* The initial state satisfies the invariant.
LEMMA InitHolds == Init => IInv
<1> SUFFICES ASSUME Init PROVE IInv OBVIOUS
<1>0. None \notin Keys BY HistoryAssumption
<1>1. Absent \in Row /\ Absent.lifecycle = "absent" /\ Absent.supersedes = None
  BY DEF Absent, Row
<1>2. Idle \in Request /\ Idle.pc = "idle" BY DEF Idle, Request, Stages
<1>3. TypeOK BY <1>1, <1>2 DEF Init, TypeOK
<1>4. RequestsAreTrue BY <1>2 DEF Init, RequestsAreTrue
<1>5. AbsentIsBlank BY DEF Init, AbsentIsBlank
<1>6. LineageIsRecorded BY <1>0, <1>1 DEF Init, LineageIsRecorded
<1>7. LineageIsAcyclic BY <1>0, <1>1 DEF Init, LineageIsAcyclic
<1>8. LogsAreTrue BY DEF Init, LogsAreTrue
<1> QED BY <1>3, <1>4, <1>5, <1>6, <1>7, <1>8 DEF IInv

\* Ingestion fills the blank entry of one key, or leaves the reading that is there.
LEMMA IngestKeeps ==
    ASSUME IInv, NEW k \in Keys, Ingest(k)
    PROVE  IInv' /\ KeepsHistory
<1>1. reading \in [Keys -> Row] /\ request \in [Requests -> Request]
  BY DEF IInv, TypeOK
<1>2. "original" \in Entered BY DEF Entered
<1>3. Fills({k}) BY <1>1, <1>2, NewRowType DEF Ingest, Fills, Present, Exists, Entered
<1> QED BY <1>1, <1>3, FillingStep DEF Ingest, logs

\* An entry by a user fills its key's blank entry, or fails on the one that is there.
LEMMA CreateKeeps ==
    ASSUME IInv, NEW q \in Requests, NEW k \in Keys, NEW lifecycle \in Entered,
           Create(q, k, NewRow(lifecycle, "manual"))
    PROVE  IInv' /\ KeepsHistory
<1>1. reading \in [Keys -> Row] BY DEF IInv, TypeOK
<1>2. Fills({k}) BY <1>1, NewRowType DEF Create, Fills, Present, Exists
<1>3. {k} \in SUBSET Keys /\ Wrote(q, {k}) /\ TypeOK BY DEF Create, IInv
<1>4. /\ request' \in [Requests -> Request]
      /\ \A p \in Requests : \/ request'[p] = request[p]
                             \/ request'[p].pc = "audit" /\ request'[p].wrote = {k}
  BY <1>3, WroteType
<1> QED BY <1>2, <1>4, FillingStep DEF Create

\* The import fills the blank entries among its lines and skips the others.
LEMMA ImportKeeps ==
    ASSUME IInv, NEW q \in Requests, NEW lines \in SUBSET Keys,
           NEW source \in {"manual", "import"}, ImportCsv(q, lines, source)
    PROVE  IInv' /\ KeepsHistory
<1> DEFINE new == lines \ Present
<1>1. reading \in [Keys -> Row] /\ TypeOK BY DEF IInv, TypeOK
<1>2. PICK lifecycle \in [new -> Entered] :
         reading' = [k \in Keys |-> IF k \in new THEN NewRow(lifecycle[k], source)
                                    ELSE reading[k]]
  BY DEF ImportCsv
<1>3. \A k \in new : /\ reading'[k] \in Row /\ reading'[k].lifecycle \in Entered
                      /\ reading'[k].supersedes = None
  <2> TAKE k \in new
  <2>1. k \in Keys /\ lifecycle[k] \in Entered OBVIOUS
  <2>2. reading'[k] = NewRow(lifecycle[k], source) BY <1>2, <2>1
  <2> QED BY <2>1, <2>2, NewRowType
<1>4. \A k \in Keys \ new : reading'[k] = reading[k] BY <1>2
<1>5. reading' \in [Keys -> Row]
  <2>1. \A k \in Keys : reading'[k] \in Row BY <1>1, <1>3, <1>4
  <2> QED BY <1>2, <2>1
<1>6. Fills(new) BY <1>3, <1>4, <1>5 DEF Fills
<1>7. new \in SUBSET Keys /\ Wrote(q, new) BY DEF ImportCsv
<1>8. /\ request' \in [Requests -> Request]
      /\ \A p \in Requests : \/ request'[p] = request[p]
                             \/ request'[p].pc = "audit" /\ request'[p].wrote = new
  BY <1>1, <1>7, WroteType
<1> QED BY <1>6, <1>8, FillingStep DEF ImportCsv

\* The correction's transaction adds the new row, marks the original and records both
\* in one step; a row that has just been added supersedes nothing that leads back to it.
LEMMA CorrectStep ==
    ASSUME IInv, NEW q \in Requests, NEW k \in Keys, Correct(q, k)
    PROVE  IInv' /\ KeepsHistory
<1>1. /\ TypeOK /\ AbsentIsBlank /\ LineageIsRecorded /\ LineageIsAcyclic
      /\ RequestsAreTrue /\ LogsAreTrue
  BY DEF IInv
<1>2. /\ reading' \in [Keys -> Row] /\ event' \subseteq Keys \X Keys
      /\ AbsentIsBlank' /\ LineageIsRecorded' /\ LineageIsAcyclic'
      /\ Present' = Present \cup {k}
      /\ KeepsHistory
  BY <1>1, CorrectKeeps
<1>3. {k} \in SUBSET Keys /\ Wrote(q, {k}) /\ UNCHANGED logs BY DEF Correct
<1>4. /\ request' \in [Requests -> Request]
      /\ \A p \in Requests : \/ request'[p] = request[p]
                             \/ request'[p].pc = "audit" /\ request'[p].wrote = {k}
  BY <1>1, <1>3, WroteType
<1>5. TypeOK' BY <1>1, <1>2, <1>3, <1>4 DEF TypeOK, logs
<1>6. LogsAreTrue' BY <1>1, <1>2, <1>3 DEF LogsAreTrue, logs
<1>7. RequestsAreTrue' BY <1>1, <1>2, <1>3, <1>4 DEF RequestsAreTrue, logs
<1> QED BY <1>2, <1>5, <1>6, <1>7 DEF IInv

\* Steps that leave the table alone: a request looks for a reading, writes a log or
\* ends.
LEMMA QuietKeeps ==
    ASSUME IInv, UNCHANGED <<reading, event>>,
           request' \in [Requests -> Request],
           RequestsAreTrue', LogsAreTrue'
    PROVE  IInv' /\ KeepsHistory
<1>1. /\ AbsentIsBlank' /\ LineageIsRecorded' /\ LineageIsAcyclic' /\ Present' = Present
  BY DEF IInv, AbsentIsBlank, LineageIsRecorded, LineageIsAcyclic, Present, Exists
<1>2. TypeOK' BY <1>1 DEF IInv, TypeOK, LogsAreTrue, Present
<1>3. KeepsHistory BY DEF KeepsHistory
<1> QED BY <1>1, <1>2, <1>3 DEF IInv

\* The other steps of a request change the request and the logs alone.
LEMMA RequestSteps ==
    ASSUME IInv, NEW q \in Requests,
           (\E k \in Keys : FindOriginal(q, k)) \/ Record(q) \/ Fail(q)
    PROVE  IInv' /\ KeepsHistory
<1>0. /\ TypeOK /\ RequestsAreTrue /\ LogsAreTrue
      /\ request \in [Requests -> Request]
  BY DEF IInv, TypeOK
<1>1. Idle \in Request /\ Idle.pc = "idle" BY DEF Idle, Request, Stages
<1>2. CASE \E k \in Keys : FindOriginal(q, k)
  <2>1. PICK k \in Keys : FindOriginal(q, k) BY <1>2
  <2> DEFINE x == [Idle EXCEPT !.pc = "found", !.original = k]
  <2>2. x \in Request /\ x.pc = "found" /\ x.original = k BY DEF Idle, Request, Stages
  <2>3. request' = [request EXCEPT ![q] = x] /\ k \in Present
        /\ UNCHANGED <<reading, event, auditLog, changeLog>>
    BY <2>1 DEF FindOriginal, Present, logs
  <2> HIDE DEF x
  <2>4. Present' = Present BY <2>3 DEF Present, Exists
  <2>5. RequestsAreTrue' BY <1>0, <2>2, <2>3, <2>4 DEF RequestsAreTrue
  <2>6. LogsAreTrue' BY <1>0, <2>3, <2>4 DEF LogsAreTrue
  <2>7. request' \in [Requests -> Request] BY <1>0, <2>2, <2>3
  <2> QED BY <2>3, <2>5, <2>6, <2>7, QuietKeeps
<1>3. CASE WriteAuditLog(q)
  <2>1. /\ request[q].pc = "audit" /\ auditLog' = auditLog \cup request[q].wrote
        /\ request' = [request EXCEPT ![q].pc = "log"]
        /\ UNCHANGED <<reading, event, changeLog>>
    BY <1>3 DEF WriteAuditLog
  <2>2. Present' = Present BY <2>1 DEF Present, Exists
  <2>3. /\ request'[q].pc = "log" /\ request'[q].wrote = request[q].wrote
        /\ request' \in [Requests -> Request]
    BY <1>0, <2>1 DEF Request, Stages
  <2>4. \A p \in Requests \ {q} : request'[p] = request[p] BY <1>0, <2>1
  <2>5. RequestsAreTrue' BY <1>0, <2>1, <2>2, <2>3, <2>4 DEF RequestsAreTrue
  <2>6. LogsAreTrue' BY <1>0, <2>1, <2>2 DEF LogsAreTrue, RequestsAreTrue
  <2> QED BY <2>1, <2>3, <2>5, <2>6, QuietKeeps
<1>4. CASE WriteBillingChangeLog(q)
  <2>1. /\ request[q].pc = "log" /\ changeLog' = changeLog \cup request[q].wrote
        /\ request' = [request EXCEPT ![q] = Idle]
        /\ UNCHANGED <<reading, event, auditLog>>
    BY <1>4 DEF WriteBillingChangeLog
  <2>2. Present' = Present BY <2>1 DEF Present, Exists
  <2>3. request' \in [Requests -> Request] BY <1>0, <1>1, <2>1
  <2>4. RequestsAreTrue' BY <1>0, <1>1, <2>1, <2>2 DEF RequestsAreTrue
  <2>5. LogsAreTrue' BY <1>0, <2>1, <2>2 DEF LogsAreTrue, RequestsAreTrue
  <2> QED BY <2>1, <2>3, <2>4, <2>5, QuietKeeps
<1>5. CASE Fail(q)
  <2>1. /\ request' = [request EXCEPT ![q] = Idle]
        /\ UNCHANGED <<reading, event, auditLog, changeLog>>
    BY <1>5 DEF Fail, logs
  <2>2. Present' = Present BY <2>1 DEF Present, Exists
  <2>3. request' \in [Requests -> Request] BY <1>0, <1>1, <2>1
  <2>4. RequestsAreTrue' BY <1>0, <1>1, <2>1, <2>2 DEF RequestsAreTrue
  <2>5. LogsAreTrue' BY <1>0, <2>1, <2>2 DEF LogsAreTrue
  <2> QED BY <2>1, <2>3, <2>4, <2>5, QuietKeeps
<1> QED BY <1>2, <1>3, <1>4, <1>5 DEF Record

\* Every step keeps the invariant and the history.
LEMMA StepHolds == IInv /\ [Next]_vars => IInv' /\ KeepsHistory
<1> SUFFICES ASSUME IInv, [Next]_vars PROVE IInv' /\ KeepsHistory OBVIOUS
<1>1. CASE \E k \in Keys : Ingest(k) BY <1>1, IngestKeeps
<1>2. ASSUME NEW q \in Requests, Change(q) \/ Record(q) \/ Fail(q)
      PROVE  IInv' /\ KeepsHistory
  <2>1. CASE \E k \in Keys : EnterManual(q, k)
    BY <2>1, CreateKeeps DEF EnterManual
  <2>2. CASE \E k \in Keys : EnterEstimated(q, k)
    <3>1. "estimated" \in Entered BY DEF Entered
    <3> QED BY <2>2, <3>1, CreateKeeps DEF EnterEstimated
  <2>3. CASE \E lines \in SUBSET Keys, source \in {"manual", "import"} :
               ImportCsv(q, lines, source)
    BY <2>3, ImportKeeps
  <2>4. CASE (\E k \in Keys : FindOriginal(q, k)) \/ Record(q) \/ Fail(q)
    BY <2>4, RequestSteps
  <2>5. CASE \E k \in Keys : Correct(q, k) BY <2>5, CorrectStep
  <2> QED BY <1>2, <2>1, <2>2, <2>3, <2>4, <2>5 DEF Change
<1>3. CASE UNCHANGED vars
  <2>1. UNCHANGED <<reading, event, auditLog, changeLog, request>>
    BY <1>3 DEF vars, logs
  <2>2. /\ request' \in [Requests -> Request] /\ RequestsAreTrue' /\ LogsAreTrue'
    BY <2>1 DEF IInv, TypeOK, RequestsAreTrue, LogsAreTrue, Present, Exists
  <2> QED BY <2>1, <2>2, QuietKeeps
<1> QED BY <1>1, <1>2, <1>3 DEF Next

\* The inductive invariant: types, requests that work on what is there, blank
\* entries, a recorded and acyclic lineage, true logs.
THEOREM InvariantHolds == Spec => []IInv
<1>1. IInv /\ [Next]_vars => IInv' BY StepHolds
<1> QED BY InitHolds, <1>1, PTL DEF Spec

\* Every variable of the reading history keeps its type.
THEOREM TypeCorrect == Spec => []TypeOK
<1>1. IInv => TypeOK BY DEF IInv
<1> QED BY <1>1, InvariantHolds, PTL

\* A correction's row, the original's status and the event always agree
\* (reading-corrections/route.ts, the transaction).
THEOREM CorrectionsAreRecorded == Spec => []LineageIsRecorded
<1>1. IInv => LineageIsRecorded BY DEF IInv
<1> QED BY <1>1, InvariantHolds, PTL

\* No chain of corrections is circular, for any number of readings, users and
\* corrections of corrections.
THEOREM NoCircularCorrection == Spec => []LineageIsAcyclic
<1>1. IInv => LineageIsAcyclic BY DEF IInv
<1> QED BY <1>1, InvariantHolds, PTL

\* The logs report only what is stored.
THEOREM LogsReportFacts == Spec => []LogsAreTrue
<1>1. IInv => LogsAreTrue BY DEF IInv
<1> QED BY <1>1, InvariantHolds, PTL

\* No step takes back a reading, its origin, its lineage or its supersession.
THEOREM NothingIsTakenBack == Spec => HistoryIsPermanent
<1>1. IInv /\ [Next]_vars => [KeepsHistory]_vars BY StepHolds
<1> QED BY <1>1, InvariantHolds, PTL DEF Spec, HistoryIsPermanent

(***************************************************************************)
(* Sums over finite sets.  The provers have no induction over sets: a      *)
(* formula that fails for some set fails for a smallest one.               *)
(***************************************************************************)
Less == {ss \in Nat \X Nat : ss[1] < ss[2]}

\* Every set of numbers has a least one.
LEMMA LeastNumber ==
    ASSUME NEW N \in SUBSET Nat, N # {}
    PROVE  \E n \in N : \A m \in N : n <= m
<1>1. IsWellFoundedOn(Less, Nat)
  BY NatLessThanWellFounded DEF OpToRel, Less
<1>2. PICK n \in N : \A m \in N : ~(<<m, n>> \in Less)
  BY <1>1, WFMin
<1>3. \A m \in N : n <= m
  <2> SUFFICES ASSUME NEW m \in N
               PROVE  n <= m
      OBVIOUS
  <2>1. <<m, n>> \in Nat \X Nat /\ <<m, n>> \notin Less
    BY <1>2
  <2>2. ~(<<m, n>>[1] < <<m, n>>[2])
    BY <2>1 DEF Less
  <2> QED BY <2>1, <2>2
<1> QED BY <1>3

\* Every family of subsets of a finite set has a smallest one.
LEMMA SmallestSet ==
    ASSUME NEW S, IsFiniteSet(S), NEW F \in SUBSET (SUBSET S), F # {}
    PROVE  \E T \in F : \A U \in F : U \subseteq T => U = T
<1>1. F \subseteq FiniteSubsetsOf(S)
  BY FS_Subset DEF FiniteSubsetsOf
<1>2. PICK T \in F : \A U \in F : ~(<<U, T>> \in StrictSubsetOrdering(S))
  BY <1>1, FS_StrictSubsetOrderingWellFounded, WFMin
<1>3. \A U \in F : U \subseteq T => U = T
  <2> SUFFICES ASSUME NEW U \in F, U \subseteq T, U # T
               PROVE  FALSE
      OBVIOUS
  <2>1. <<U, T>> \in (SUBSET S) \X (SUBSET S) /\ <<U, T>> \notin StrictSubsetOrdering(S)
    BY <1>2
  <2> QED BY <2>1 DEF StrictSubsetOrdering
<1> QED BY <1>3

\* g adds up f over the sets of F, one member at a time, as the fold of the model does.
Pick(s) == CHOOSE x \in s : TRUE
AddsUp(g, f, F) ==
    g = [s \in F |-> IF s = {} THEN 0 ELSE f[Pick(s)] + g[s \ {Pick(s)}]]
SumOf(f, S) == (CHOOSE g : AddsUp(g, f, SUBSET S))[S]

\* A finite set can be added up: if not, take the least number of members that cannot.
LEMMA AddingUpExists ==
    ASSUME NEW f, NEW S, IsFiniteSet(S)
    PROVE  \E g : AddsUp(g, f, SUBSET S)
<1> DEFINE W(n) == {T \in SUBSET S : Cardinality(T) <= n}
           Bad == {n \in Nat : ~\E g : AddsUp(g, f, W(n))}
<1>1. \A T \in SUBSET S : IsFiniteSet(T) /\ Cardinality(T) \in Nat
  BY FS_Subset, FS_CardinalityType
<1>2. ASSUME NEW n \in Bad, \A m \in Bad : n <= m PROVE FALSE
  <2>1. CASE n = 0
    <3> DEFINE g == [s \in W(0) |-> 0]
    <3>1. \A s \in W(0) : s = {}
      BY <1>1, FS_EmptySet
    <3> HIDE DEF W
    <3>2. AddsUp(g, f, W(0))
      BY <3>1 DEF AddsUp
    <3> QED BY <2>1, <3>2
  <2>2. CASE n # 0
    <3>1. n - 1 \in Nat /\ n - 1 \notin Bad
      <4>1. n \in Nat
        OBVIOUS
      <4> HIDE DEF Bad
      <4> QED BY <4>1, <1>2, <2>2
    <3>2. PICK g : AddsUp(g, f, W(n - 1))
      BY <3>1
    <3> DEFINE h == [s \in W(n) |-> IF s = {} THEN 0 ELSE f[Pick(s)] + g[s \ {Pick(s)}]]
    <3>3. ASSUME NEW s \in W(n), s # {}
          PROVE  s \ {Pick(s)} \in W(n - 1) /\ s \ {Pick(s)} \in W(n)
      <4>1. Pick(s) \in s
        BY <3>3 DEF Pick
      <4>2. Cardinality(s \ {Pick(s)}) = Cardinality(s) - 1
        BY <1>1, <4>1, FS_RemoveElement
      <4> QED BY <1>1, <4>2
    <3>4. \A t \in W(n - 1) :
            g[t] = IF t = {} THEN 0 ELSE f[Pick(t)] + g[t \ {Pick(t)}]
      BY <3>2 DEF AddsUp
    <3> HIDE DEF W
    <3>5. \A t \in W(n) : h[t] = IF t = {} THEN 0 ELSE f[Pick(t)] + g[t \ {Pick(t)}]
      OBVIOUS
    <3>6. \A s \in W(n) : s # {} => h[s \ {Pick(s)}] = g[s \ {Pick(s)}]
      BY <3>3, <3>4, <3>5
    <3>7. h = [s \in W(n) |-> IF s = {} THEN 0 ELSE f[Pick(s)] + h[s \ {Pick(s)}]]
      BY <3>6
    <3>8. AddsUp(h, f, W(n))
      BY <3>7, Zenon DEF AddsUp
    <3> QED BY <3>8
  <2> QED BY <2>1, <2>2
<1>3. Bad = {}
  <2> HIDE DEF Bad
  <2>1. Bad \in SUBSET Nat
    BY DEF Bad
  <2> QED BY <1>2, <2>1, LeastNumber
<1>4. W(Cardinality(S)) = SUBSET S
  BY <1>1, FS_Subset
<1>5. Cardinality(S) \in Nat
  BY FS_CardinalityType
<1> QED BY <1>3, <1>4, <1>5

\* The function that the fold chooses is one that adds up.
LEMMA AddsUpHere ==
    ASSUME NEW f, NEW S, IsFiniteSet(S)
    PROVE  AddsUp(CHOOSE g : AddsUp(g, f, SUBSET S), f, SUBSET S)
BY AddingUpExists, Zenon

\* What is added up over a set does not depend on the sets around it.
LEMMA AddsUpAlike ==
    ASSUME NEW f, NEW S, IsFiniteSet(S), NEW T \in SUBSET S, NEW g, NEW h,
           AddsUp(g, f, SUBSET S), AddsUp(h, f, SUBSET T)
    PROVE  g[T] = h[T]
<1> DEFINE Bad == {U \in SUBSET T : g[U] # h[U]}
<1>1. \A U \in SUBSET T :
        /\ g[U] = IF U = {} THEN 0 ELSE f[Pick(U)] + g[U \ {Pick(U)}]
        /\ h[U] = IF U = {} THEN 0 ELSE f[Pick(U)] + h[U \ {Pick(U)}]
  BY DEF AddsUp
<1>2. ASSUME NEW U \in Bad, \A V \in Bad : V \subseteq U => V = U PROVE FALSE
  <2>1. U # {}
    BY <1>1
  <2>2. Pick(U) \in U
    BY <2>1 DEF Pick
  <2>3. U \ {Pick(U)} \in SUBSET T /\ U \ {Pick(U)} \notin Bad
    BY <1>2, <2>2
  <2>4. g[U \ {Pick(U)}] = h[U \ {Pick(U)}]
    BY <2>3
  <2>5. g[U] = h[U]
    BY <1>1, <2>4
  <2> QED BY <2>5
<1>3. IsFiniteSet(T)
  BY FS_Subset
<1>4. Bad = {}
  <2> HIDE DEF Bad
  <2>1. Bad \in SUBSET (SUBSET T)
    BY DEF Bad
  <2> QED BY <1>2, <1>3, <2>1, SmallestSet
<1> QED BY <1>4

\* A sum takes out the member that the fold picks.
LEMMA SumStep ==
    ASSUME NEW f, NEW S, IsFiniteSet(S)
    PROVE  /\ SumOf(f, {}) = 0
           /\ S # {} => /\ Pick(S) \in S
                        /\ SumOf(f, S) = f[Pick(S)] + SumOf(f, S \ {Pick(S)})
<1> DEFINE G(T) == CHOOSE g : AddsUp(g, f, SUBSET T)
<1>1. ASSUME NEW T, IsFiniteSet(T)
      PROVE  AddsUp(G(T), f, SUBSET T)
  BY <1>1, AddsUpHere
<1>2. ASSUME NEW T, IsFiniteSet(T), NEW U \in SUBSET T
      PROVE  G(T)[U] = IF U = {} THEN 0 ELSE f[Pick(U)] + G(T)[U \ {Pick(U)}]
  <2> HIDE DEF G
  <2> QED BY <1>1, <1>2 DEF AddsUp
<1>3. SumOf(f, {}) = 0
  BY <1>2, FS_EmptySet DEF SumOf
<1>4. ASSUME S # {}
      PROVE  Pick(S) \in S /\ SumOf(f, S) = f[Pick(S)] + SumOf(f, S \ {Pick(S)})
  <2>1. Pick(S) \in S
    BY <1>4 DEF Pick
  <2> DEFINE T == S \ {Pick(S)}
  <2>2. T \in SUBSET S /\ IsFiniteSet(T)
    BY FS_Subset
  <2>3. G(S)[T] = G(T)[T]
    <3>1. AddsUp(G(S), f, SUBSET S) /\ AddsUp(G(T), f, SUBSET T)
      <4> HIDE DEF G, T
      <4> QED BY <1>1, <2>2
    <3> HIDE DEF G, T
    <3> QED BY <2>2, <3>1, AddsUpAlike
  <2>4. G(S)[S] = f[Pick(S)] + G(S)[T]
    BY <1>2, <1>4
  <2> QED BY <2>1, <2>3, <2>4 DEF SumOf
<1> QED BY <1>3, <1>4

\* A sum of integers is one.
LEMMA SumIsInt ==
    ASSUME NEW f, NEW S, IsFiniteSet(S), \A x \in S : f[x] \in Int
    PROVE  SumOf(f, S) \in Int
<1> DEFINE Bad == {T \in SUBSET S : SumOf(f, T) \notin Int}
<1>1. ASSUME NEW T \in Bad, \A U \in Bad : U \subseteq T => U = T PROVE FALSE
  <2>1. IsFiniteSet(T)
    BY FS_Subset
  <2>2. T # {}
    <3>1. SumOf(f, {}) = 0
      BY SumStep, <2>1
    <3> QED BY <3>1
  <2>3. Pick(T) \in T /\ SumOf(f, T) = f[Pick(T)] + SumOf(f, T \ {Pick(T)})
    BY <2>1, <2>2, SumStep
  <2>4. SumOf(f, T \ {Pick(T)}) \in Int
    BY <1>1, <2>3
  <2> QED BY <2>3, <2>4
<1>2. Bad = {}
  <2> HIDE DEF Bad
  <2>1. Bad \in SUBSET (SUBSET S)
    BY DEF Bad
  <2> QED BY <1>1, <2>1, SmallestSet
<1> QED BY <1>2

\* Any member may be taken out of a sum first.
LEMMA SumRemove ==
    ASSUME NEW f, NEW S, IsFiniteSet(S), \A x \in S : f[x] \in Int, NEW x \in S
    PROVE  SumOf(f, S) = f[x] + SumOf(f, S \ {x})
<1> DEFINE Bad == {T \in SUBSET S :
                     \E y \in T : SumOf(f, T) # f[y] + SumOf(f, T \ {y})}
<1>1. \A T \in SUBSET S : IsFiniteSet(T) /\ SumOf(f, T) \in Int
  BY FS_Subset, SumIsInt
<1>2. ASSUME NEW T \in Bad, \A U \in Bad : U \subseteq T => U = T PROVE FALSE
  <2>1. PICK y \in T : SumOf(f, T) # f[y] + SumOf(f, T \ {y})
    OBVIOUS
  <2> DEFINE z == Pick(T)
             R == T \ {y, z}
  <2>2. z \in T /\ SumOf(f, T) = f[z] + SumOf(f, T \ {z})
    BY <1>1, SumStep
  <2> HIDE DEF z
  <2>3. z # y
    BY <2>1, <2>2
  <2>4. \A U \in SUBSET T : U # T => U \notin Bad
    BY <1>2
  <2> DEFINE P == T \ {z}
             Q == T \ {y}
  <2>5. SumOf(f, P) = f[y] + SumOf(f, R)
    <3>1. y \in P /\ P \notin Bad /\ P \in SUBSET S
      BY <2>2, <2>3, <2>4
    <3>2. P \ {y} = R
      OBVIOUS
    <3>3. SumOf(f, P) = f[y] + SumOf(f, P \ {y})
      BY <3>1
    <3> QED BY <3>2, <3>3, Zenon
  <2>6. SumOf(f, Q) = f[z] + SumOf(f, R)
    <3>1. z \in Q /\ Q \notin Bad /\ Q \in SUBSET S
      BY <2>2, <2>3, <2>4
    <3>2. Q \ {z} = R
      OBVIOUS
    <3>3. SumOf(f, Q) = f[z] + SumOf(f, Q \ {z})
      BY <3>1
    <3> QED BY <3>2, <3>3, Zenon
  <2>7. f[y] \in Int /\ f[z] \in Int
    BY <2>2
  <2>8. SumOf(f, R) \in Int
    <3>1. R \in SUBSET S
      OBVIOUS
    <3> QED BY <1>1, <3>1
  <2>9. SumOf(f, T) = f[z] + SumOf(f, P) /\ SumOf(f, T) # f[y] + SumOf(f, Q)
    BY <2>1, <2>2
  <2> HIDE DEF P, Q, R
  <2> QED BY <2>5, <2>6, <2>7, <2>8, <2>9
<1>3. Bad = {}
  <2> HIDE DEF Bad
  <2>1. Bad \in SUBSET (SUBSET S)
    BY DEF Bad
  <2> QED BY <1>2, <2>1, SmallestSet
<1>4. S \in SUBSET S /\ S \notin Bad
  BY <1>3
<1> QED BY <1>4

\* The sum over two disjoint sets is the sum of their sums.
LEMMA SumUnion ==
    ASSUME NEW f, NEW A, NEW B, IsFiniteSet(A), IsFiniteSet(B), A \cap B = {},
           \A x \in A \cup B : f[x] \in Int
    PROVE  SumOf(f, A \cup B) = SumOf(f, A) + SumOf(f, B)
<1> DEFINE S == A \cup B
           Bad == {T \in SUBSET S :
                     SumOf(f, T) # SumOf(f, T \cap A) + SumOf(f, T \cap B)}
<1>1. \A T \in SUBSET S : IsFiniteSet(T)
  BY FS_Union, FS_Subset
<1>2. \A T \in SUBSET S : SumOf(f, T) \in Int
  BY <1>1, SumIsInt
<1>3. ASSUME NEW T \in Bad, \A U \in Bad : U \subseteq T => U = T PROVE FALSE
  <2>1. T \in SUBSET S /\ SumOf(f, T) # SumOf(f, T \cap A) + SumOf(f, T \cap B)
    OBVIOUS
  <2>2. T # {}
    <3>1. SumOf(f, {}) = 0
      BY SumStep, FS_EmptySet
    <3> SUFFICES ASSUME T = {}
                 PROVE  FALSE
        OBVIOUS
    <3>2. T \cap A = {} /\ T \cap B = {}
      OBVIOUS
    <3>3. SumOf(f, T) = 0 /\ SumOf(f, T \cap A) = 0 /\ SumOf(f, T \cap B) = 0
      BY <3>1, <3>2, Zenon
    <3> QED BY <2>1, <3>3
  <2>3. PICK x \in T : TRUE
    BY <2>2
  <2>4. PICK C, D : /\ {C, D} = {A, B} /\ x \in C /\ x \notin D
                    /\ SumOf(f, T) # SumOf(f, T \cap C) + SumOf(f, T \cap D)
    <3>1. CASE x \in A
      BY <2>1, <3>1
    <3>2. CASE x \in B
      <4>1. SumOf(f, T \cap A) \in Int /\ SumOf(f, T \cap B) \in Int
        BY <1>2
      <4>2. SumOf(f, T) # SumOf(f, T \cap B) + SumOf(f, T \cap A)
        BY <4>1, <2>1
      <4> QED BY <4>2, <3>2
    <3> QED BY <3>1, <3>2
  <2> DEFINE R == T \ {x}
  <2>5. SumOf(f, R) = SumOf(f, R \cap C) + SumOf(f, R \cap D)
    <3>1. R \in SUBSET S /\ R \notin Bad
      BY <1>3
    <3>2. SumOf(f, R) = SumOf(f, R \cap A) + SumOf(f, R \cap B)
      BY <3>1
    <3>3. SumOf(f, R \cap A) \in Int /\ SumOf(f, R \cap B) \in Int
      BY <1>2
    <3>4. (C = A /\ D = B) \/ (C = B /\ D = A)
      BY <2>4
    <3> DEFINE Part(X) == SumOf(f, R \cap X)
    <3>5. SumOf(f, R) = Part(C) + Part(D)
      <4>1. SumOf(f, R) = Part(A) + Part(B) /\ Part(A) \in Int /\ Part(B) \in Int
        BY <3>2, <3>3
      <4> HIDE DEF R, Part
      <4> QED BY <4>1, <3>4
    <3> QED BY <3>5
  <2>6. SumOf(f, T) = f[x] + SumOf(f, R) /\ f[x] \in Int
    BY <1>1, SumRemove
  <2>7. SumOf(f, T \cap C) = f[x] + SumOf(f, R \cap C)
    <3>1. x \in T \cap C /\ T \cap C \in SUBSET S
      BY <2>4
    <3>2. (T \cap C) \ {x} = R \cap C
      OBVIOUS
    <3>3. SumOf(f, T \cap C) = f[x] + SumOf(f, (T \cap C) \ {x})
      BY <3>1, <1>1, SumRemove
    <3> QED BY <3>2, <3>3, Zenon
  <2>8. SumOf(f, T \cap D) = SumOf(f, R \cap D)
    <3>1. T \cap D = R \cap D
      BY <2>4
    <3> QED BY <3>1, Zenon
  <2>9. SumOf(f, R \cap C) \in Int /\ SumOf(f, R \cap D) \in Int
    <3>1. R \cap C \in SUBSET S /\ R \cap D \in SUBSET S
      OBVIOUS
    <3> QED BY <1>2, <3>1
  <2>10. SumOf(f, T) # SumOf(f, T \cap C) + SumOf(f, T \cap D)
    BY <2>4
  <2> HIDE DEF R
  <2> QED BY <2>5, <2>6, <2>7, <2>8, <2>9, <2>10
<1>4. Bad = {}
  <2> HIDE DEF Bad
  <2>1. Bad \in SUBSET (SUBSET S)
    BY DEF Bad
  <2>2. IsFiniteSet(S)
    BY <1>1
  <2> HIDE DEF S
  <2> QED BY <1>3, <2>1, <2>2, SmallestSet
<1>5. S \cap A = A /\ S \cap B = B /\ S \in SUBSET S /\ S \notin Bad
  BY <1>4
<1> QED BY <1>5

\* The sum over one member, and over none.
LEMMA SumOne ==
    ASSUME NEW f, NEW x, f[x] \in Int
    PROVE  SumOf(f, {x}) = f[x]
<1>1. /\ Pick({x}) \in {x}
      /\ SumOf(f, {x}) = f[Pick({x})] + SumOf(f, {x} \ {Pick({x})})
  BY SumStep, FS_Singleton
<1>2. Pick({x}) = x /\ {x} \ {Pick({x})} = {}
  BY <1>1
<1>3. SumOf(f, {}) = 0
  BY SumStep, FS_EmptySet
<1>4. SumOf(f, {x}) = f[x] + 0
  BY <1>1, <1>2, <1>3, Zenon
<1> QED BY <1>4

\* A sum depends on the values of its members only.
LEMMA SumAlike ==
    ASSUME NEW f, NEW g, NEW S, IsFiniteSet(S), \A x \in S : f[x] = g[x]
    PROVE  SumOf(f, S) = SumOf(g, S)
<1> DEFINE Bad == {T \in SUBSET S : SumOf(f, T) # SumOf(g, T)}
<1>1. ASSUME NEW T \in Bad, \A U \in Bad : U \subseteq T => U = T PROVE FALSE
  <2>1. IsFiniteSet(T)
    BY FS_Subset
  <2>2. T # {}
    <3>1. SumOf(f, {}) = 0 /\ SumOf(g, {}) = 0
      BY SumStep, FS_EmptySet
    <3> QED BY <3>1
  <2>3. /\ Pick(T) \in T
        /\ SumOf(f, T) = f[Pick(T)] + SumOf(f, T \ {Pick(T)})
        /\ SumOf(g, T) = g[Pick(T)] + SumOf(g, T \ {Pick(T)})
    BY <2>1, <2>2, SumStep
  <2>4. SumOf(f, T \ {Pick(T)}) = SumOf(g, T \ {Pick(T)})
    BY <1>1, <2>3
  <2>5. f[Pick(T)] = g[Pick(T)]
    BY <2>3
  <2>6. SumOf(f, T) = SumOf(g, T)
    BY <2>3, <2>4, <2>5, Zenon
  <2> QED BY <2>6
<1>2. Bad = {}
  <2> HIDE DEF Bad
  <2>1. Bad \in SUBSET (SUBSET S)
    BY DEF Bad
  <2> QED BY <1>1, <2>1, SmallestSet
<1> QED BY <1>2

\* Products of integers, for the steps that must not look into them.
LEMMA Distributes ==
    ASSUME NEW m \in Int, NEW a \in Int, NEW b \in Int
    PROVE  m * a + m * b = m * (a + b) /\ m * a \in Int
OBVIOUS

LEMMA Commutes ==
    ASSUME NEW m \in Int, NEW a \in Int
    PROVE  m * a = a * m
OBVIOUS

\* Sums are linear.
LEMMA SumLinear ==
    ASSUME NEW f, NEW g, NEW h, NEW n \in Int, NEW S, IsFiniteSet(S),
           \A x \in S : /\ f[x] \in Int /\ g[x] \in Int
                       /\ h[x] = n * f[x] + g[x]
    PROVE  SumOf(h, S) = n * SumOf(f, S) + SumOf(g, S)
<1> DEFINE Bad == {T \in SUBSET S : SumOf(h, T) # n * SumOf(f, T) + SumOf(g, T)}
<1>1. ASSUME NEW T \in Bad, \A U \in Bad : U \subseteq T => U = T PROVE FALSE
  <2>1. IsFiniteSet(T)
    BY FS_Subset
  <2>2. T # {}
    <3>1. SumOf(f, {}) = 0 /\ SumOf(g, {}) = 0 /\ SumOf(h, {}) = 0
      BY SumStep, FS_EmptySet
    <3>2. SumOf(h, {}) = n * SumOf(f, {}) + SumOf(g, {})
      BY <3>1
    <3> QED BY <3>2
  <2> DEFINE x == Pick(T)
             R == T \ {x}
  <2>3. /\ x \in T
        /\ SumOf(f, T) = f[x] + SumOf(f, R)
        /\ SumOf(g, T) = g[x] + SumOf(g, R)
        /\ SumOf(h, T) = h[x] + SumOf(h, R)
    BY <2>1, <2>2, SumStep
  <2> HIDE DEF x
  <2>4. SumOf(h, R) = n * SumOf(f, R) + SumOf(g, R)
    BY <1>1, <2>3
  <2>5. f[x] \in Int /\ g[x] \in Int /\ h[x] = n * f[x] + g[x]
    BY <2>3
  <2>6. SumOf(f, R) \in Int /\ SumOf(g, R) \in Int
    <3>1. R \in SUBSET S /\ IsFiniteSet(R)
      BY FS_Subset
    <3> QED BY <3>1, SumIsInt
  <2>7. SumOf(h, T) # n * SumOf(f, T) + SumOf(g, T)
    OBVIOUS
  <2> HIDE DEF R, Bad
  <2>8. /\ n * f[x] + n * SumOf(f, R) = n * (f[x] + SumOf(f, R))
        /\ n * f[x] \in Int /\ n * SumOf(f, R) \in Int
    BY <2>5, <2>6, Distributes
  <2> QED BY <2>3, <2>4, <2>5, <2>6, <2>7, <2>8
<1>2. Bad = {}
  <2> HIDE DEF Bad
  <2>1. Bad \in SUBSET (SUBSET S)
    BY DEF Bad
  <2> QED BY <1>1, <2>1, SmallestSet
<1>3. S \in SUBSET S /\ S \notin Bad
  BY <1>2
<1> QED BY <1>3

\* Zeros add nothing.
LEMMA SumOfZeros ==
    ASSUME NEW f, NEW S, IsFiniteSet(S), \A x \in S : f[x] = 0
    PROVE  SumOf(f, S) = 0
<1>1. \A x \in S : f[x] \in Int /\ f[x] = 1 * f[x] + f[x]
  OBVIOUS
<1>2. SumOf(f, S) = 1 * SumOf(f, S) + SumOf(f, S)
  BY <1>1, SumLinear
<1>3. SumOf(f, S) \in Int
  BY <1>1, SumIsInt
<1>4. ASSUME NEW s \in Int, s = 1 * s + s PROVE s = 0
  BY <1>4
<1> QED BY <1>2, <1>3, <1>4

\* A sum may be taken group by group.
Group(q, S, j) == {i \in S : q[i] = j}

LEMMA SumByGroup ==
    ASSUME NEW f, NEW S, IsFiniteSet(S), NEW J, IsFiniteSet(J),
           \A i \in S : f[i] \in Int, NEW q, \A i \in S : q[i] \in J
    PROVE  SumOf(f, S) = SumOf([j \in J |-> SumOf(f, Group(q, S, j))], J)
<1> DEFINE h == [j \in J |-> SumOf(f, Group(q, S, j))]
           In(K) == {i \in S : q[i] \in K}
           Bad == {K \in SUBSET J : SumOf(f, In(K)) # SumOf(h, K)}
<1>1. \A U \in SUBSET S : IsFiniteSet(U) /\ SumOf(f, U) \in Int
  BY FS_Subset, SumIsInt
<1>2. \A j \in J : h[j] = SumOf(f, Group(q, S, j)) /\ h[j] \in Int
  BY <1>1 DEF Group
<1> HIDE DEF h
<1>3. ASSUME NEW K \in Bad, \A U \in Bad : U \subseteq K => U = K PROVE FALSE
  <2>1. IsFiniteSet(K)
    BY FS_Subset
  <2>2. K # {}
    <3> SUFFICES ASSUME K = {}
                 PROVE  FALSE
        OBVIOUS
    <3>1. SumOf(f, {}) = 0 /\ SumOf(h, {}) = 0
      BY SumStep, FS_EmptySet
    <3>2. In(K) = {} /\ SumOf(f, In(K)) # SumOf(h, K)
      OBVIOUS
    <3> QED BY <3>1, <3>2
  <2> DEFINE j == Pick(K)
             R == K \ {j}
  <2>3. j \in K /\ SumOf(h, K) = h[j] + SumOf(h, R)
    BY <2>1, <2>2, SumStep
  <2> HIDE DEF j
  <2>4. SumOf(f, In(R)) = SumOf(h, R)
    BY <1>3, <2>3
  <2>5. /\ In(K) = Group(q, S, j) \cup In(R)
        /\ Group(q, S, j) \cap In(R) = {}
        /\ Group(q, S, j) \in SUBSET S /\ In(R) \in SUBSET S
    BY <2>3 DEF Group
  <2>6. SumOf(f, In(K)) = SumOf(f, Group(q, S, j)) + SumOf(f, In(R))
    <3> DEFINE A == Group(q, S, j)
               B == In(R)
    <3>1. /\ IsFiniteSet(A) /\ IsFiniteSet(B) /\ A \cap B = {}
          /\ \A i \in A \cup B : f[i] \in Int
      BY <1>1, <2>5
    <3> HIDE DEF A, B
    <3>2. SumOf(f, A \cup B) = SumOf(f, A) + SumOf(f, B)
      BY <3>1, SumUnion
    <3> QED BY <2>5, <3>2, Zenon DEF A, B
  <2>7. SumOf(f, In(K)) # SumOf(h, K)
    OBVIOUS
  <2>8. h[j] = SumOf(f, Group(q, S, j))
    BY <1>2, <2>3
  <2>9. SumOf(f, In(K)) = SumOf(h, K)
    BY <2>3, <2>4, <2>6, <2>8, Zenon
  <2> QED BY <2>7, <2>9
<1>4. Bad = {}
  <2> HIDE DEF Bad
  <2>1. Bad \in SUBSET (SUBSET J)
    BY DEF Bad
  <2> QED BY <1>3, <2>1, SmallestSet
<1>5. In(J) = S /\ J \in SUBSET J /\ J \notin Bad
  BY <1>4
<1>6. SumOf(f, S) = SumOf(h, J)
  BY <1>5, Zenon
<1> QED BY <1>6 DEF h

\* A sum over the members of a set is one over the places where they are listed.
LEMMA SumOverPlaces ==
    ASSUME NEW f, NEW S, IsFiniteSet(S), NEW q,
           \A i, j \in S : q[i] = q[j] => i = j,
           \A i \in S : f[q[i]] \in Int
    PROVE  SumOf([i \in S |-> f[q[i]]], S) = SumOf(f, {q[i] : i \in S})
<1> DEFINE g == [i \in S |-> f[q[i]]]
           J == {q[i] : i \in S}
           h == [j \in J |-> SumOf(g, Group(q, S, j))]
<1>1. IsFiniteSet(J)
  <2> DEFINE onto == [i \in S |-> q[i]]
  <2>1. onto \in Surjection(S, J)
    BY DEF Surjection
  <2> HIDE DEF onto, J
  <2> QED BY <2>1, FS_Surjection
<1>2. SumOf(g, S) = SumOf(h, J)
  <2>1. (\A i \in S : g[i] \in Int) /\ \A i \in S : q[i] \in J
    OBVIOUS
  <2> HIDE DEF g, J
  <2> QED BY <1>1, <2>1, SumByGroup
<1>3. \A j \in J : h[j] = f[j]
  <2> SUFFICES ASSUME NEW i \in S
               PROVE  h[q[i]] = f[q[i]]
      OBVIOUS
  <2>1. Group(q, S, q[i]) = {i}
    BY DEF Group
  <2>2. g[i] = f[q[i]] /\ g[i] \in Int
    OBVIOUS
  <2> HIDE DEF g
  <2>3. SumOf(g, {i}) = f[q[i]]
    BY <2>2, SumOne
  <2>4. h[q[i]] = SumOf(g, Group(q, S, q[i]))
    OBVIOUS
  <2> QED BY <2>1, <2>3, <2>4, Zenon
<1> HIDE DEF g, h, J
<1>4. SumOf(h, J) = SumOf(f, J)
  BY <1>1, <1>3, SumAlike
<1>5. SumOf(g, S) = SumOf(f, J)
  BY <1>2, <1>4
<1> QED BY <1>5 DEF g, J

\* A finite set has a member whose f is lowest.
LEMMA LowestMember ==
    ASSUME NEW f, NEW S, IsFiniteSet(S), S # {}, \A x \in S : f[x] \in Int
    PROVE  \E x \in S : \A y \in S : f[x] <= f[y]
<1> DEFINE Below(x) == {y \in S : f[y] <= f[x]}
           F == {Below(x) : x \in S}
<1>1. PICK T \in F : \A U \in F : U \subseteq T => U = T
  <2>1. F \in SUBSET (SUBSET S) /\ F # {}
    OBVIOUS
  <2> HIDE DEF F
  <2> QED BY <2>1, SmallestSet
<1>2. PICK x \in S : T = Below(x)
  OBVIOUS
<1>3. ASSUME NEW y \in S PROVE f[x] <= f[y]
  <2> SUFFICES ASSUME f[y] < f[x]
               PROVE  FALSE
      OBVIOUS
  <2>1. Below(y) \in F
    OBVIOUS
  <2>2. Below(y) \subseteq T
    BY <1>2
  <2>3. x \notin Below(y) /\ x \in T
    BY <1>2
  <2> QED BY <1>1, <2>1, <2>2, <2>3
<1> QED BY <1>3

\* And one whose f is highest.
LEMMA HighestMember ==
    ASSUME NEW f, NEW S, IsFiniteSet(S), S # {}, \A x \in S : f[x] \in Int
    PROVE  \E x \in S : \A y \in S : f[y] <= f[x]
<1> DEFINE g == [x \in S |-> -f[x]]
<1>1. \A x \in S : g[x] \in Int
  OBVIOUS
<1>2. PICK x \in S : \A y \in S : g[x] <= g[y]
  <2> HIDE DEF g
  <2> QED BY <1>1, LowestMember
<1>3. \A y \in S : f[y] <= f[x]
  BY <1>2
<1> QED BY <1>3

(***************************************************************************)
(* Consumption: what the billing engine makes of a history.                *)
(***************************************************************************)
\* Timestamps and instants are comparable.
LEMMA TimeIsInt ==
    ASSUME NEW p \in Period
    PROVE  /\ p[1] \in Int /\ p[2] \in Int /\ p[1] < p[2]
           /\ \A k \in Present : k \in Keys /\ Time[k] \in Int
BY ConsumptionAssumption DEF Period, Present

\* The readings of an interval meter that two adjacent periods bill are those of both
\* periods together, and none is billed twice (computeMeterConsumption, gt and lte).
THEOREM AdjacentPeriodsPartition ==
    ASSUME NEW p \in Period, NEW q \in Period, p[2] = q[1]
    PROVE  /\ Within(p[1], p[2]) \cup Within(q[1], q[2]) = Within(p[1], q[2])
           /\ Within(p[1], p[2]) \cap Within(q[1], q[2]) = {}
<1>1. /\ p[1] \in Int /\ p[2] \in Int /\ q[2] \in Int
      /\ p[1] < p[2] /\ p[2] < q[2]
  BY TimeIsInt
<1>2. \A k \in Present : Time[k] \in Int BY TimeIsInt
<1>3. Within(p[1], p[2]) \cup Within(q[1], q[2]) \subseteq Within(p[1], q[2])
  BY <1>1, <1>2 DEF Within
<1>4. Within(p[1], q[2]) \subseteq Within(p[1], p[2]) \cup Within(q[1], q[2])
  BY <1>1, <1>2 DEF Within
<1>5. Within(p[1], p[2]) \cap Within(q[1], q[2]) = {}
  BY <1>1, <1>2 DEF Within
<1> QED BY <1>3, <1>4, <1>5

\* In a meter that rises, a reading not after another is not above it.
LEMMA RisingValues ==
    ASSUME InOrder, Distinct
    PROVE  \A j, k \in Present : Time[j] <= Time[k] => Value[j] <= Value[k]
<1>1. \A k \in Present : Time[k] \in Int /\ Value[k] \in Int
  BY ConsumptionAssumption DEF Present
<1>2. SUFFICES ASSUME NEW j \in Present, NEW k \in Present, Time[j] <= Time[k]
               PROVE  Value[j] <= Value[k]
  OBVIOUS
<1>3. CASE Time[j] = Time[k]
  <2>1. j = k BY <1>3 DEF Distinct
  <2> QED BY <2>1, <1>1
<1>4. CASE Time[j] < Time[k]
  BY <1>4 DEF InOrder
<1> QED BY <1>1, <1>2, <1>3, <1>4

\* A cumulative meter that rises opens a period where it closed the one before: what
\* two adjacent periods bill is what both together would (diff, endValue - startValue).
THEOREM AdjacentDeltasAddUp ==
    ASSUME NEW p \in Period, NEW q \in Period, p[2] = q[1], InOrder, Distinct,
           NEW start \in Latest(p[1]), NEW closing \in Latest(p[2]),
           NEW opening \in Latest(q[1]), NEW end \in Latest(q[2])
    PROVE  Delta(start, closing) + Delta(opening, end) = Delta(start, end)
<1>1. /\ p[1] \in Int /\ p[2] \in Int /\ q[2] \in Int
      /\ p[1] < p[2] /\ p[2] < q[2]
  BY TimeIsInt
<1>2. \A k \in Present : Time[k] \in Int /\ Value[k] \in Int
  BY TimeIsInt, ConsumptionAssumption
<1>3. /\ start \in Until(p[1]) /\ closing \in Until(p[2])
      /\ opening \in Until(p[2]) /\ end \in Until(q[2])
  BY DEF Latest
<1>4. {start, closing, opening, end} \subseteq Present BY <1>3 DEF Until
<1>5. closing = opening
  <2>1. Time[closing] <= Time[opening] /\ Time[opening] <= Time[closing]
    BY <1>3 DEF Latest
  <2> QED BY <2>1, <1>2, <1>4 DEF Distinct
<1>6. start \in Until(p[2]) /\ closing \in Until(q[2])
  BY <1>1, <1>2, <1>3, <1>4 DEF Until
<1>7. Time[start] <= Time[closing] /\ Time[closing] <= Time[end]
  BY <1>6 DEF Latest
<1>8. \A j, k \in Present : Time[j] <= Time[k] => Value[j] <= Value[k]
  BY RisingValues
<1>9. Value[start] <= Value[closing] /\ Value[closing] <= Value[end]
  BY <1>7, <1>8, <1>4
<1> QED BY <1>2, <1>4, <1>5, <1>9 DEF Delta

\* What interval readings add up to is such a sum.
LEMMA ValuesAreSummed ==
    ASSUME NEW S
    PROVE  ValuesOf(S) = SumOf(Value, S)
BY DEF ValuesOf, MapThenSumSet, MapThenFoldSet, SumOf, AddsUp, Pick

\* The sets of readings that the engine looks at are finite.
LEMMA ReadingsAreFinite ==
    ASSUME NEW S \in SUBSET Present
    PROVE  /\ S \subseteq Keys /\ IsFiniteSet(S)
           /\ \A k \in S : Time[k] \in Int /\ Value[k] \in Int
<1>1. S \subseteq Keys
  BY DEF Present
<1> QED BY <1>1, FS_Subset, HistoryAssumption, ConsumptionAssumption

\* findFirst finds a reading if there is one.
LEMMA LatestExists ==
    ASSUME NEW t, Until(t) # {}
    PROVE  Latest(t) # {}
<1>1. Until(t) \in SUBSET Present
  BY DEF Until
<1>2. IsFiniteSet(Until(t)) /\ \A k \in Until(t) : Time[k] \in Int
  BY <1>1, ReadingsAreFinite
<1>3. PICK k \in Until(t) : \A j \in Until(t) : Time[j] <= Time[k]
  BY <1>2, HighestMember
<1> QED BY <1>3 DEF Latest

\* An interval meter: the readings of the two periods are those of both together.
LEMMA IntervalsAddUp ==
    ASSUME NEW p \in Period, NEW q \in Period, p[2] = q[1]
    PROVE  Interval(p[1], p[2]) + Interval(q[1], q[2]) = Interval(p[1], q[2])
<1> DEFINE A == Within(p[1], p[2])
           B == Within(q[1], q[2])
<1>1. A \cup B = Within(p[1], q[2]) /\ A \cap B = {}
  BY AdjacentPeriodsPartition
<1>2. /\ A \in SUBSET Present /\ B \in SUBSET Present
      /\ A \cup B \in SUBSET Present
  BY DEF Within
<1> HIDE DEF A, B
<1>3. /\ IsFiniteSet(A) /\ IsFiniteSet(B)
      /\ \A k \in A \cup B : Value[k] \in Int
  BY <1>2, ReadingsAreFinite
<1>4. SumOf(Value, A \cup B) = SumOf(Value, A) + SumOf(Value, B)
  BY <1>1, <1>3, SumUnion
<1>5. SumOf(Value, A) \in Int /\ SumOf(Value, B) \in Int
  BY <1>3, SumIsInt
<1>6. ValuesOf(Within(p[1], q[2])) = ValuesOf(A) + ValuesOf(B)
  BY <1>1, <1>4, ValuesAreSummed
<1>7. ValuesOf(A) \in Int /\ ValuesOf(B) \in Int
  BY <1>5, ValuesAreSummed
<1>8. Multiplier \in Int
  BY ConsumptionAssumption
<1> QED BY <1>6, <1>7, <1>8, Distributes DEF Interval, A, B

\* A cumulative meter that rises.
LEMMA DeltasAddUp ==
    ASSUME NEW p \in Period, NEW q \in Period, p[2] = q[1], InOrder, Distinct,
           Latest(p[1]) # {},
           NEW x \in Cumulative(p[1], p[2]), NEW y \in Cumulative(q[1], q[2])
    PROVE  x + y \in Cumulative(p[1], q[2])
<1>1. Latest(p[2]) # {} /\ Latest(q[1]) # {} /\ Latest(q[2]) # {}
  <2>1. Until(p[1]) # {}
    BY DEF Latest
  <2>2. Until(p[1]) \subseteq Until(p[2]) /\ Until(p[2]) \subseteq Until(q[2])
    BY TimeIsInt DEF Until
  <2> QED BY <2>1, <2>2, LatestExists
<1>2. PICK start \in Latest(p[1]), closing \in Latest(p[2]) :
        x = Multiplier * Delta(start, closing)
  BY <1>1 DEF Cumulative
<1>3. PICK opening \in Latest(q[1]), end \in Latest(q[2]) :
        y = Multiplier * Delta(opening, end)
  BY <1>1 DEF Cumulative
<1>4. Delta(start, closing) + Delta(opening, end) = Delta(start, end)
  BY AdjacentDeltasAddUp
<1>5. Delta(start, closing) \in Int /\ Delta(opening, end) \in Int
  <2>1. /\ Latest(p[1]) \in SUBSET Present /\ Latest(p[2]) \in SUBSET Present
        /\ Latest(q[1]) \in SUBSET Present /\ Latest(q[2]) \in SUBSET Present
    BY DEF Latest, Until
  <2>2. /\ Value[start] \in Int /\ Value[closing] \in Int
        /\ Value[opening] \in Int /\ Value[end] \in Int
    BY <2>1, ReadingsAreFinite
  <2> QED BY <2>2 DEF Delta
<1>6. Multiplier \in Int
  BY ConsumptionAssumption
<1>7. x + y = Multiplier * Delta(start, end)
  BY <1>2, <1>3, <1>4, <1>5, <1>6, Distributes
<1> QED BY <1>1, <1>7 DEF Cumulative

\* The bill of two adjacent periods is the bill of both together, in every history and
\* for every meter (computeMeterConsumption).
THEOREM AdjacentBillsAddUp == Spec => []AdjacentPeriodsAddUp
<1>1. AdjacentPeriodsAddUp
  BY IntervalsAddUp, DeltasAddUp DEF AdjacentPeriodsAddUp
<1> QED BY <1>1, PTL

-----------------------------------------------------------------------------
\* The months of a chart are finitely many numbers, in the order of the readings.
MonthOf(k) == Time[k] \div MonthLength

LEMMA MonthsInOrder ==
    ASSUME NEW j \in Present, NEW k \in Present
    PROVE  /\ MonthOf(j) \in Int
           /\ MonthOf(j) < MonthOf(k) => Time[j] < Time[k]
<1>1. /\ Time[j] \in Int /\ Time[k] \in Int
      /\ MonthLength \in Nat \ {0}
  BY ConsumptionAssumption DEF Present
<1>2. ASSUME NEW t \in Int, NEW u \in Int, NEW L \in Nat \ {0}
      PROVE  /\ t \div L \in Int
             /\ t <= u => t \div L <= u \div L
  OBVIOUS
<1>3. /\ MonthOf(j) \in Int /\ MonthOf(k) \in Int
      /\ Time[k] <= Time[j] => MonthOf(k) <= MonthOf(j)
  BY <1>1, <1>2 DEF MonthOf
<1> QED BY <1>1, <1>3

LEMMA MonthsAreFinite ==
    ASSUME NEW S \in SUBSET Present
    PROVE  IsFiniteSet(Months(S)) /\ Months(S) \subseteq Int
<1> DEFINE month == [k \in S |-> MonthOf(k)]
<1>1. Months(S) = {MonthOf(k) : k \in S}
  BY DEF Months, MonthOf
<1>2. month \in Surjection(S, Months(S))
  BY <1>1 DEF Surjection
<1>3. IsFiniteSet(Months(S))
  BY <1>2, ReadingsAreFinite, FS_Surjection
<1>4. Months(S) \subseteq Int
  BY <1>1, MonthsInOrder
<1> QED BY <1>3, <1>4

\* A month's bar reaches from the lowest to the highest of its values.
LEMMA MonthSpan ==
    ASSUME NEW S \in SUBSET Present, NEW month \in Months(S)
    PROVE  \E a, b \in InMonth(S, month) :
             /\ MonthValue(S, month) = Value[b] - Value[a]
             /\ \A k \in InMonth(S, month) : Value[a] <= Value[k] /\ Value[k] <= Value[b]
<1> DEFINE I == InMonth(S, month)
<1>1. I \in SUBSET Present /\ I # {}
  BY DEF InMonth, Months
<1> HIDE DEF I
<1>2. IsFiniteSet(I) /\ \A k \in I : Value[k] \in Int
  BY <1>1, ReadingsAreFinite
<1>3. PICK a \in I : \A k \in I : Value[a] <= Value[k]
  BY <1>1, <1>2, LowestMember
<1>4. PICK b \in I : \A k \in I : Value[k] <= Value[b]
  BY <1>1, <1>2, HighestMember
<1>5. /\ \A v \in Values(I) : v \in Int /\ Value[a] <= v /\ v <= Value[b]
      /\ Value[a] \in Values(I) /\ Value[b] \in Values(I)
  BY <1>2, <1>3, <1>4 DEF Values
<1>6. Min(Values(I)) = Value[a] /\ Max(Values(I)) = Value[b]
  BY <1>5 DEF Min, Max
<1>7. MonthValue(S, month) = Value[b] - Value[a]
  BY <1>6 DEF MonthValue, I
<1> QED BY <1>3, <1>4, <1>7 DEF I

\* What the chart adds up.
Bars(S) == [month \in Months(S) |-> MonthValue(S, month)]

\* The bars are numbers, and the fold over them is a sum.
LEMMA BarsAreInt ==
    ASSUME NEW S \in SUBSET Present
    PROVE  \A month \in Months(S) : Bars(S)[month] \in Int
<1> SUFFICES ASSUME NEW month \in Months(S)
             PROVE  MonthValue(S, month) \in Int
    BY DEF Bars
<1>1. PICK a, b \in InMonth(S, month) : MonthValue(S, month) = Value[b] - Value[a]
  BY MonthSpan
<1>2. a \in S /\ b \in S
  BY DEF InMonth
<1> QED BY <1>1, <1>2, ReadingsAreFinite

LEMMA BarsAreSummed ==
    ASSUME NEW from, NEW to
    PROVE  ChartTotal(from, to) = SumOf(Bars(Charted(from, to)), Months(Charted(from, to)))
<1> DEFINE S == Charted(from, to)
           M == Months(S)
           P(g) == g = [s \in SUBSET M |-> IF s = {} THEN 0
                          ELSE MonthValue(S, Pick(s)) + g[s \ {Pick(s)}]]
           G == CHOOSE g : P(g)
           H == CHOOSE g : AddsUp(g, Bars(S), SUBSET M)
<1>1. IsFiniteSet(M)
  <2>1. S \in SUBSET Present
    BY DEF Charted
  <2> QED BY <2>1, MonthsAreFinite
<1>2. ChartTotal(from, to) = G[M]
  BY DEF ChartTotal, MapThenSumSet, MapThenFoldSet, Pick
<1>3. \A s \in SUBSET M : s # {} => Pick(s) \in M /\ Bars(S)[Pick(s)] = MonthValue(S, Pick(s))
  BY DEF Pick, Bars
<1> HIDE DEF S, M
<1>4. \A g : P(g) <=> AddsUp(g, Bars(S), SUBSET M)
  BY <1>3 DEF AddsUp
<1> HIDE DEF P
<1>5. P(G)
  <2>1. \E g : P(g)
    BY <1>1, <1>4, AddingUpExists
  <2> QED BY <2>1, Zenon
<1>6. AddsUp(G, Bars(S), SUBSET M) /\ AddsUp(H, Bars(S), SUBSET M)
  BY <1>1, <1>4, <1>5, AddsUpHere
<1> HIDE DEF G, H
<1>7. G[M] = H[M]
  BY <1>1, <1>6, AddsUpAlike
<1> QED BY <1>2, <1>7 DEF SumOf, H, S, M

\* The bars of the months in M, taken from the last month back: each begins where the
\* readings of the months before it have ended.
LEMMA BarsAreWithin ==
    ASSUME InOrder, Distinct, NEW S \in SUBSET Present,
           NEW low \in Int, \A k \in S : low <= Value[k],
           NEW high \in Int, low <= high, \A k \in S : Value[k] <= high
    PROVE  SumOf(Bars(S), Months(S)) <= high - low
<1> DEFINE Under(T, v) == \A k \in S : MonthOf(k) \in T => Value[k] <= v
           Bad == {T \in SUBSET Months(S) : \E v \in Int :
                     low <= v /\ Under(T, v) /\ ~(SumOf(Bars(S), T) <= v - low)}
<1>1. /\ IsFiniteSet(Months(S)) /\ Months(S) \subseteq Int
      /\ \A T \in SUBSET Months(S) : IsFiniteSet(T)
  BY MonthsAreFinite, FS_Subset
<1>2. \A k \in S : k \in Present /\ Value[k] \in Int
  BY ReadingsAreFinite
<1>3. ASSUME NEW T \in Bad, \A U \in Bad : U \subseteq T => U = T PROVE FALSE
  <2>1. PICK v \in Int : low <= v /\ Under(T, v) /\ ~(SumOf(Bars(S), T) <= v - low)
    OBVIOUS
  <2>2. T \in SUBSET Months(S) /\ T # {}
    <3>1. SumOf(Bars(S), {}) = 0
      BY SumStep, FS_EmptySet
    <3>2. T \in SUBSET Months(S)
      OBVIOUS
    <3> HIDE DEF Under, Bad
    <3> QED BY <2>1, <3>1, <3>2
  <2>3. PICK month \in T : \A m \in T : m <= month
    <3> DEFINE id == [m \in T |-> m]
    <3>1. \A m \in T : id[m] \in Int
      BY <1>1, <2>2
    <3>2. IsFiniteSet(T)
      BY <1>1, <2>2
    <3>3. \E month \in T : \A m \in T : id[m] <= id[month]
      <4> HIDE DEF id
      <4> QED BY <2>2, <3>1, <3>2, HighestMember
    <3> QED BY <3>3
  <2> DEFINE R == T \ {month}
  <2>4. PICK a, b \in InMonth(S, month) :
          /\ MonthValue(S, month) = Value[b] - Value[a]
          /\ \A k \in InMonth(S, month) : Value[a] <= Value[k] /\ Value[k] <= Value[b]
    <3>1. month \in Months(S)
      BY <2>2
    <3> QED BY <3>1, MonthSpan
  <2>5. /\ a \in S /\ b \in S /\ MonthOf(a) = month /\ MonthOf(b) = month
        /\ Value[a] \in Int /\ Value[b] \in Int
        /\ low <= Value[a] /\ Value[b] <= v
    BY <1>2, <2>1 DEF InMonth, MonthOf
  <2>6. Under(R, Value[a])
    <3> SUFFICES ASSUME NEW k \in S, MonthOf(k) \in R
                 PROVE  Value[k] <= Value[a]
        OBVIOUS
    <3>1. MonthOf(k) <= month /\ MonthOf(k) # month
      BY <2>3
    <3>2. k \in Present /\ a \in Present
      BY <1>2, <2>5
    <3>3. MonthOf(k) < MonthOf(a)
      <4>1. MonthOf(k) \in Int /\ MonthOf(a) \in Int
        BY <3>2, MonthsInOrder
      <4> HIDE DEF R
      <4> QED BY <4>1, <3>1, <2>5
    <3>4. Time[k] < Time[a]
      BY <3>2, <3>3, MonthsInOrder
    <3> QED BY <3>2, <3>4 DEF InOrder
  <2>7. R \in SUBSET Months(S) /\ R \notin Bad
    BY <1>3, <2>2
  <2>8. SumOf(Bars(S), R) <= Value[a] - low
    <3> HIDE DEF R, Under
    <3> QED BY <2>5, <2>6, <2>7
  <2>9. \A m \in Months(S) : Bars(S)[m] \in Int
    BY BarsAreInt
  <2>10. SumOf(Bars(S), T) = Bars(S)[month] + SumOf(Bars(S), R)
    BY <1>1, <2>2, <2>9, SumRemove
  <2>11. SumOf(Bars(S), R) \in Int
    BY <1>1, <2>7, <2>9, SumIsInt
  <2>12. Bars(S)[month] = Value[b] - Value[a]
    BY <2>2, <2>4 DEF Bars
  <2>13. ~(SumOf(Bars(S), T) <= v - low)
    BY <2>1
  <2> HIDE DEF R, Under, Bad
  <2> QED BY <2>5, <2>8, <2>10, <2>11, <2>12, <2>13
<1>4. Bad = {}
  <2> HIDE DEF Bad
  <2>1. Bad \in SUBSET (SUBSET Months(S))
    BY DEF Bad
  <2> QED BY <1>1, <1>3, <2>1, SmallestSet
<1>5. Under(Months(S), high) /\ Months(S) \notin Bad
  BY <1>4
<1> HIDE DEF Under
<1> QED BY <1>5

\* The chart of a period, between the readings that open and close it.
LEMMA ChartIsBounded ==
    ASSUME NEW p \in Period, InOrder, Distinct,
           NEW start \in Latest(p[1]), NEW end \in Latest(p[2])
    PROVE  ChartTotal(p[1], p[2]) <= Delta(start, end)
<1> DEFINE S == Charted(p[1], p[2])
<1>1. S \in SUBSET Present
  BY DEF Charted
<1>2. /\ start \in Until(p[1]) /\ end \in Until(p[2]) /\ start \in Until(p[2])
      /\ start \in Present /\ end \in Present
  BY TimeIsInt DEF Latest, Until
<1>3. Value[start] \in Int /\ Value[end] \in Int
  BY <1>2, ConsumptionAssumption DEF Present
<1>4. Value[start] <= Value[end]
  BY <1>2, RisingValues DEF Latest
<1>5. ASSUME NEW k \in S
      PROVE  Value[start] <= Value[k] /\ Value[k] <= Value[end]
  <2>1. k \in Present /\ p[1] <= Time[k] /\ Time[k] <= p[2]
    BY DEF Charted
  <2>2. Time[start] <= p[1] /\ Time[start] \in Int
    BY <1>2, TimeIsInt DEF Until
  <2>3. Time[start] <= Time[k]
    BY <2>1, <2>2, TimeIsInt
  <2>4. Time[k] <= Time[end]
    BY <2>1 DEF Latest, Until
  <2> QED BY <1>2, <2>1, <2>3, <2>4, RisingValues
<1>6. ChartTotal(p[1], p[2]) = SumOf(Bars(S), Months(S))
  BY BarsAreSummed
<1> HIDE DEF S
<1>7. SumOf(Bars(S), Months(S)) <= Value[end] - Value[start]
  BY <1>1, <1>3, <1>4, <1>5, BarsAreWithin
<1>8. Delta(start, end) = Value[end] - Value[start]
  BY <1>3, <1>4 DEF Delta
<1> QED BY <1>6, <1>7, <1>8

\* The bars of an interval meter, and their fold.
Sums(S) == [month \in Months(S) |-> MonthSum(S, month)]

LEMMA SumsAreSummed ==
    ASSUME NEW from, NEW to
    PROVE  IntervalChartTotal(from, to)
             = SumOf(Sums(Charted(from, to)), Months(Charted(from, to)))
<1> DEFINE S == Charted(from, to)
           M == Months(S)
           P(g) == g = [s \in SUBSET M |-> IF s = {} THEN 0
                          ELSE MonthSum(S, Pick(s)) + g[s \ {Pick(s)}]]
           G == CHOOSE g : P(g)
           H == CHOOSE g : AddsUp(g, Sums(S), SUBSET M)
<1>1. IsFiniteSet(M)
  <2>1. S \in SUBSET Present
    BY DEF Charted
  <2> QED BY <2>1, MonthsAreFinite
<1>2. IntervalChartTotal(from, to) = G[M]
  BY DEF IntervalChartTotal, MapThenSumSet, MapThenFoldSet, Pick
<1>3. \A s \in SUBSET M : s # {} => Pick(s) \in M /\ Sums(S)[Pick(s)] = MonthSum(S, Pick(s))
  BY DEF Pick, Sums
<1> HIDE DEF S, M
<1>4. \A g : P(g) <=> AddsUp(g, Sums(S), SUBSET M)
  BY <1>3 DEF AddsUp
<1> HIDE DEF P
<1>5. P(G)
  <2>1. \E g : P(g)
    BY <1>1, <1>4, AddingUpExists
  <2> QED BY <2>1, Zenon
<1>6. AddsUp(G, Sums(S), SUBSET M) /\ AddsUp(H, Sums(S), SUBSET M)
  BY <1>1, <1>4, <1>5, AddsUpHere
<1> HIDE DEF G, H
<1>7. G[M] = H[M]
  BY <1>1, <1>6, AddsUpAlike
<1> QED BY <1>2, <1>7 DEF SumOf, H, S, M

\* Every reading is in the bar of its month.
LEMMA SumsAreAll ==
    ASSUME NEW S \in SUBSET Present
    PROVE  SumOf(Sums(S), Months(S)) = SumOf(Value, S)
<1> DEFINE q == [k \in S |-> MonthOf(k)]
           J == Months(S)
           h == [j \in J |-> SumOf(Value, Group(q, S, j))]
<1>1. IsFiniteSet(S) /\ IsFiniteSet(J) /\ \A k \in S : Value[k] \in Int
  BY ReadingsAreFinite, MonthsAreFinite
<1>2. \A k \in S : q[k] \in J
  BY DEF Months, MonthOf
<1>3. ASSUME NEW month \in J
      PROVE  Sums(S)[month] = SumOf(Value, Group(q, S, month))
  <2>1. Group(q, S, month) = InMonth(S, month)
    BY DEF Group, InMonth, MonthOf
  <2>2. Sums(S)[month] = ValuesOf(InMonth(S, month))
    BY DEF Sums, MonthSum
  <2> QED BY <2>1, <2>2, ValuesAreSummed
<1>4. Sums(S) = h
  BY <1>3 DEF Sums
<1> HIDE DEF q, J
<1>5. SumOf(Value, S) = SumOf(h, J)
  BY <1>1, <1>2, SumByGroup
<1> QED BY <1>4, <1>5 DEF J

\* The chart of an interval meter, next to the readings that the engine adds up.
LEMMA ChartHasEachReading ==
    ASSUME NEW p \in Period
    PROVE  IntervalChartTotal(p[1], p[2])
             = ValuesOf(Within(p[1], p[2])) + ValuesOf({k \in Present : Time[k] = p[1]})
<1> DEFINE A == Within(p[1], p[2])
           B == {k \in Present : Time[k] = p[1]}
           S == Charted(p[1], p[2])
<1>1. p[1] \in Int /\ p[2] \in Int /\ p[1] < p[2]
  BY ConsumptionAssumption DEF Period
<1>2. A \cup B = S /\ A \cap B = {}
  BY <1>1, TimeIsInt DEF Within, Charted
<1>3. A \in SUBSET Present /\ B \in SUBSET Present /\ S \in SUBSET Present
  BY DEF Within, Charted
<1> HIDE DEF A, B
<1>4. /\ IsFiniteSet(A) /\ IsFiniteSet(B)
      /\ \A k \in A \cup B : Value[k] \in Int
  BY <1>3, ReadingsAreFinite
<1>5. SumOf(Value, A \cup B) = SumOf(Value, A) + SumOf(Value, B)
  BY <1>2, <1>4, SumUnion
<1>6. SumOf(Value, S) = SumOf(Sums(S), Months(S))
  BY <1>3, SumsAreAll
<1>7. IntervalChartTotal(p[1], p[2]) = SumOf(Sums(S), Months(S))
  BY SumsAreSummed
<1>8. IntervalChartTotal(p[1], p[2]) = ValuesOf(A) + ValuesOf(B)
  BY <1>2, <1>5, <1>6, <1>7, ValuesAreSummed
<1> QED BY <1>8 DEF A, B

\* The chart beside the consumption shows no more of a rising meter than is billed,
\* and each reading of an interval meter once, whatever the months of the readings
\* (dashboard consumption, computeMeterConsumption).
THEOREM ChartShowsWhatIsThere == Spec => []ChartAgreesWithTotal
<1>1. ChartAgreesWithTotal
  BY ChartIsBounded, ChartHasEachReading DEF ChartAgreesWithTotal
<1> QED BY <1>1, PTL

-----------------------------------------------------------------------------
\* Drafts.  What a fold adds up is a sum.
LEMMA FoldIsSum ==
    ASSUME NEW f, NEW S, IsFiniteSet(S), NEW g, AddsUp(g, f, SUBSET S)
    PROVE  g[S] = SumOf(f, S)
<1> DEFINE H == CHOOSE h : AddsUp(h, f, SUBSET S)
<1>1. AddsUp(H, f, SUBSET S)
  BY AddsUpHere
<1> HIDE DEF H
<1>2. g[S] = H[S]
  BY <1>1, AddsUpAlike
<1> QED BY <1>2 DEF SumOf, H

\* What the lines of a draft charge.
Amounts(lines) == [i \in DOMAIN lines |-> lines[i].consumption * lines[i].tariff.price]

\* The fold over the lines is a sum.
LEMMA UsageIsSummed ==
    ASSUME NEW lines, IsFiniteSet(DOMAIN lines)
    PROVE  Usage(lines) = SumOf(Amounts(lines), DOMAIN lines)
<1> DEFINE S == DOMAIN lines
           f == Amounts(lines)
           P(g) == g = [s \in SUBSET S |-> IF s = {} THEN 0
                     ELSE lines[Pick(s)].consumption * lines[Pick(s)].tariff.price
                            + g[s \ {Pick(s)}]]
           G == CHOOSE g : P(g)
<1>1. Usage(lines) = G[S]
  BY DEF Usage, MapThenSumSet, MapThenFoldSet, Pick
<1>2. \A s \in SUBSET S : s # {} => Pick(s) \in S
        /\ f[Pick(s)] = lines[Pick(s)].consumption * lines[Pick(s)].tariff.price
  BY DEF Pick, Amounts
<1> HIDE DEF S, f
<1>3. \A g : P(g) <=> AddsUp(g, f, SUBSET S)
  BY <1>2 DEF AddsUp
<1> HIDE DEF P
<1>4. P(G)
  <2>1. \E g : P(g)
    BY <1>3, AddingUpExists DEF S
  <2> QED BY <2>1, Zenon
<1>5. AddsUp(G, f, SUBSET S)
  BY <1>3, <1>4
<1> HIDE DEF G
<1>6. G[S] = SumOf(f, S)
  BY <1>5, FoldIsSum DEF S
<1> QED BY <1>1, <1>6 DEF S, f

\* What the tariffs in use charge.
Charges(T, c, p) == [t \in InUse(T, p) |-> Charge(t, c)]

\* The fold over the tariffs is a sum.
LEMMA ReferenceIsSummed ==
    ASSUME NEW T, IsFiniteSet(T), NEW c, NEW p
    PROVE  Reference(T, c, p) = SumOf(Charges(T, c, p), InUse(T, p))
<1> DEFINE S == InUse(T, p)
           f == Charges(T, c, p)
           P(g) == g = [s \in SUBSET S |-> IF s = {} THEN 0
                          ELSE Charge(Pick(s), c) + g[s \ {Pick(s)}]]
           G == CHOOSE g : P(g)
<1>1. Reference(T, c, p) = G[S]
  BY DEF Reference, MapThenSumSet, MapThenFoldSet, Pick
<1>2. \A s \in SUBSET S : s # {} => Pick(s) \in S /\ f[Pick(s)] = Charge(Pick(s), c)
  BY DEF Pick, Charges
<1>3. IsFiniteSet(S)
  BY FS_Subset DEF InUse
<1> HIDE DEF S, f
<1>4. \A g : P(g) <=> AddsUp(g, f, SUBSET S)
  BY <1>2 DEF AddsUp
<1> HIDE DEF P
<1>5. P(G)
  <2>1. \E g : P(g)
    BY <1>3, <1>4, AddingUpExists
  <2> QED BY <2>1, Zenon
<1>6. AddsUp(G, f, SUBSET S)
  BY <1>4, <1>5
<1> HIDE DEF G
<1>7. G[S] = SumOf(f, S)
  BY <1>3, <1>6, FoldIsSum
<1> QED BY <1>1, <1>7 DEF S, f

\* A list without repetitions names each member of its set at one place.
LEMMA ListsAll ==
    ASSUME NEW S, IsFiniteSet(S), NEW s \in SetToSeqs(S)
    PROVE  /\ DOMAIN s \subseteq Nat /\ IsFiniteSet(DOMAIN s)
           /\ \A i \in DOMAIN s : s[i] \in S
           /\ \A i, j \in DOMAIN s : s[i] = s[j] => i = j
           /\ \A x \in S : \E i \in DOMAIN s : s[i] = x
<1> DEFINE n == Cardinality(S)
<1>1. n \in Nat /\ IsFiniteSet(1..n) /\ Cardinality(1..n) = n
  BY FS_CardinalityType, FS_Interval
<1>2. /\ s \in [1..n -> S]
      /\ \A i, j \in 1..n : s[i] = s[j] => i = j
  BY DEF SetToSeqs
<1>3. s \in Injection(1..n, S)
  BY <1>2 DEF Injection, IsInjective
<1>4. s \in Surjection(1..n, S)
  BY <1>1, <1>3, FS_Injection
<1> QED BY <1>1, <1>2, <1>4 DEF Surjection

\* The lines of a draft, where no tariffs compete: the meters that some tariff in use
\* is for, each with that tariff.
LEMMA LinesAreOfTariffs ==
    ASSUME NEW p, NEW T, IsFiniteSet(T), NEW c,
           \A t1, t2 \in InUse(T, p) : ~Competing(t1, t2),
           NEW ms \in SetToSeqs(Meters), NEW ts \in SetToSeqs(T)
    PROVE  LET lines == LinesOf(ms, ts, c, p)
           IN  /\ IsFiniteSet(DOMAIN lines) /\ DOMAIN lines \subseteq DOMAIN ms
               /\ \A i \in DOMAIN lines :
                    /\ lines[i].consumption = c[ms[i]]
                    /\ lines[i].tariff \in InUse(T, p)
                    /\ lines[i].tariff.type = ms[i].type
               /\ \A t \in InUse(T, p), i \in DOMAIN ms : t.type = ms[i].type =>
                    i \in DOMAIN lines /\ lines[i].tariff = t
<1> DEFINE active(i) == {j \in DOMAIN ts : Active(ts[j], ms[i].type, p)}
           D == {i \in DOMAIN ms : active(i) # {}}
           lines == LinesOf(ms, ts, c, p)
<1>1. IsFiniteSet(Meters)
  BY ConsumptionAssumption
<1>2. lines = [i \in D |-> [consumption |-> c[ms[i]], tariff |-> ts[Min(active(i))]]]
  BY DEF LinesOf
<1>3. ASSUME NEW i \in D PROVE Min(active(i)) \in active(i)
  <2>1. active(i) \in SUBSET Nat /\ active(i) # {}
    BY ListsAll
  <2> HIDE DEF active
  <2>2. PICK j \in active(i) : \A k \in active(i) : j <= k
    BY <2>1, LeastNumber
  <2> QED BY <2>2 DEF Min
<1>4. ASSUME NEW i \in D
      PROVE  /\ ts[Min(active(i))] \in InUse(T, p)
             /\ ts[Min(active(i))].type = ms[i].type
  <2> DEFINE j == Min(active(i))
  <2>1. j \in DOMAIN ts /\ Active(ts[j], ms[i].type, p)
    BY <1>3
  <2>2. ts[j] \in T /\ ms[i] \in Meters
    BY <1>1, <2>1, ListsAll
  <2> HIDE DEF j
  <2>3. ts[j] \in InUse(T, p) /\ ts[j].type = ms[i].type
    BY <2>1, <2>2 DEF InUse, Active
  <2> QED BY <2>3 DEF j
<1>5. ASSUME NEW t \in InUse(T, p), NEW i \in DOMAIN ms, t.type = ms[i].type
      PROVE  i \in D /\ ts[Min(active(i))] = t
  <2>1. t \in T /\ Active(t, ms[i].type, p)
    BY <1>5 DEF InUse, Active
  <2>2. PICK j \in DOMAIN ts : ts[j] = t
    BY <2>1, ListsAll
  <2>3. i \in D
    BY <2>1, <2>2
  <2>4. /\ ts[Min(active(i))] \in InUse(T, p)
        /\ ts[Min(active(i))].type = t.type
    BY <1>4, <1>5, <2>3
  <2> HIDE DEF active
  <2>5. ts[Min(active(i))] = t
    BY <2>4 DEF Competing
  <2> QED BY <2>3, <2>5
<1>6. IsFiniteSet(D)
  BY <1>1, ListsAll, FS_Subset
<1> HIDE DEF active
<1>7. /\ DOMAIN lines = D
      /\ \A i \in D : /\ lines[i].consumption = c[ms[i]]
                      /\ lines[i].tariff = ts[Min(active(i))]
  BY <1>2
<1>8. D \subseteq DOMAIN ms
  OBVIOUS
<1> HIDE DEF D, lines
<1> QED BY <1>4, <1>5, <1>6, <1>7, <1>8 DEF lines

\* What the meters have consumed are numbers.
LEMMA ConsumedIsInt ==
    ASSUME NEW p \in Period
    PROVE  Consumed(p) \subseteq Int
<1>1. Multiplier \in Int
  BY ConsumptionAssumption
<1>2. Interval(p[1], p[2]) \in Int
  <2> DEFINE A == Within(p[1], p[2])
  <2>1. A \in SUBSET Present
    BY DEF Within
  <2> HIDE DEF A
  <2>2. SumOf(Value, A) \in Int
    BY <2>1, ReadingsAreFinite, SumIsInt
  <2>3. ValuesOf(A) \in Int
    BY <2>2, ValuesAreSummed
  <2> QED BY <1>1, <2>3, Distributes DEF Interval, A
<1>3. Cumulative(p[1], p[2]) \subseteq Int
  <2>1. ASSUME NEW start \in Latest(p[1]), NEW end \in Latest(p[2])
        PROVE  Multiplier * Delta(start, end) \in Int
    <3>1. start \in Present /\ end \in Present
      BY DEF Latest, Until
    <3>2. Value[start] \in Int /\ Value[end] \in Int
      BY <3>1, ConsumptionAssumption DEF Present
    <3>3. Delta(start, end) \in Int
      BY <3>2 DEF Delta
    <3> QED BY <1>1, <3>3, Distributes
  <2> QED BY <2>1 DEF Cumulative
<1> QED BY <1>2, <1>3 DEF Consumed

\* The fee and the usage of a tariff.
FeeOf(t) == IF t.fixed THEN t.fee ELSE 0
OfType(t) == {m \in Meters : m.type = t.type}
Fees(T, p) == [t \in InUse(T, p) |-> FeeOf(t)]
Uses(T, c, p) == [t \in InUse(T, p) |-> t.price * SumOf(c, OfType(t))]

\* Prices, fees and what is consumed at a tariff are numbers.
LEMMA TariffsAreNumbers ==
    ASSUME NEW p \in Period, NEW T \in SUBSET Tariffs, NEW c \in [Meters -> Consumed(p)]
    PROVE  /\ IsFiniteSet(T) /\ IsFiniteSet(InUse(T, p)) /\ IsFiniteSet(Meters)
           /\ \A m \in Meters : c[m] \in Int
           /\ \A t \in InUse(T, p) :
                /\ t.price \in Int /\ FeeOf(t) \in Int
                /\ IsFiniteSet(OfType(t)) /\ SumOf(c, OfType(t)) \in Int
<1>1. /\ IsFiniteSet(Meters) /\ IsFiniteSet(Tariffs)
      /\ \A t \in Tariffs : t.price \in Int /\ t.fee \in Int
  BY ConsumptionAssumption
<1>2. IsFiniteSet(T)
  BY <1>1, FS_Subset
<1>3. IsFiniteSet(InUse(T, p)) /\ InUse(T, p) \subseteq T
  BY <1>2, FS_Subset DEF InUse
<1>4. \A m \in Meters : c[m] \in Int
  BY ConsumedIsInt
<1>5. ASSUME NEW t \in InUse(T, p)
      PROVE  /\ t.price \in Int /\ FeeOf(t) \in Int
             /\ IsFiniteSet(OfType(t)) /\ SumOf(c, OfType(t)) \in Int
  <2>1. t \in Tariffs
    BY <1>3
  <2>2. t.price \in Int /\ FeeOf(t) \in Int
    BY <1>1, <2>1 DEF FeeOf
  <2>3. OfType(t) \in SUBSET Meters
    BY DEF OfType
  <2>4. IsFiniteSet(OfType(t))
    BY <1>1, <2>3, FS_Subset
  <2>5. SumOf(c, OfType(t)) \in Int
    BY <1>4, <2>3, <2>4, SumIsInt
  <2> QED BY <2>2, <2>4, <2>5
<1> QED BY <1>1, <1>2, <1>3, <1>4, <1>5

\* What the reference charges are fees and usage.
LEMMA ReferenceIsFeesAndUses ==
    ASSUME NEW p \in Period, NEW T \in SUBSET Tariffs, NEW c \in [Meters -> Consumed(p)]
    PROVE  /\ Reference(T, c, p) = SumOf(Fees(T, p), InUse(T, p))
                                     + SumOf(Uses(T, c, p), InUse(T, p))
           /\ SumOf(Fees(T, p), InUse(T, p)) \in Int
           /\ SumOf(Uses(T, c, p), InUse(T, p)) \in Int
<1> DEFINE I == InUse(T, p)
           f == Fees(T, p)
           u == Uses(T, c, p)
           h == Charges(T, c, p)
<1>1. ASSUME NEW t \in I
      PROVE  f[t] \in Int /\ u[t] \in Int /\ h[t] = 1 * f[t] + u[t]
  <2>1. t.price \in Int /\ FeeOf(t) \in Int /\ SumOf(c, OfType(t)) \in Int
    BY TariffsAreNumbers
  <2>2. t.price * SumOf(c, OfType(t)) \in Int
    BY <2>1, Distributes
  <2>3. MapThenSumSet(LAMBDA m : c[m], OfType(t)) = SumOf(c, OfType(t))
    BY DEF MapThenSumSet, MapThenFoldSet, SumOf, AddsUp, Pick
  <2>4. Charge(t, c) = FeeOf(t) + t.price * SumOf(c, OfType(t))
    BY <2>3 DEF Charge, FeeOf, OfType
  <2>5. f[t] = FeeOf(t) /\ u[t] = t.price * SumOf(c, OfType(t)) /\ h[t] = Charge(t, c)
    BY DEF Fees, Uses, Charges
  <2> QED BY <2>1, <2>2, <2>4, <2>5
<1>2. IsFiniteSet(I) /\ IsFiniteSet(T)
  BY TariffsAreNumbers
<1>3. Reference(T, c, p) = SumOf(h, I)
  BY <1>2, ReferenceIsSummed
<1> HIDE DEF I, f, u, h
<1>4. SumOf(h, I) = 1 * SumOf(f, I) + SumOf(u, I)
  BY <1>1, <1>2, SumLinear
<1>5. SumOf(f, I) \in Int /\ SumOf(u, I) \in Int
  BY <1>1, <1>2, SumIsInt
<1>6. Reference(T, c, p) = SumOf(f, I) + SumOf(u, I)
  BY <1>3, <1>4, <1>5
<1> QED BY <1>5, <1>6 DEF I, f, u

\* The one fee of a draft is the sum of the fees of the tariffs in use, of which at
\* most one has a fee.
LEMMA BaseFeeIsFees ==
    ASSUME NEW p \in Period, NEW T \in SUBSET Tariffs, NEW c \in [Meters -> Consumed(p)],
           \A t1, t2 \in InUse(T, p) : ~Competing(t1, t2),
           NEW ms \in SetToSeqs(Meters), NEW ts \in SetToSeqs(T)
    PROVE  BaseFee(LinesOf(ms, ts, c, p)) = SumOf(Fees(T, p), InUse(T, p))
<1> DEFINE I == InUse(T, p)
           f == Fees(T, p)
           lines == LinesOf(ms, ts, c, p)
           withFee == {i \in DOMAIN lines : lines[i].tariff.fixed}
<1>1. /\ IsFiniteSet(T) /\ IsFiniteSet(I) /\ IsFiniteSet(Meters)
      /\ \A t \in I : FeeOf(t) \in Int
  BY TariffsAreNumbers
<1>2. /\ DOMAIN lines \subseteq DOMAIN ms
      /\ \A i \in DOMAIN lines : lines[i].tariff \in I
      /\ \A t \in I, i \in DOMAIN ms : t.type = ms[i].type =>
           i \in DOMAIN lines /\ lines[i].tariff = t
  BY <1>1, LinesAreOfTariffs
<1>3. \A t \in I : f[t] = FeeOf(t)
  BY DEF Fees
<1>4. BaseFee(lines) = IF withFee = {} THEN 0 ELSE lines[Min(withFee)].tariff.fee
  BY DEF BaseFee
<1>5. \A t \in I : \E i \in DOMAIN lines : lines[i].tariff = t
  <2> SUFFICES ASSUME NEW t \in I
               PROVE  \E i \in DOMAIN lines : lines[i].tariff = t
      OBVIOUS
  <2>1. PICK m \in Meters : m.type = t.type
    BY DEF InUse, Active
  <2>2. PICK i \in DOMAIN ms : ms[i] = m
    BY <1>1, ListsAll
  <2> QED BY <1>2, <2>1, <2>2
<1> HIDE DEF lines, f, I
<1>6. CASE withFee = {}
  <2>1. \A t \in I : f[t] = 0
    <3>1. \A t \in I : ~t.fixed
      BY <1>5, <1>6
    <3> QED BY <1>3, <3>1 DEF FeeOf
  <2>2. SumOf(f, I) = 0
    BY <1>1, <2>1, SumOfZeros
  <2> QED BY <1>4, <1>6, <2>2 DEF lines, f, I
<1>7. CASE withFee # {}
  <2> DEFINE t0 == lines[Min(withFee)].tariff
  <2>1. Min(withFee) \in withFee
    <3>1. withFee \in SUBSET Nat
      BY <1>1, <1>2, ListsAll
    <3> HIDE DEF withFee
    <3>2. PICK j \in withFee : \A k \in withFee : j <= k
      BY <1>7, <3>1, LeastNumber
    <3> QED BY <3>2 DEF Min
  <2>2. t0 \in I /\ t0.fixed
    BY <1>2, <2>1
  <2> HIDE DEF t0
  <2>3. \A t \in I \ {t0} : f[t] = 0
    <3> SUFFICES ASSUME NEW t \in I, t # t0
                 PROVE  f[t] = 0
        OBVIOUS
    <3>1. ~Competing(t, t0)
      BY <2>2 DEF I
    <3>2. ~t.fixed
      BY <2>2, <3>1 DEF Competing
    <3> QED BY <1>3, <3>2 DEF FeeOf
  <2>4. SumOf(f, I) = f[t0] + SumOf(f, I \ {t0})
    <3>1. \A t \in I : f[t] \in Int
      BY <1>1, <1>3
    <3> QED BY <1>1, <2>2, <3>1, SumRemove
  <2>5. SumOf(f, I \ {t0}) = 0
    <3>1. IsFiniteSet(I \ {t0})
      BY <1>1, FS_Subset
    <3> QED BY <2>3, <3>1, SumOfZeros
  <2>6. f[t0] = t0.fee /\ f[t0] \in Int
    BY <1>1, <1>3, <2>2 DEF FeeOf
  <2>7. SumOf(f, I) = t0.fee
    BY <2>4, <2>5, <2>6
  <2> QED BY <1>4, <1>7, <2>7 DEF lines, f, I, t0
<1> QED BY <1>6, <1>7

\* The usage of a draft, tariff by tariff.
LEMMA UsageIsUses ==
    ASSUME NEW p \in Period, NEW T \in SUBSET Tariffs, NEW c \in [Meters -> Consumed(p)],
           \A t1, t2 \in InUse(T, p) : ~Competing(t1, t2),
           NEW ms \in SetToSeqs(Meters), NEW ts \in SetToSeqs(T)
    PROVE  Usage(LinesOf(ms, ts, c, p)) = SumOf(Uses(T, c, p), InUse(T, p))
<1> DEFINE I == InUse(T, p)
           u == Uses(T, c, p)
           lines == LinesOf(ms, ts, c, p)
           D == DOMAIN lines
           a == Amounts(lines)
           q == [i \in D |-> lines[i].tariff]
           h == [t \in I |-> SumOf(a, Group(q, D, t))]
<1>1. /\ IsFiniteSet(T) /\ IsFiniteSet(I) /\ IsFiniteSet(Meters)
      /\ \A m \in Meters : c[m] \in Int
      /\ \A t \in I : t.price \in Int /\ SumOf(c, OfType(t)) \in Int
  BY TariffsAreNumbers
<1>2. /\ IsFiniteSet(D) /\ D \subseteq DOMAIN ms
      /\ \A i \in D : /\ lines[i].consumption = c[ms[i]]
                      /\ lines[i].tariff \in I /\ lines[i].tariff.type = ms[i].type
      /\ \A t \in I, i \in DOMAIN ms : t.type = ms[i].type =>
           i \in D /\ lines[i].tariff = t
  BY <1>1, LinesAreOfTariffs
<1>3. /\ \A i \in DOMAIN ms : ms[i] \in Meters
      /\ \A i, j \in DOMAIN ms : ms[i] = ms[j] => i = j
      /\ \A m \in Meters : \E i \in DOMAIN ms : ms[i] = m
  BY <1>1, ListsAll
<1>4. \A i \in D : q[i] = lines[i].tariff /\ q[i] \in I
  BY <1>2
<1>5. \A i \in D : a[i] = lines[i].consumption * lines[i].tariff.price
  BY DEF Amounts
<1>6. Usage(lines) = SumOf(a, D)
  BY <1>2, UsageIsSummed
<1>7. \A t \in I : u[t] = t.price * SumOf(c, OfType(t))
  BY DEF Uses
<1>8. \A t \in I : h[t] = SumOf(a, Group(q, D, t))
  OBVIOUS
<1> HIDE DEF I, u, lines, D, a, q
<1>9. \A i \in D : a[i] = q[i].price * c[ms[i]] /\ a[i] \in Int
  <2> SUFFICES ASSUME NEW i \in D
               PROVE  a[i] = q[i].price * c[ms[i]] /\ a[i] \in Int
      OBVIOUS
  <2>1. q[i].price \in Int /\ c[ms[i]] \in Int
    BY <1>1, <1>2, <1>3, <1>4
  <2>2. a[i] = c[ms[i]] * q[i].price
    BY <1>2, <1>4, <1>5
  <2> QED BY <2>1, <2>2, Distributes, Commutes
<1>10. SumOf(a, D) = SumOf(h, I)
  BY <1>1, <1>2, <1>4, <1>9, SumByGroup DEF h
<1> HIDE DEF h
<1>11. ASSUME NEW t \in I PROVE h[t] = u[t]
  <2> DEFINE A == Group(q, D, t)
             b == [i \in A |-> c[ms[i]]]
             zero == [i \in A |-> 0]
  <2>1. A = {i \in DOMAIN ms : ms[i].type = t.type}
    BY <1>2, <1>4 DEF Group
  <2>2. {ms[i] : i \in A} = OfType(t)
    BY <1>3, <2>1 DEF OfType
  <2>3. IsFiniteSet(A)
    BY <1>2, FS_Subset DEF Group
  <2>4. SumOf(b, A) = SumOf(c, OfType(t))
    <3>1. /\ \A i, j \in A : ms[i] = ms[j] => i = j
          /\ \A i \in A : c[ms[i]] \in Int
      BY <1>1, <1>3, <2>1
    <3> HIDE DEF A
    <3>2. SumOf(b, A) = SumOf(c, {ms[i] : i \in A})
      BY <2>3, <3>1, SumOverPlaces
    <3> QED BY <2>2, <3>2, Zenon
  <2>5. \A i \in A : /\ b[i] \in Int /\ zero[i] \in Int
                     /\ a[i] = t.price * b[i] + zero[i]
    <3> SUFFICES ASSUME NEW i \in A
                 PROVE  /\ b[i] \in Int /\ zero[i] \in Int
                        /\ a[i] = t.price * b[i] + zero[i]
        OBVIOUS
    <3>1. i \in D /\ q[i] = t
      BY DEF Group
    <3>2. a[i] = t.price * c[ms[i]] /\ a[i] \in Int /\ c[ms[i]] \in Int
      BY <1>1, <1>2, <1>3, <1>9, <3>1
    <3> QED BY <3>2
  <2>6. \A i \in A : zero[i] = 0
    OBVIOUS
  <2>7. t.price \in Int
    BY <1>1
  <2> HIDE DEF A, b, zero
  <2>8. SumOf(a, A) = t.price * SumOf(b, A) + SumOf(zero, A)
    BY <2>3, <2>5, <2>7, SumLinear
  <2>9. SumOf(zero, A) = 0
    BY <2>3, <2>6, SumOfZeros
  <2>10. h[t] = SumOf(a, A)
    BY <1>8 DEF A
  <2>11. u[t] = t.price * SumOf(c, OfType(t)) /\ u[t] \in Int
    BY <1>1, <1>7, Distributes
  <2> QED BY <2>4, <2>8, <2>9, <2>10, <2>11
<1>12. SumOf(h, I) = SumOf(u, I)
  BY <1>1, <1>11, SumAlike
<1> QED BY <1>6, <1>10, <1>12 DEF I, u, lines

\* In whatever order the database returns meters and tariffs, a draft charges what the
\* tariffs in use charge for all their meters, the fee once, as long as none compete:
\* for any meters, tariffs, periods and consumption (buildInvoiceDraftComputation).
THEOREM DraftsAreReference == Spec => []EveryDraftIsReference
<1>1. ASSUME NEW p \in Period, NEW T \in SUBSET Tariffs,
             \A t1, t2 \in InUse(T, p) : ~Competing(t1, t2),
             NEW ms \in SetToSeqs(Meters), NEW ts \in SetToSeqs(T),
             NEW c \in [Meters -> Consumed(p)]
      PROVE  Subtotal(ms, ts, c, p) = Reference(T, c, p)
  <2>1. Usage(LinesOf(ms, ts, c, p)) = SumOf(Uses(T, c, p), InUse(T, p))
    BY <1>1, UsageIsUses
  <2>2. BaseFee(LinesOf(ms, ts, c, p)) = SumOf(Fees(T, p), InUse(T, p))
    BY <1>1, BaseFeeIsFees
  <2>3. /\ Reference(T, c, p) = SumOf(Fees(T, p), InUse(T, p))
                                  + SumOf(Uses(T, c, p), InUse(T, p))
        /\ SumOf(Fees(T, p), InUse(T, p)) \in Int
        /\ SumOf(Uses(T, c, p), InUse(T, p)) \in Int
    BY ReferenceIsFeesAndUses
  <2> QED BY <2>1, <2>2, <2>3 DEF Subtotal
<1>2. EveryDraftIsReference
  BY <1>1 DEF EveryDraftIsReference
<1> QED BY <1>2, PTL

\* The same, of the states in which the run looks at drafts.
THEOREM CheckedDraftsAreReference == Spec => []DraftIsReference
<1>1. EveryDraftIsReference => DraftIsReference
  BY DEF DraftIsReference
<1> QED BY <1>1, DraftsAreReference, PTL
=============================================================================
