---------------------------- MODULE ReadingHistory ----------------------------
(***************************************************************************)
(* The readings of one meter and how users add to and correct them:        *)
(* readings/route.ts (manual entry, CSV import), reading-corrections/      *)
(* route.ts (estimated readings, corrections), next to what the ingestion  *)
(* endpoint stores.  Rows are never deleted; a correction adds a row that   *)
(* supersedes another.  Only the correction itself is a transaction: the   *)
(* audit log and the billing change log are written afterwards, one by one. *)
(***************************************************************************)
EXTENDS FiniteSets

CONSTANTS
    Keys,       \* unique index entries (timestamp, value) of the meter
    Requests,   \* bound: requests in flight
    None        \* supersedes_reading_id = null

ASSUME HistoryAssumption == IsFiniteSet(Keys) /\ None \notin Keys

VARIABLES
    reading,    \* meter_readings: unique index entry -> row
    event,      \* reading_correction_events: <<original, corrected>>
    auditLog,   \* rows whose creation audit_logs reports
    changeLog,  \* rows whose creation billing_change_logs reports
    request     \* what each request is doing

logs == <<auditLog, changeLog>>
vars == <<reading, event, logs, request>>

Entered == {"original", "estimated"}
Row == [lifecycle: Entered \cup {"corrected", "superseded", "absent"},
        source: {"gateway", "manual", "import"}, supersedes: Keys \cup {None}]
Absent == [lifecycle |-> "absent", source |-> "gateway", supersedes |-> None]
NewRow(lifecycle, source) == [Absent EXCEPT !.lifecycle = lifecycle, !.source = source]

Exists(k) == reading[k].lifecycle # "absent"
Present == {k \in Keys : Exists(k)}

Stages == {"idle", "found", "audit", "log"}
Request == [pc: Stages, original: Keys \cup {None}, wrote: SUBSET Keys]
Idle == [pc |-> "idle", original |-> None, wrote |-> {}]
Wrote(q, S) == request' = [request EXCEPT ![q] = [Idle EXCEPT !.pc = "audit", !.wrote = S]]

\* Variant of the next action: an upsert in place of skipDuplicates.
IngestOverwriting(k) ==
    /\ reading' = [reading EXCEPT ![k] = NewRow("original", "gateway")]
    /\ UNCHANGED <<event, logs, request>>

\* The ingestion endpoint stores a reading (Ingestion!Insert); no change log.
Ingest(k) ==
    /\ ~Exists(k)
    /\ reading' = [reading EXCEPT ![k] = NewRow("original", "gateway")]
    /\ UNCHANGED <<event, logs, request>>

\* For a duplicate the unique index refuses the row, and the reply is 409.
Create(q, k, row) ==
    /\ request[q].pc = "idle"
    /\ ~Exists(k)
    /\ reading' = [reading EXCEPT ![k] = row]
    /\ Wrote(q, {k})
    /\ UNCHANGED <<event, logs>>

\* POST readings/manual: the lifecycle follows from the quality flag.
EnterManual(q, k) == \E lifecycle \in Entered : Create(q, k, NewRow(lifecycle, "manual"))

\* POST readings/estimated.
EnterEstimated(q, k) == Create(q, k, NewRow("estimated", "manual"))

\* POST readings/import-csv: one createMany(skipDuplicates) of the usable rows.
ImportCsv(q, lines, source) ==
    LET new == lines \ Present IN
    /\ request[q].pc = "idle"
    /\ \E lifecycle \in [new -> Entered] :
         reading' = [k \in Keys |-> IF k \in new THEN NewRow(lifecycle[k], source)
                                    ELSE reading[k]]
    /\ Wrote(q, new)
    /\ UNCHANGED <<event, logs>>

\* POST readings/:id/corrections, up to the transaction.
FindOriginal(q, k) ==
    /\ request[q].pc = "idle"
    /\ Exists(k)
    /\ request' = [request EXCEPT ![q] = [Idle EXCEPT !.pc = "found", !.original = k]]
    /\ UNCHANGED <<reading, event, logs>>

\* Variants of the next action: without the transaction; without the unique index.
CorrectPiecemeal(q, k) ==
    LET original == request[q].original IN
    /\ request[q].pc = "found"
    /\ ~Exists(k)
    /\ reading' = [reading EXCEPT
           ![k] = [NewRow("corrected", "manual") EXCEPT !.supersedes = original]]
    /\ Wrote(q, {k})
    /\ UNCHANGED <<event, logs>>
CorrectUpserting(q, k) ==
    LET original == request[q].original IN
    /\ request[q].pc = "found"
    /\ reading' = [reading EXCEPT
           ![k] = [NewRow("corrected", "manual") EXCEPT !.supersedes = original],
           ![original].lifecycle = "superseded"]
    /\ event' = event \cup {<<original, k>>}
    /\ Wrote(q, {k})
    /\ UNCHANGED logs

\* The transaction: the corrected row, the original's new status and the event.
\* The original is not read again, and may be superseded already.
Correct(q, k) ==
    LET original == request[q].original IN
    /\ request[q].pc = "found"
    /\ ~Exists(k)
    /\ reading' = [reading EXCEPT
           ![k] = [NewRow("corrected", "manual") EXCEPT !.supersedes = original],
           ![original].lifecycle = "superseded"]
    /\ event' = event \cup {<<original, k>>}
    /\ Wrote(q, {k})
    /\ UNCHANGED logs

\* Variant of the next action: both logs written at once, one of them perhaps not.
WriteLogs(q) ==
    /\ request[q].pc = "audit"
    /\ \/ auditLog' = auditLog \cup request[q].wrote /\ UNCHANGED changeLog
       \/ changeLog' = changeLog \cup request[q].wrote /\ UNCHANGED auditLog
    /\ request' = [request EXCEPT ![q] = Idle]
    /\ UNCHANGED <<reading, event>>

WriteAuditLog(q) ==
    /\ request[q].pc = "audit"
    /\ auditLog' = auditLog \cup request[q].wrote
    /\ request' = [request EXCEPT ![q].pc = "log"]
    /\ UNCHANGED <<reading, event, changeLog>>

WriteBillingChangeLog(q) ==
    /\ request[q].pc = "log"
    /\ changeLog' = changeLog \cup request[q].wrote
    /\ request' = [request EXCEPT ![q] = Idle]
    /\ UNCHANGED <<reading, event, auditLog>>

\* A database call throws (the unique index in the transaction, the connection), or
\* the process dies: what is committed stays.
Fail(q) ==
    /\ request[q].pc # "idle"
    /\ request' = [request EXCEPT ![q] = Idle]
    /\ UNCHANGED <<reading, event, logs>>

Init ==
    /\ reading = [k \in Keys |-> Absent]
    /\ event = {} /\ auditLog = {} /\ changeLog = {}
    /\ request = [q \in Requests |-> Idle]

Change(q) ==
    \/ \E k \in Keys : EnterManual(q, k) \/ EnterEstimated(q, k)
    \/ \E lines \in SUBSET Keys, source \in {"manual", "import"} :
         ImportCsv(q, lines, source)
    \/ \E k \in Keys : FindOriginal(q, k)
    \/ \E k \in Keys : Correct(q, k)

Record(q) == WriteAuditLog(q) \/ WriteBillingChangeLog(q)

Next ==
    \/ \E k \in Keys : Ingest(k)
    \/ \E q \in Requests : Change(q) \/ Record(q) \/ Fail(q)

Spec == Init /\ [][Next]_vars

-----------------------------------------------------------------------------
\* Every variable has its type.
TypeOK ==
    /\ reading \in [Keys -> Row]
    /\ event \subseteq Keys \X Keys
    /\ auditLog \subseteq Keys /\ changeLog \subseteq Keys
    /\ request \in [Requests -> Request]

\* The three traces of a correction agree, whoever looks and whenever: a row names
\* the row it supersedes exactly when an event pairs the two, and a row is
\* superseded exactly when some event says by what.
LineageIsRecorded ==
    /\ \A k, o \in Keys : reading[k].supersedes = o <=> <<o, k>> \in event
    /\ \A o \in Keys : reading[o].lifecycle = "superseded"
                          <=> \E k \in Keys : <<o, k>> \in event

\* No chain of corrections leads back to where it began, however many users correct
\* the same readings and their corrections: some row of every set of readings
\* supersedes none of them.
LineageIsAcyclic ==
    \A S \in (SUBSET Keys) \ {{}} : \E k \in S : reading[k].supersedes \notin S

\* The logs report only what is stored, and the audit log knows whatever the
\* billing change log does.
LogsAreTrue == changeLog \subseteq auditLog /\ auditLog \subseteq Present

\* A request works on rows that are there, and a row not yet there is blank.
RequestsAreTrue == \A q \in Requests :
    /\ request[q].pc = "found" => request[q].original \in Present
    /\ request[q].pc = "audit" => request[q].wrote \subseteq Present
    /\ request[q].pc = "log" => request[q].wrote \subseteq auditLog
AbsentIsBlank == \A k \in Keys : ~Exists(k) => reading[k] = Absent

\* The inductive invariant behind the safety properties.
IInv ==
    /\ TypeOK
    /\ RequestsAreTrue
    /\ AbsentIsBlank
    /\ LineageIsRecorded
    /\ LineageIsAcyclic
    /\ LogsAreTrue

\* History is only added to: no row disappears, changes its origin or what it
\* supersedes, or comes back once superseded.
KeepsHistory ==
    /\ event \subseteq event'
    /\ \A k \in Present :
         /\ reading'[k].source = reading[k].source
         /\ reading'[k].supersedes = reading[k].supersedes
         /\ reading'[k].lifecycle \in {reading[k].lifecycle, "superseded"}
HistoryIsPermanent == [][KeepsHistory]_vars
=============================================================================
