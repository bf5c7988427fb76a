-------------------------------- MODULE Registry --------------------------------
(***************************************************************************)
(* The handlers that create buildings, units, meters, gateways, users, API *)
(* keys and the master data of billing.  Each checks its payload and the   *)
(* rows it refers to, inserts one row and then reports it in the logs; a   *)
(* new default takes the flag from the others of its scope, and a          *)
(* replacement decommissions the old meter, in one transaction.  No        *)
(* handler removes a row, and the only rows it changes are those two.  The *)
(* seed, which runs at each start of the API and by hand (Startup), makes  *)
(* its own tax profile and allocation key defaults again.                  *)
(*                                                                         *)
(* A row's id is its place in the table.                                   *)
(***************************************************************************)
EXTENDS Integers, Sequences, FiniteSets

CONSTANTS
    Requests,   \* requests in flight
    Payloads,   \* bound: the rows that are asked for, see Row
    Stored,     \* rows there already, of which
    SeedRows,   \* the seed's own tax profile and allocation key, with fixed ids
    MaxRows,    \* bound: rows
    None        \* null

VARIABLES
    table,      \* the rows, all kinds, in the order of their ids
    saw,        \* history: of a row made as default, itself and those whose flag it
                \* took, less those to which the seed has given it back since
    auditLog,   \* rows that audit_logs reports
    changeLog,  \* rows that billing_change_logs reports
    request     \* what each request is doing

logs == <<auditLog, changeLog>>
vars == <<table, saw, logs, request>>

Kinds == {"building", "unit", "meter", "gateway", "tariff", "period", "profile", "key",
          "component", "replacement", "user", "apikey"}
\* Kinds whose creation billing_change_logs reports as well.
Billing == {"tariff", "period", "profile", "key", "component", "replacement"}
\* Kinds with a unique index (external id, serial number, email).
Unique == {"meter", "gateway", "user"}

\* refs and old: the rows referred to, old the meter replaced; at: a replacement's
\* replaced_at, a meter's decommissioned_at; key: the unique index entry; valid: whether
\* the payload passes the schema and the checks of dates and amounts.
Row == [kind: Kinds, building: Nat \cup {None}, refs: SUBSET Nat, old: Nat \cup {None},
        at: Nat \cup {None}, key: Nat, default: BOOLEAN, valid: BOOLEAN]

\* A meter is decommissioned exactly when a replacement event says so, at its time.
Events(rows, m) == {r \in DOMAIN rows : rows[r].kind = "replacement" /\ rows[r].old = m}
Agree(rows) == \A m \in DOMAIN rows : rows[m].kind = "meter" =>
    IF Events(rows, m) = {} THEN rows[m].at = None
    ELSE rows[m].at \in {rows[r].at : r \in Events(rows, m)}
OldAreMeters(rows) == \A r \in DOMAIN rows : rows[r].kind = "replacement" =>
    rows[r].old \in DOMAIN rows /\ rows[rows[r].old].kind = "meter"

ASSUME RowsAssumption ==
    /\ Payloads \subseteq Row /\ \A p \in Payloads : p.kind = "meter" => p.at = None
    /\ Stored \in Seq(Row) /\ Agree(Stored) /\ OldAreMeters(Stored)
    /\ SeedRows \subseteq {r \in DOMAIN Stored : Stored[r].default}
    /\ MaxRows \in Nat

Ids == 1..Len(table)
IdsOf(kind) == {r \in Ids : table[r].kind = kind}

Idle == [pc |-> "idle", payload |-> None, saw |-> {}, row |-> 0, code |-> 0]
Refusals == {400, 403, 404, 409}   \* (403 for a missing token as well)

Reply(q, code) ==
    request' = [request EXCEPT ![q] =
        [Idle EXCEPT !.pc = "replied", !.code = code, !.row = request[q].row]]

-----------------------------------------------------------------------------
\* What each handler looks up before it inserts (404, or 400 for meters of another
\* building).

AnyBuilding(p) == p.building \in IdsOf("building") \cup {None}
Refers(p, kinds) == \A r \in p.refs : \E kind \in kinds : r \in IdsOf(kind)
OfBuilding(r, p) == table[r].building = p.building

CreateBuilding(p) == p.kind = "building"
CreateUnit(p) == p.kind = "unit" /\ p.building \in IdsOf("building")
CreateMeter(p) ==
    /\ p.kind = "meter" /\ p.building \in IdsOf("building")
    /\ Refers(p, {"unit"}) /\ \A r \in p.refs : OfBuilding(r, p)
CreateGateway(p) == p.kind = "gateway" /\ AnyBuilding(p)
CreateTariff(p) == p.kind = "tariff" /\ Refers(p, {"profile"})
CreateBillingPeriod(p) == p.kind = "period" /\ p.building \in IdsOf("building")
CreateTaxProfile(p) == p.kind = "profile"
\* (The units of the entries are not looked up.)
CreateAllocationKey(p) == p.kind = "key" /\ AnyBuilding(p)
CreateOperatingCostComponent(p) ==
    p.kind = "component" /\ AnyBuilding(p) /\ Refers(p, {"key", "profile"})
CreateReplacement(p) ==
    /\ p.kind = "replacement" /\ p.building \in IdsOf("building")
    /\ Refers(p, {"meter"}) /\ p.old \in IdsOf("meter") /\ p.old \notin p.refs
    /\ \A r \in p.refs \cup {p.old} : OfBuilding(r, p)
CreateUser(p) == p.kind = "user"
CreateApiKey(p) == p.kind = "apikey"

Found(p) ==
    \/ CreateBuilding(p) \/ CreateUnit(p) \/ CreateMeter(p) \/ CreateGateway(p)
    \/ CreateTariff(p) \/ CreateBillingPeriod(p) \/ CreateTaxProfile(p)
    \/ CreateAllocationKey(p) \/ CreateOperatingCostComponent(p)
    \/ CreateReplacement(p) \/ CreateUser(p) \/ CreateApiKey(p)

\* The schema requires a building, and of a replacement the old meter.
Complete(p) ==
    /\ p.kind \in {"unit", "meter", "period", "replacement"} => p.building # None
    /\ p.kind = "replacement" => p.old # None

Inserting == {q \in Requests : request[q].pc \in {"clear", "create"}}

\* Authentication, role, payload and look-ups, in one step: nothing they look at ever
\* changes or goes away.  A 500: the database fails, or the request is lost.
Receive(q, p) ==
    /\ request[q].pc = "idle"
    /\ Len(table) + Cardinality(Inserting) < MaxRows
    /\ \/ /\ p.valid /\ Found(p)
          /\ request' = [request EXCEPT ![q] = [Idle EXCEPT !.payload = p,
                 !.pc = IF p.default THEN "clear" ELSE "create"]]
       \/ ~(p.valid /\ Complete(p)) /\ Reply(q, 400)
       \/ Complete(p) /\ ~Found(p) /\ \E code \in {400, 404} : Reply(q, code)
       \/ \E code \in {403, 500} : Reply(q, code)
    /\ UNCHANGED <<table, saw, logs>>

\* Defaults of one scope: the tenant's tax profiles, a building's allocation keys (or
\* those of no building).
SameScope(x, y) == x.kind = y.kind /\ (x.kind = "key" => x.building = y.building)
Cleared(S) == [r \in Ids |->
    IF r \in S THEN [table[r] EXCEPT !.default = FALSE] ELSE table[r]]

\* Variant of the next action: the flags taken before the transaction.
ClearAtOnce(q) ==
    LET S == {r \in Ids : SameScope(table[r], request[q].payload)} IN
    /\ request[q].pc = "clear"
    /\ table' = Cleared(S)
    /\ request' = [request EXCEPT ![q].pc = "create", ![q].saw = S]
    /\ UNCHANGED <<saw, logs>>

\* updateMany: the statement sees the rows committed when it starts (READ COMMITTED);
\* waiting for a lock does not add those that another transaction inserts meanwhile.
Clear(q) ==
    /\ request[q].pc = "clear"
    /\ request' = [request EXCEPT ![q].pc = "create",
           ![q].saw = {r \in Ids : SameScope(table[r], request[q].payload)}]
    /\ UNCHANGED <<table, saw, logs>>

Conflicts(p) == p.kind \in Unique /\ \E r \in IdsOf(p.kind) : table[r].key = p.key

Decommissioned(rows, p) ==
    IF p.kind = "replacement" THEN [rows EXCEPT ![p.old].at = p.at] ELSE rows

Saw(q) == IF request[q].payload.default THEN request[q].saw \cup {Len(table) + 1} ELSE {}
Insert(q, rows) ==
    /\ table' = Append(rows, request[q].payload)
    /\ saw' = Append(saw, Saw(q))
    /\ request' = [request EXCEPT ![q].pc = "audit", ![q].row = Len(table) + 1]
    /\ UNCHANGED logs

\* Variant of the next action: the meter is updated outside the transaction, which may
\* fail.
CreatePiecemeal(q) ==
    /\ request[q].pc = "create" /\ ~Conflicts(request[q].payload)
    /\ Insert(q, Cleared(request[q].saw))

\* The transaction commits, or the single insert.
Create(q) ==
    LET p == request[q].payload IN
    /\ request[q].pc = "create" /\ ~Conflicts(p)
    /\ Insert(q, Decommissioned(Cleared(request[q].saw), p))

\* The seed's upserts of its two rows: isDefault is set, the others' flags are as they
\* were, and nothing is cleared.  (A clear that still holds its locks makes the seed
\* wait; one that waits itself clears the flag after it.)
UpsertDefault(r) ==
    /\ table' = [table EXCEPT ![r].default = TRUE]
    /\ saw' = [s \in Ids |-> IF s = r THEN saw[s] ELSE saw[s] \ {r}]
    /\ UNCHANGED <<logs, request>>

\* P2002 in the error handler.
Conflict(q) ==
    /\ request[q].pc = "create" /\ Conflicts(request[q].payload)
    /\ Reply(q, 409)
    /\ UNCHANGED <<table, saw, logs>>

\* Variant of the next action: the reply does not wait for the change log.
WriteAuditLogOnly(q) ==
    /\ request[q].pc = "audit"
    /\ auditLog' = auditLog \cup {request[q].row}
    /\ Reply(q, 201)
    /\ UNCHANGED <<table, saw, changeLog>>

WriteAuditLog(q) ==
    /\ request[q].pc = "audit"
    /\ auditLog' = auditLog \cup {request[q].row}
    /\ IF request[q].payload.kind \in Billing
       THEN request' = [request EXCEPT ![q].pc = "log"]
       ELSE Reply(q, 201)
    /\ UNCHANGED <<table, saw, changeLog>>

WriteBillingChangeLog(q) ==
    /\ request[q].pc = "log"
    /\ changeLog' = changeLog \cup {request[q].row}
    /\ Reply(q, 201)
    /\ UNCHANGED <<table, saw, auditLog>>

\* A database call throws, the process dies, or the connection: what is committed
\* stays, and the client has a 500 or no answer.
Fail(q) ==
    /\ request[q].pc \in {"clear", "create", "audit", "log"}
    /\ Reply(q, 500)
    /\ UNCHANGED <<table, saw, logs>>

\* The client has the reply.
Done(q) ==
    /\ request[q].pc = "replied"
    /\ request' = [request EXCEPT ![q] = Idle]
    /\ UNCHANGED <<table, saw, logs>>

Init ==
    /\ table = Stored
    /\ saw = [r \in DOMAIN Stored |-> IF Stored[r].default THEN {r} ELSE {}]
    /\ auditLog = {} /\ changeLog = {}
    /\ request = [q \in Requests |-> Idle]

Handle(q) ==
    \/ Clear(q) \/ Create(q) \/ Conflict(q)
    \/ WriteAuditLog(q) \/ WriteBillingChangeLog(q) \/ Fail(q)

Next ==
    \/ \E q \in Requests : (\E p \in Payloads : Receive(q, p)) \/ Handle(q) \/ Done(q)
    \/ \E r \in SeedRows \cap Ids : UpsertDefault(r)

Spec == Init /\ [][Next]_vars

-----------------------------------------------------------------------------
\* Every variable has its type.
Request == [pc: {"idle", "clear", "create", "audit", "log", "replied"},
            payload: Row \cup {None}, saw: SUBSET Ids, row: {0} \cup Ids,
            code: {0, 201, 500} \cup Refusals]
TypeOK ==
    /\ table \in Seq(Row)
    /\ saw \in [Ids -> SUBSET Ids]
    /\ auditLog \subseteq Ids /\ changeLog \subseteq Ids
    /\ request \in [Requests -> Request]

\* A reply is true, whatever fails or runs beside it: behind a 201 is a row that the
\* audit log, and for billing data the change log, reports; a refusal left nothing
\* behind.  (A 500 may have left the row.)
OnRecord(r) == r \in auditLog /\ (table[r].kind \in Billing => r \in changeLog)
ReplyIsTrue == \A q \in Requests : request[q].pc = "replied" =>
    /\ request[q].code = 201 => request[q].row \in Ids /\ OnRecord(request[q].row)
    /\ request[q].code \in Refusals => request[q].row = 0

\* Two defaults of one scope are there only if they were made at once, neither having
\* seen the other, or if the seed has given its own row back the flag that the other
\* took; and once a scope has a default, it never is without, wherever a switch fails
\* and the seed runs.
Defaults(r) == {s \in Ids : SameScope(table[r], table[s]) /\ table[s].default}
DefaultsAreSwitched == \A r \in Ids :
    /\ table[r].default => \A s \in Defaults(r) \ {r} : r \notin saw[s]
    /\ (\E s \in Ids : SameScope(table[r], table[s]) /\ s \in saw[s]) => Defaults(r) # {}

\* A meter is decommissioned exactly when a replacement event says so, at its time,
\* also when another replacement of it runs at once.
ReplacementsAgree == Agree(table)

\* The inductive invariant behind the three: what a request knows stays true, a
\* replacement names a meter, and a flag once taken is given back by the seed only.
Scope(p) == {r \in Ids : SameScope(table[r], p)}
RequestsAgree == \A q \in Requests :
    LET x == request[q]
        p == x.payload
    IN  /\ x.pc \in {"idle", "clear", "create"} => x.row = 0
        /\ x.pc \in {"clear", "create", "audit", "log"} => p \in Payloads
        /\ x.pc \in {"clear", "create"} =>
             /\ x.saw \subseteq Scope(p)
             /\ (x.pc = "clear" \/ x.saw # {}) => p.default
             /\ p.kind = "replacement" => p.old \in IdsOf("meter")
        /\ x.pc \in {"audit", "log"} => x.row \in Ids /\ table[x.row].kind = p.kind
        /\ x.pc = "log" => x.row \in auditLog
FlagsStayTaken == \A s \in Ids : \A r \in saw[s] \ {s} : ~table[r].default
ScopesKeepDefault ==
    \A s \in Ids : s \in saw[s] => \E r \in Scope(table[s]) : table[r].default
IInv ==
    /\ TypeOK /\ RequestsAgree /\ ReplyIsTrue
    /\ OldAreMeters(table) /\ ReplacementsAgree
    /\ FlagsStayTaken /\ ScopesKeepDefault
=============================================================================
