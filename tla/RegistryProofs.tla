------------------------------ MODULE RegistryProofs ------------------------------
(***************************************************************************)
(* Proofs about Registry, and about the API as Console's tabs call it: the *)
(* inductive invariant IInv for any number of requests, payloads and rows. *)
(* A step either changes what one request knows, with the rows as they     *)
(* are, or commits a row, or is the seed's upsert of one of its own, after *)
(* which everybody still knows what they did.                              *)
(***************************************************************************)
EXTENDS Console, TLAPS

Codes == {0, 201, 500} \cup Refusals
RequestOf(ids) ==
    [pc: {"idle", "clear", "create", "audit", "log", "replied"},
     payload: Row \cup {None}, saw: SUBSET ids, row: {0} \cup ids, code: Codes]

\* What IInv says of one request, given the rows and the logs.
Knows(x, rows, audited, logged) ==
    /\ x \in RequestOf(DOMAIN rows)
    /\ x.pc \in {"idle", "clear", "create"} => x.row = 0
    /\ x.pc \in {"clear", "create", "audit", "log"} => x.payload \in Payloads
    /\ x.pc \in {"clear", "create"} =>
         /\ \A r \in x.saw : SameScope(rows[r], x.payload)
         /\ (x.pc = "clear" \/ x.saw # {}) => x.payload.default
         /\ x.payload.kind = "replacement" =>
              x.payload.old \in DOMAIN rows /\ rows[x.payload.old].kind = "meter"
    /\ x.pc \in {"audit", "log"} =>
         x.row \in DOMAIN rows /\ rows[x.row].kind = x.payload.kind
    /\ x.pc = "log" => x.row \in audited
    /\ x.pc = "replied" =>
         /\ x.code = 201 =>
              /\ x.row \in DOMAIN rows /\ x.row \in audited
              /\ rows[x.row].kind \in Billing => x.row \in logged
         /\ x.code \in Refusals => x.row = 0

\* What it says of the rows.
RowsInv ==
    /\ table \in Seq(Row) /\ saw \in [Ids -> SUBSET Ids]
    /\ OldAreMeters(table) /\ Agree(table)
    /\ FlagsStayTaken /\ ScopesKeepDefault

LogsInv == auditLog \subseteq Ids /\ changeLog \subseteq Ids

-----------------------------------------------------------------------------
\* IInv, taken apart.
InParts ==
    /\ RowsInv /\ LogsInv
    /\ request \in [Requests -> RequestOf(Ids)]
    /\ \A q \in Requests : Knows(request[q], table, auditLog, changeLog)

LEMMA Parts == IInv <=> InParts
<1>1. Request = RequestOf(Ids)
      BY DEF Request, RequestOf, Codes
<1>2. table \in Seq(Row) => DOMAIN table = Ids
      BY DEF Ids
<1>3. ASSUME TypeOK, NEW q \in Requests
      PROVE  Knows(request[q], table, auditLog, changeLog) <=>
             LET x == request[q]
                 p == x.payload
             IN  /\ x.pc \in {"idle", "clear", "create"} => x.row = 0
                 /\ x.pc \in {"clear", "create", "audit", "log"} => p \in Payloads
                 /\ x.pc \in {"clear", "create"} =>
                      /\ x.saw \subseteq Scope(p)
                      /\ (x.pc = "clear" \/ x.saw # {}) => p.default
                      /\ p.kind = "replacement" => p.old \in IdsOf("meter")
                 /\ x.pc \in {"audit", "log"} => x.row \in Ids /\ table[x.row].kind = p.kind
                 /\ x.pc = "log" => x.row \in auditLog
                 /\ x.pc = "replied" =>
                      /\ x.code = 201 => x.row \in Ids /\ OnRecord(x.row)
                      /\ x.code \in Refusals => x.row = 0
      <2> DEFINE x == request[q]
      <2>1. x \in RequestOf(Ids) /\ DOMAIN table = Ids
            BY <1>1, <1>2, <1>3 DEF TypeOK
      <2>2. x.saw \subseteq Ids
            BY <2>1 DEF RequestOf
      <2> HIDE DEF x
      <2>3. x.saw \subseteq Scope(x.payload) <=>
              \A r \in x.saw : SameScope(table[r], x.payload)
            BY <2>2 DEF Scope
      <2> QED BY <2>1, <2>3 DEF Knows, IdsOf, OnRecord, x
<1>4. IInv => InParts
      <2> SUFFICES ASSUME IInv PROVE InParts
          OBVIOUS
      <2>1. TypeOK /\ RequestsAgree /\ ReplyIsTrue
            BY DEF IInv
      <2>2. ASSUME NEW q \in Requests
            PROVE  Knows(request[q], table, auditLog, changeLog)
            BY <1>3, <2>1 DEF RequestsAgree, ReplyIsTrue
      <2> QED BY <1>1, <2>1, <2>2 DEF InParts, IInv, TypeOK, RowsInv, LogsInv, ReplacementsAgree
<1>5. InParts => IInv
      <2> SUFFICES ASSUME InParts PROVE IInv
          OBVIOUS
      <2>1. TypeOK
            BY <1>1 DEF InParts, RowsInv, LogsInv, TypeOK
      <2>2. RequestsAgree /\ ReplyIsTrue
            BY <1>3, <2>1 DEF InParts, RequestsAgree, ReplyIsTrue
      <2> QED BY <2>1, <2>2 DEF InParts, IInv, RowsInv, ReplacementsAgree
<1> QED BY <1>4, <1>5

\* The same of the next state.
LEMMA NextParts == IInv' <=> InParts'
BY Parts, PTL

\* What a request knows stays true while rows are added, keep their kind and building,
\* and are reported.
LEMMA KnowsMore ==
    ASSUME NEW rows, NEW more, DOMAIN rows \subseteq DOMAIN more,
           \A r \in DOMAIN rows : /\ more[r].kind = rows[r].kind
                                  /\ more[r].building = rows[r].building,
           NEW a, NEW c, NEW b, NEW d, a \subseteq b, c \subseteq d,
           NEW x, Knows(x, rows, a, c)
    PROVE  Knows(x, more, b, d)
<1>1. x \in RequestOf(DOMAIN more)
      BY DEF Knows, RequestOf
<1>2. x.saw \subseteq DOMAIN rows
      BY DEF Knows, RequestOf
<1> QED BY <1>1, <1>2 DEF Knows, SameScope

\* A step that changes one request, and adds to the logs.
LEMMA RequestStep ==
    ASSUME IInv, UNCHANGED <<table, saw>>,
           NEW q \in Requests, NEW y, request' = [request EXCEPT ![q] = y],
           auditLog \subseteq auditLog', auditLog' \subseteq Ids,
           changeLog \subseteq changeLog', changeLog' \subseteq Ids,
           Knows(y, table, auditLog', changeLog')
    PROVE  IInv'
<1>1. RowsInv /\ request \in [Requests -> RequestOf(Ids)] /\ DOMAIN table = Ids
      BY Parts DEF InParts, RowsInv, Ids
<1>2. RowsInv' /\ LogsInv' /\ Ids' = Ids
      BY <1>1 DEF RowsInv, LogsInv, FlagsStayTaken, ScopesKeepDefault, Scope, Ids
<1>3. y \in RequestOf(Ids)
      BY <1>1 DEF Knows
<1>4. request' \in [Requests -> RequestOf(Ids')]
      BY <1>1, <1>2, <1>3
<1>5. ASSUME NEW p \in Requests
      PROVE  Knows(request'[p], table', auditLog', changeLog')
      <2>1. CASE p = q
            BY <1>1, <2>1
      <2>2. CASE p # q
            <3>1. Knows(request[p], table, auditLog, changeLog)
                  BY Parts DEF InParts
            <3>2. Knows(request[p], table, auditLog', changeLog')
                  BY <3>1, KnowsMore
            <3> QED BY <1>1, <2>2, <3>2
      <2> QED BY <2>1, <2>2
<1> QED BY <1>2, <1>4, <1>5, NextParts DEF InParts

\* A reply: what its code promises must be true.
LEMMA ReplyStep ==
    ASSUME IInv, UNCHANGED <<table, saw>>,
           NEW q \in Requests, NEW code \in Codes, Reply(q, code),
           auditLog \subseteq auditLog', auditLog' \subseteq Ids,
           changeLog \subseteq changeLog', changeLog' \subseteq Ids,
           code = 201 =>
             /\ request[q].row \in Ids /\ request[q].row \in auditLog'
             /\ table[request[q].row].kind \in Billing => request[q].row \in changeLog',
           code \in Refusals => request[q].row = 0
    PROVE  IInv'
<1> DEFINE y == [Idle EXCEPT !.pc = "replied", !.code = code, !.row = request[q].row]
<1>1. DOMAIN table = Ids /\ request[q].row \in {0} \cup Ids
      BY Parts DEF InParts, RowsInv, Ids, RequestOf
<1>2. /\ y.pc = "replied" /\ y.code = code /\ y.row = request[q].row
      BY DEF Idle
<1>3. y \in RequestOf(DOMAIN table)
      BY <1>1 DEF Idle, RequestOf
<1>4. Knows(y, table, auditLog', changeLog')
      BY <1>1, <1>2, <1>3 DEF Knows
<1>5. request' = [request EXCEPT ![q] = y]
      BY DEF Reply
<1> HIDE DEF y
<1> QED BY <1>4, <1>5, RequestStep
-----------------------------------------------------------------------------
\* A row keeps all but its flag, if that is taken, and the meter replaced gets its time.
FlagTaken(x) == [x EXCEPT !.default = FALSE]
DatedAt(x, t) == [x EXCEPT !.at = t]

LEMMA FlagTakenFields ==
    ASSUME NEW x \in Row
    PROVE  /\ FlagTaken(x) \in Row /\ FlagTaken(x).default = FALSE
           /\ FlagTaken(x).kind = x.kind /\ FlagTaken(x).building = x.building
           /\ FlagTaken(x).old = x.old /\ FlagTaken(x).at = x.at
BY DEF Row, FlagTaken

FlagGiven(x) == [x EXCEPT !.default = TRUE]

LEMMA FlagGivenFields ==
    ASSUME NEW x \in Row
    PROVE  /\ FlagGiven(x) \in Row /\ FlagGiven(x).default
           /\ FlagGiven(x).kind = x.kind /\ FlagGiven(x).building = x.building
           /\ FlagGiven(x).old = x.old /\ FlagGiven(x).at = x.at
BY DEF Row, FlagGiven

LEMMA DatedAtFields ==
    ASSUME NEW x \in Row, NEW t \in Nat \cup {None}
    PROVE  /\ DatedAt(x, t) \in Row /\ DatedAt(x, t).default = x.default
           /\ DatedAt(x, t).kind = x.kind /\ DatedAt(x, t).building = x.building
           /\ DatedAt(x, t).old = x.old /\ DatedAt(x, t).at = t
BY DEF Row, DatedAt

\* The commit of a row, field by field.
LEMMA Committed ==
    ASSUME IInv, NEW q \in Requests, Create(q),
           NEW n, n = Len(table) + 1
    PROVE  LET p == request[q].payload IN
           /\ p \in Payloads /\ p \in Row /\ n \notin Ids
           /\ table' \in Seq(Row) /\ Ids' = Ids \cup {n} /\ table'[n] = p
           /\ \A r \in Ids :
                /\ table'[r].kind = table[r].kind /\ table'[r].building = table[r].building
                /\ table'[r].old = table[r].old
                /\ table'[r].default = IF r \in request[q].saw THEN FALSE ELSE table[r].default
                /\ table'[r].at = IF p.kind = "replacement" /\ r = p.old THEN p.at
                                  ELSE table[r].at
<1> DEFINE p == request[q].payload
           S == request[q].saw
           cleared == Cleared(S)
           rows == Decommissioned(cleared, p)
<1>1. table \in Seq(Row) /\ Len(table) \in Nat
      BY Parts DEF InParts, RowsInv
<1>2. p \in Payloads
      BY Parts DEF InParts, Knows, Create
<1>3. p \in Row /\ p.at \in Nat \cup {None}
      BY <1>2, RowsAssumption DEF Row
<1>4. /\ cleared \in [Ids -> Row]
      /\ \A r \in Ids : /\ cleared[r].kind = table[r].kind
                         /\ cleared[r].building = table[r].building
                         /\ cleared[r].old = table[r].old /\ cleared[r].at = table[r].at
                         /\ cleared[r].default =
                              IF r \in S THEN FALSE ELSE table[r].default
      <2>1. \A r \in Ids : table[r] \in Row
            BY <1>1 DEF Ids
      <2>2. \A r \in Ids :
              cleared[r] = IF r \in S THEN FlagTaken(table[r]) ELSE table[r]
            BY DEF Cleared, FlagTaken
      <2>3. DOMAIN cleared = Ids /\ cleared = [r \in Ids |-> cleared[r]]
            BY DEF Cleared
      <2> HIDE DEF cleared
      <2>4. ASSUME NEW r \in Ids
            PROVE  /\ cleared[r] \in Row
                   /\ cleared[r].kind = table[r].kind
                   /\ cleared[r].building = table[r].building
                   /\ cleared[r].old = table[r].old /\ cleared[r].at = table[r].at
                   /\ cleared[r].default = IF r \in S THEN FALSE ELSE table[r].default
            <3>1. CASE r \in S
                  <4>1. cleared[r] = FlagTaken(table[r])
                        BY <2>2, <3>1
                  <4>2. table[r] \in Row
                        BY <2>1
                  <4>3. /\ FlagTaken(table[r]) \in Row /\ FlagTaken(table[r]).default = FALSE
                        /\ FlagTaken(table[r]).kind = table[r].kind
                        /\ FlagTaken(table[r]).building = table[r].building
                        /\ FlagTaken(table[r]).old = table[r].old
                        /\ FlagTaken(table[r]).at = table[r].at
                        BY <4>2, FlagTakenFields
                  <4> QED BY <3>1, <4>1, <4>3
            <3>2. CASE r \notin S
                  BY <2>1, <2>2, <3>2
            <3> QED BY <3>1, <3>2
      <2> QED BY <2>3, <2>4
<1> HIDE DEF cleared
<1>5. /\ rows \in [Ids -> Row]
      /\ \A r \in Ids : /\ rows[r].kind = cleared[r].kind
                         /\ rows[r].building = cleared[r].building
                         /\ rows[r].old = cleared[r].old /\ rows[r].default = cleared[r].default
                         /\ rows[r].at = IF p.kind = "replacement" /\ r = p.old THEN p.at
                                         ELSE cleared[r].at
      <2>1. CASE p.kind = "replacement"
            <3>1. rows = [cleared EXCEPT ![p.old] = [cleared[p.old] EXCEPT !.at = p.at]]
                  BY <2>1 DEF Decommissioned
            <3>2. DOMAIN rows = Ids /\ rows = [r \in Ids |-> rows[r]]
                  BY <1>4, <3>1
            <3>3. \A r \in Ids : rows[r] = IF r = p.old THEN DatedAt(cleared[r], p.at)
                                           ELSE cleared[r]
                  BY <1>4, <3>1 DEF DatedAt
            <3> HIDE DEF rows
            <3>4. ASSUME NEW r \in Ids
                  PROVE  /\ rows[r] \in Row
                         /\ rows[r].kind = cleared[r].kind
                         /\ rows[r].building = cleared[r].building
                         /\ rows[r].old = cleared[r].old
                         /\ rows[r].default = cleared[r].default
                         /\ rows[r].at = IF r = p.old THEN p.at ELSE cleared[r].at
                  <4>1. CASE r = p.old
                        <5>1. rows[r] = DatedAt(cleared[r], p.at) /\ cleared[r] \in Row
                              BY <1>4, <3>3, <4>1
                        <5> DEFINE x == cleared[r]
                        <5>2. x \in Row
                              BY <5>1
                        <5> HIDE DEF x
                        <5>3. /\ DatedAt(x, p.at) \in Row
                              /\ DatedAt(x, p.at).default = x.default
                              /\ DatedAt(x, p.at).kind = x.kind
                              /\ DatedAt(x, p.at).building = x.building
                              /\ DatedAt(x, p.at).old = x.old
                              /\ DatedAt(x, p.at).at = p.at
                              BY <1>3, <5>2, DatedAtFields
                        <5> QED BY <4>1, <5>1, <5>3 DEF x
                  <4>2. CASE r # p.old
                        BY <1>4, <3>3, <4>2
                  <4> QED BY <4>1, <4>2
            <3> QED BY <2>1, <3>2, <3>4
      <2>2. CASE p.kind # "replacement"
            BY <1>4, <2>2 DEF Decommissioned
      <2> QED BY <2>1, <2>2
<1>6. table' = Append(rows, p)
      BY DEF Create, Insert, cleared
<1> HIDE DEF rows
<1>7. rows \in Seq(Row) /\ Len(rows) = Len(table)
      BY <1>1, <1>5 DEF Ids
<1>8. /\ table' \in Seq(Row) /\ Len(table') = Len(table) + 1 /\ table'[n] = p
      /\ \A r \in Ids : table'[r] = rows[r]
      BY <1>1, <1>3, <1>6, <1>7 DEF Ids
<1>9. Ids' = Ids \cup {n} /\ n \notin Ids
      BY <1>1, <1>8 DEF Ids
<1>10. ASSUME NEW r \in Ids
       PROVE  /\ table'[r].kind = table[r].kind /\ table'[r].building = table[r].building
              /\ table'[r].old = table[r].old
              /\ table'[r].default = IF r \in S THEN FALSE ELSE table[r].default
              /\ table'[r].at = IF p.kind = "replacement" /\ r = p.old THEN p.at
                                ELSE table[r].at
       <2>1. table'[r] = rows[r]
             BY <1>8
       <2>2. /\ rows[r].kind = table[r].kind /\ rows[r].building = table[r].building
             /\ rows[r].old = table[r].old
             BY <1>4, <1>5
       <2>3. rows[r].default = IF r \in S THEN FALSE ELSE table[r].default
             <3>1. rows[r].default = cleared[r].default
                   BY <1>5
             <3>2. cleared[r].default = IF r \in S THEN FALSE ELSE table[r].default
                   BY <1>4
             <3> QED BY <3>1, <3>2
       <2>4. rows[r].at = IF p.kind = "replacement" /\ r = p.old THEN p.at ELSE table[r].at
             <3>1. rows[r].at = IF p.kind = "replacement" /\ r = p.old THEN p.at
                                ELSE cleared[r].at
                   BY <1>5
             <3>2. cleared[r].at = table[r].at
                   BY <1>4
             <3> QED BY <3>1, <3>2
       <2> QED BY <2>1, <2>2, <2>3, <2>4
<1> QED BY <1>2, <1>3, <1>8, <1>9, <1>10

\* What the row took is what its request saw, and itself.
LEMMA SawCommitted ==
    ASSUME IInv, NEW q \in Requests, Create(q),
           NEW n, n = Len(table) + 1
    PROVE  /\ saw' \in [Ids' -> SUBSET Ids']
           /\ \A r \in Ids : saw'[r] = saw[r]
           /\ saw'[n] = IF request[q].payload.default THEN request[q].saw \cup {n} ELSE {}
<1>1. /\ table \in Seq(Row) /\ saw \in [Ids -> SUBSET Ids]
      /\ request[q] \in RequestOf(Ids)
      BY Parts DEF InParts, RowsInv
<1>2. request[q].saw \subseteq Ids
      BY <1>1 DEF RequestOf
<1>3. Ids' = Ids \cup {n} /\ n \notin Ids
      BY Committed
<1> DEFINE new == IF request[q].payload.default THEN request[q].saw \cup {n} ELSE {}
<1>4. saw' = Append(saw, new)
      BY DEF Create, Insert, Saw
<1>5. new \in SUBSET Ids'
      BY <1>2, <1>3
<1> HIDE DEF new
<1>6. saw \in Seq(SUBSET Ids) /\ Len(saw) = Len(table)
      BY <1>1 DEF Ids
<1>7. /\ saw' \in [1..Len(table) + 1 -> SUBSET Ids']
      /\ \A r \in Ids : saw'[r] = saw[r]
      /\ saw'[n] = new
      <2>1. saw \in Seq(SUBSET Ids')
            BY <1>1, <1>3, <1>6
      <2>2. Len(table) \in Nat /\ n = Len(saw) + 1
            BY <1>1, <1>6
      <2>3. saw' \in Seq(SUBSET Ids') /\ Len(saw') = Len(saw) + 1
            BY <1>4, <1>5, <2>1
      <2>4. saw' \in [1..Len(table) + 1 -> SUBSET Ids']
            BY <1>6, <2>2, <2>3
      <2>5. saw'[n] = new
            BY <1>4, <1>5, <2>1, <2>2
      <2>6. ASSUME NEW r \in Ids
            PROVE  saw'[r] = saw[r]
            <3>1. r \in 1..Len(saw)
                  BY <1>6 DEF Ids
            <3> QED BY <1>4, <1>5, <2>1, <3>1
      <2> QED BY <2>4, <2>5, <2>6
<1>8. Ids' = 1..Len(table) + 1
      BY <1>1, <1>3 DEF Ids
<1> QED BY <1>7, <1>8 DEF new

\* A committed row: replacements still name meters, and agree with them.
LEMMA CreateKeepsReplacements ==
    ASSUME IInv, NEW q \in Requests, Create(q)
    PROVE  OldAreMeters(table)' /\ Agree(table)'
<1> DEFINE n == Len(table) + 1
           p == request[q].payload
<1>1. /\ p \in Payloads /\ n \notin Ids
      /\ Ids' = Ids \cup {n} /\ table'[n] = p
      /\ \A r \in Ids : table'[r].kind = table[r].kind /\ table'[r].old = table[r].old
      BY Committed
<1>2. \A r \in Ids : table'[r].at = IF p.kind = "replacement" /\ r = p.old THEN p.at
                                    ELSE table[r].at
      BY Committed
<1>3. DOMAIN table = Ids /\ DOMAIN table' = Ids'
      <2>1. table \in Seq(Row) /\ table' \in Seq(Row)
            BY Parts, Committed DEF InParts, RowsInv
      <2> QED BY <2>1 DEF Ids
<1>4. OldAreMeters(table) /\ Agree(table)
      BY Parts DEF InParts, RowsInv
<1>5. p.kind = "replacement" => p.old \in Ids /\ table[p.old].kind = "meter"
      BY Parts, <1>3 DEF InParts, Knows, Create
<1>6. p.kind = "meter" => p.at = None
      BY <1>1, RowsAssumption
<1> HIDE DEF n, p
<1>7. OldAreMeters(table')
      BY <1>1, <1>3, <1>4, <1>5 DEF OldAreMeters
<1>8. ASSUME NEW m \in Ids', table'[m].kind = "meter"
      PROVE  IF Events(table', m) = {} THEN table'[m].at = None
             ELSE table'[m].at \in {table'[r].at : r \in Events(table', m)}
      <2>1. CASE m = n
            <3>1. Events(table', m) = {}
                  BY <1>1, <1>3, <1>4, <1>5, <1>8, <2>1 DEF Events, OldAreMeters
            <3> QED BY <1>1, <1>6, <1>8, <2>1, <3>1
      <2>2. CASE m \in Ids /\ p.kind = "replacement" /\ m = p.old
            <3>1. n \in Events(table', m)
                  BY <1>1, <1>3, <2>2 DEF Events
            <3>2. table'[m].at = table'[n].at
                  BY <1>1, <1>2, <2>2
            <3> QED BY <3>1, <3>2
      <2>3. CASE m \in Ids /\ ~(p.kind = "replacement" /\ m = p.old)
            <3>1. Events(table', m) = Events(table, m)
                  <4>1. ASSUME NEW r \in Ids
                        PROVE  r \in Events(table', m) <=> r \in Events(table, m)
                        BY <1>1, <1>3 DEF Events
                  <4>2. n \notin Events(table', m) /\ n \notin Events(table, m)
                        BY <1>1, <1>3, <2>3 DEF Events
                  <4>3. Events(table', m) \subseteq Ids' /\ Events(table, m) \subseteq Ids
                        BY <1>3 DEF Events
                  <4> QED BY <1>1, <4>1, <4>2, <4>3
            <3>2. table'[m].at = table[m].at /\ table[m].kind = "meter"
                  BY <1>1, <1>2, <1>8, <2>3
            <3>3. IF Events(table, m) = {} THEN table[m].at = None
                  ELSE table[m].at \in {table[r].at : r \in Events(table, m)}
                  BY <1>3, <1>4, <2>3, <3>2 DEF Agree
            <3>4. \A r \in Events(table, m) : table'[r].at = table[r].at
                  BY <1>2, <1>3, <1>4, <1>5 DEF Events, OldAreMeters
            <3> QED BY <3>1, <3>2, <3>3, <3>4
      <2> QED BY <1>1, <2>1, <2>2, <2>3
<1>9. Agree(table')
      BY <1>3, <1>8 DEF Agree
<1> QED BY <1>7, <1>9

\* A committed row: a flag once taken is not given back, and no scope loses its default.
LEMMA CreateKeepsDefaults ==
    ASSUME IInv, NEW q \in Requests, Create(q)
    PROVE  FlagsStayTaken' /\ ScopesKeepDefault'
<1> DEFINE n == Len(table) + 1
           p == request[q].payload
           S == request[q].saw
<1>1. /\ n \notin Ids /\ Ids' = Ids \cup {n} /\ table'[n] = p /\ p \in Row
      /\ \A r \in Ids :
           /\ table'[r].kind = table[r].kind /\ table'[r].building = table[r].building
           /\ table'[r].default = IF r \in S THEN FALSE ELSE table[r].default
      BY Committed
<1>2. /\ \A r \in Ids : saw'[r] = saw[r]
      /\ saw'[n] = IF p.default THEN S \cup {n} ELSE {}
      BY SawCommitted
<1>3. FlagsStayTaken /\ ScopesKeepDefault /\ saw \in [Ids -> SUBSET Ids]
      BY Parts DEF InParts, RowsInv
<1>4. S \subseteq Ids /\ (\A r \in S : SameScope(table[r], p)) /\ (S # {} => p.default)
      <2>1. Knows(request[q], table, auditLog, changeLog) /\ request[q] \in RequestOf(Ids)
            BY Parts DEF InParts
      <2> QED BY <2>1 DEF Knows, RequestOf, Create
<1>5. p.default \in BOOLEAN
      BY <1>1 DEF Row
<1> HIDE DEF n, p, S
<1>6. FlagsStayTaken'
      <2> SUFFICES ASSUME NEW s \in Ids', NEW r \in saw'[s] \ {s}
                   PROVE  ~table'[r].default
          BY DEF FlagsStayTaken
      <2>1. CASE s = n
            BY <1>1, <1>2, <1>4, <2>1
      <2>2. CASE s \in Ids
            <3>1. r \in Ids /\ ~table[r].default
                  BY <1>2, <1>3, <2>2 DEF FlagsStayTaken
            <3> QED BY <1>1, <3>1
      <2> QED BY <1>1, <2>1, <2>2
<1>7. ScopesKeepDefault'
      <2> SUFFICES ASSUME NEW s \in Ids', s \in saw'[s]
                   PROVE  \E r \in Ids' : SameScope(table'[r], table'[s]) /\ table'[r].default
          BY DEF ScopesKeepDefault, Scope
      <2>1. CASE s = n
            <3>1. p.default
                  BY <1>2, <1>5, <2>1
            <3> QED BY <1>1, <2>1, <3>1 DEF SameScope
      <2>2. CASE s \in Ids
            <3>1. PICK r \in Ids : SameScope(table[r], table[s]) /\ table[r].default
                  BY <1>2, <1>3, <2>2 DEF ScopesKeepDefault, Scope
            <3>2. CASE r \in S
                  <4>1. SameScope(table'[n], table'[s])
                        BY <1>1, <1>4, <2>2, <3>1, <3>2 DEF SameScope
                  <4>2. table'[n].default
                        BY <1>1, <1>4, <3>2
                  <4> QED BY <1>1, <4>1, <4>2
            <3>3. CASE r \notin S
                  BY <1>1, <2>2, <3>1, <3>3 DEF SameScope
            <3> QED BY <3>2, <3>3
      <2> QED BY <1>1, <2>1, <2>2
<1> QED BY <1>6, <1>7

\* A committed row keeps the invariant.
LEMMA CreateKeeps ==
    ASSUME IInv, NEW q \in Requests, Create(q)
    PROVE  IInv'
<1> DEFINE n == Len(table) + 1
           p == request[q].payload
           y == [request[q] EXCEPT !.pc = "audit", !.row = n]
<1>1. /\ p \in Payloads /\ n \notin Ids /\ table' \in Seq(Row)
      /\ Ids' = Ids \cup {n} /\ table'[n] = p
      /\ \A r \in Ids : table'[r].kind = table[r].kind /\ table'[r].building = table[r].building
      BY Committed
<1>2. DOMAIN table = Ids /\ DOMAIN table' = Ids' /\ request \in [Requests -> RequestOf(Ids)]
      <2>1. table \in Seq(Row) /\ request \in [Requests -> RequestOf(Ids)]
            BY Parts DEF InParts, RowsInv
      <2> QED BY <1>1, <2>1 DEF Ids
<1>3. RowsInv'
      <2>1. saw' \in [Ids' -> SUBSET Ids']
            BY SawCommitted
      <2> QED BY <1>1, <2>1, CreateKeepsReplacements, CreateKeepsDefaults DEF RowsInv
<1>4. UNCHANGED <<auditLog, changeLog>> /\ request' = [request EXCEPT ![q] = y]
      BY DEF Create, Insert, logs
<1>5. LogsInv'
      BY <1>1, <1>4, Parts DEF InParts, LogsInv
<1>6. request[q] \in RequestOf(Ids)
      BY <1>2
<1> HIDE DEF n
<1>7. y.pc = "audit" /\ y.row = n /\ y.payload = p
      BY <1>6 DEF RequestOf
<1>8. y \in RequestOf(Ids')
      <2>1. request[q] \in RequestOf(Ids')
            BY <1>1, <1>6 DEF RequestOf
      <2>2. n \in Ids'
            BY <1>1
      <2> QED BY <2>1, <2>2 DEF RequestOf
<1> HIDE DEF y, p
<1>9. Knows(y, table', auditLog', changeLog')
      BY <1>1, <1>2, <1>7, <1>8 DEF Knows
<1>10. request' \in [Requests -> RequestOf(Ids')]
       <2>1. request \in [Requests -> RequestOf(Ids')]
             <3>1. RequestOf(Ids) \subseteq RequestOf(Ids')
                   BY <1>1 DEF RequestOf
             <3> QED BY <1>2, <3>1
       <2> QED BY <1>4, <1>8, <2>1
<1>11. ASSUME NEW x \in Requests
       PROVE  Knows(request'[x], table', auditLog', changeLog')
       <2>1. CASE x = q
             BY <1>2, <1>4, <1>9, <2>1
       <2>2. CASE x # q
             <3>1. Knows(request[x], table, auditLog, changeLog)
                   BY Parts DEF InParts
             <3>2. Knows(request[x], table', auditLog, changeLog)
                   BY <1>1, <1>2, <3>1, KnowsMore
             <3> QED BY <1>2, <1>4, <2>2, <3>2
       <2> QED BY <2>1, <2>2
<1> QED BY <1>3, <1>5, <1>10, <1>11, NextParts DEF InParts

-----------------------------------------------------------------------------
\* A row of the seed is a default again, and all else about the rows is as it was.
LEMMA SeedRow ==
    ASSUME IInv, NEW r \in Ids, UpsertDefault(r)
    PROVE  /\ table' \in Seq(Row) /\ Ids' = Ids
           /\ DOMAIN table = Ids /\ DOMAIN table' = Ids
           /\ table'[r].default
           /\ \A s \in Ids :
                /\ table'[s].kind = table[s].kind /\ table'[s].building = table[s].building
                /\ table'[s].old = table[s].old /\ table'[s].at = table[s].at
                /\ s # r => table'[s] = table[s]
<1>1. table \in Seq(Row) /\ table[r] \in Row
      BY Parts DEF InParts, RowsInv, Ids
<1>2. table' = [table EXCEPT ![r] = FlagGiven(table[r])]
      BY DEF UpsertDefault, FlagGiven
<1> DEFINE x == FlagGiven(table[r])
<1>3. /\ x \in Row /\ x.default
      /\ x.kind = table[r].kind /\ x.building = table[r].building
      /\ x.old = table[r].old /\ x.at = table[r].at
      BY <1>1, FlagGivenFields
<1> HIDE DEF x
<1>4. table' = [table EXCEPT ![r] = x]
      BY <1>2 DEF x
<1>5. table \in [1..Len(table) -> Row] /\ Len(table) \in Nat
      BY <1>1
<1>6. table' \in [1..Len(table) -> Row]
      BY <1>3, <1>4, <1>5
<1>7. table' \in Seq(Row) /\ Len(table') = Len(table)
      BY <1>5, <1>6
<1> QED BY <1>1, <1>3, <1>4, <1>5, <1>7 DEF Ids

\* What the seed does to the history: its row is no longer one whose flag was taken.
LEMMA SeedSaw ==
    ASSUME IInv, NEW r \in Ids, UpsertDefault(r)
    PROVE  /\ saw' \in [Ids -> SUBSET Ids]
           /\ \A s \in Ids : saw'[s] = IF s = r THEN saw[s] ELSE saw[s] \ {r}
BY Parts DEF InParts, RowsInv, UpsertDefault

\* The seed's upsert keeps the invariant.
LEMMA SeedKeeps ==
    ASSUME IInv, NEW r \in SeedRows \cap Ids, UpsertDefault(r)
    PROVE  IInv'
<1>1. /\ table' \in Seq(Row) /\ Ids' = Ids
      /\ DOMAIN table = Ids /\ DOMAIN table' = Ids
      /\ table'[r].default
      /\ \A s \in Ids :
           /\ table'[s].kind = table[s].kind /\ table'[s].building = table[s].building
           /\ table'[s].old = table[s].old /\ table'[s].at = table[s].at
           /\ s # r => table'[s] = table[s]
      BY SeedRow
<1>2. /\ saw' \in [Ids -> SUBSET Ids]
      /\ \A s \in Ids : saw'[s] = IF s = r THEN saw[s] ELSE saw[s] \ {r}
      BY SeedSaw
<1>3. /\ OldAreMeters(table) /\ Agree(table) /\ FlagsStayTaken /\ ScopesKeepDefault
      /\ saw \in [Ids -> SUBSET Ids] /\ LogsInv /\ request \in [Requests -> RequestOf(Ids)]
      BY Parts DEF InParts, RowsInv
<1>4. UNCHANGED <<auditLog, changeLog, request>>
      BY DEF UpsertDefault, logs
<1>5. OldAreMeters(table)'
      BY <1>1, <1>3 DEF OldAreMeters
<1>6. Agree(table)'
      <2> SUFFICES ASSUME NEW m \in Ids, table'[m].kind = "meter"
                   PROVE  IF Events(table', m) = {} THEN table'[m].at = None
                          ELSE table'[m].at \in {table'[s].at : s \in Events(table', m)}
          BY <1>1 DEF Agree
      <2>1. Events(table', m) = Events(table, m) /\ Events(table, m) \subseteq Ids
            BY <1>1 DEF Events
      <2>2. IF Events(table, m) = {} THEN table[m].at = None
            ELSE table[m].at \in {table[s].at : s \in Events(table, m)}
            BY <1>1, <1>3 DEF Agree
      <2>3. table'[m].at = table[m].at /\ \A s \in Events(table, m) : table'[s].at = table[s].at
            BY <1>1, <2>1
      <2> QED BY <2>1, <2>2, <2>3
<1>7. FlagsStayTaken'
      <2> SUFFICES ASSUME NEW s \in Ids, NEW t \in saw'[s] \ {s}
                   PROVE  ~table'[t].default
          BY <1>1 DEF FlagsStayTaken
      <2>1. t \in saw[s] \ {s} /\ t # r
            BY <1>2
      <2>2. t \in Ids /\ ~table[t].default
            BY <1>3, <2>1 DEF FlagsStayTaken
      <2> QED BY <1>1, <2>1, <2>2
<1>8. ScopesKeepDefault'
      <2> SUFFICES ASSUME NEW s \in Ids, s \in saw'[s]
                   PROVE  \E t \in Ids : SameScope(table'[t], table'[s]) /\ table'[t].default
          BY <1>1 DEF ScopesKeepDefault, Scope
      <2>1. PICK t \in Ids : SameScope(table[t], table[s]) /\ table[t].default
            BY <1>2, <1>3 DEF ScopesKeepDefault, Scope
      <2>2. SameScope(table'[t], table'[s])
            BY <1>1, <2>1 DEF SameScope
      <2>3. table'[t].default
            BY <1>1, <2>1
      <2> QED BY <2>2, <2>3
<1>9. RowsInv' /\ LogsInv'
      BY <1>1, <1>2, <1>3, <1>4, <1>5, <1>6, <1>7, <1>8 DEF RowsInv, LogsInv
<1>10. ASSUME NEW q \in Requests
       PROVE  Knows(request'[q], table', auditLog', changeLog')
       <2>1. Knows(request[q], table, auditLog, changeLog)
             BY Parts DEF InParts
       <2>2. Knows(request[q], table', auditLog, changeLog)
             BY <1>1, <2>1, KnowsMore
       <2> QED BY <1>4, <2>2
<1> QED BY <1>1, <1>3, <1>4, <1>9, <1>10, NextParts DEF InParts

-----------------------------------------------------------------------------
\* A request that is read: it knows nothing yet, or is refused and left nothing.
LEMMA ReceiveKeeps ==
    ASSUME IInv, NEW q \in Requests, NEW p \in Payloads, Receive(q, p)
    PROVE  IInv'
<1>1. /\ UNCHANGED <<table, saw, auditLog, changeLog>>
      /\ auditLog \subseteq Ids /\ changeLog \subseteq Ids
      /\ DOMAIN table = Ids
      BY Parts DEF InParts, LogsInv, RowsInv, Receive, logs, Ids
<1>2. request[q].row = 0
      BY Parts DEF InParts, Knows, Receive
<1>3. ASSUME NEW code \in Codes \ {201}, Reply(q, code)
      PROVE  IInv'
      BY <1>1, <1>2, <1>3, ReplyStep
<1>4. CASE /\ p.valid /\ Found(p)
           /\ request' = [request EXCEPT ![q] = [Idle EXCEPT !.payload = p,
                  !.pc = IF p.default THEN "clear" ELSE "create"]]
      <2> DEFINE y == [Idle EXCEPT !.payload = p,
                         !.pc = IF p.default THEN "clear" ELSE "create"]
      <2>1. /\ y.pc \in {"clear", "create"} /\ y.row = 0 /\ y.saw = {} /\ y.code = 0
            /\ y.payload = p /\ (y.pc = "clear" => p.default)
            BY DEF Idle
      <2>2. y \in RequestOf(Ids)
            BY RowsAssumption DEF Idle, RequestOf, Codes
      <2>3. p.kind = "replacement" => p.old \in Ids /\ table[p.old].kind = "meter"
            BY <1>4 DEF Found, CreateBuilding, CreateUnit, CreateMeter, CreateGateway,
               CreateTariff, CreateBillingPeriod, CreateTaxProfile, CreateAllocationKey,
               CreateOperatingCostComponent, CreateReplacement, CreateUser, CreateApiKey, IdsOf
      <2> HIDE DEF y
      <2>4. Knows(y, table, auditLog', changeLog')
            BY <1>1, <2>1, <2>2, <2>3 DEF Knows
      <2> QED BY <1>1, <1>4, <2>4, RequestStep DEF y
<1> QED BY <1>3, <1>4 DEF Receive, Codes, Refusals

\* updateMany: what a request saw is of its payload's scope.
LEMMA ClearKeeps ==
    ASSUME IInv, NEW q \in Requests, Clear(q)
    PROVE  IInv'
<1> DEFINE S == {r \in Ids : SameScope(table[r], request[q].payload)}
           y == [request[q] EXCEPT !.pc = "create", !.saw = S]
<1>1. /\ UNCHANGED <<table, saw, auditLog, changeLog>>
      /\ auditLog \subseteq Ids /\ changeLog \subseteq Ids
      /\ DOMAIN table = Ids
      BY Parts DEF InParts, LogsInv, RowsInv, Clear, logs, Ids
<1>2. request[q] \in RequestOf(Ids) /\ Knows(request[q], table, auditLog, changeLog)
      BY Parts DEF InParts
<1>3. S \subseteq Ids /\ \A r \in S : SameScope(table[r], request[q].payload)
      OBVIOUS
<1>4. request' = [request EXCEPT ![q] = y] /\ request[q].pc = "clear"
      BY DEF Clear
<1> HIDE DEF S
<1>5. /\ y.pc = "create" /\ y.saw = S /\ y.payload = request[q].payload
      /\ y.row = request[q].row
      BY <1>2 DEF RequestOf
<1>6. y \in RequestOf(Ids)
      BY <1>2, <1>3 DEF RequestOf
<1> HIDE DEF y
<1>7. Knows(y, table, auditLog', changeLog')
      BY <1>1, <1>2, <1>3, <1>4, <1>5, <1>6 DEF Knows
<1> QED BY <1>1, <1>4, <1>7, RequestStep

\* The logs: a 201 follows when all the reports of its row are written.
LEMMA LogsKeep ==
    ASSUME IInv, NEW q \in Requests, WriteAuditLog(q) \/ WriteBillingChangeLog(q)
    PROVE  IInv'
<1>1. /\ UNCHANGED <<table, saw>> /\ DOMAIN table = Ids
      /\ auditLog \subseteq Ids /\ changeLog \subseteq Ids
      BY Parts DEF InParts, LogsInv, RowsInv, WriteAuditLog, WriteBillingChangeLog, Ids
<1>2. request[q] \in RequestOf(Ids) /\ Knows(request[q], table, auditLog, changeLog)
      BY Parts DEF InParts
<1>3. request[q].row \in Ids /\ table[request[q].row].kind = request[q].payload.kind
      BY <1>1, <1>2 DEF Knows, WriteAuditLog, WriteBillingChangeLog
<1>4. 201 \in Codes /\ 201 \notin Refusals
      BY DEF Codes, Refusals
<1>5. CASE WriteAuditLog(q)
      <2>1. /\ auditLog' = auditLog \cup {request[q].row} /\ UNCHANGED changeLog
            /\ request[q].pc = "audit"
            BY <1>5 DEF WriteAuditLog
      <2>2. CASE request[q].payload.kind \in Billing
            <3> DEFINE y == [request[q] EXCEPT !.pc = "log"]
            <3>1. request' = [request EXCEPT ![q] = y]
                  BY <1>5, <2>2 DEF WriteAuditLog
            <3>2. /\ y \in RequestOf(Ids) /\ y.pc = "log" /\ y.row = request[q].row
                  /\ y.payload = request[q].payload
                  BY <1>2 DEF RequestOf
            <3> HIDE DEF y
            <3>3. Knows(y, table, auditLog', changeLog')
                  BY <1>1, <1>2, <1>3, <2>1, <3>2 DEF Knows
            <3> QED BY <1>1, <1>3, <2>1, <3>1, <3>3, RequestStep
      <2>3. CASE request[q].payload.kind \notin Billing
            <3>1. Reply(q, 201)
                  BY <1>5, <2>3 DEF WriteAuditLog
            <3> QED BY <1>1, <1>3, <1>4, <2>1, <2>3, <3>1, ReplyStep
      <2> QED BY <2>2, <2>3
<1>6. CASE WriteBillingChangeLog(q)
      <2>1. /\ changeLog' = changeLog \cup {request[q].row} /\ UNCHANGED auditLog
            /\ request[q].pc = "log" /\ Reply(q, 201)
            BY <1>6 DEF WriteBillingChangeLog
      <2>2. request[q].row \in auditLog
            BY <1>2, <2>1 DEF Knows
      <2> QED BY <1>1, <1>3, <1>4, <2>1, <2>2, ReplyStep
<1> QED BY <1>5, <1>6

\* The other replies, and their receipt.
LEMMA EndsKeep ==
    ASSUME IInv, NEW q \in Requests, Conflict(q) \/ Fail(q) \/ Done(q)
    PROVE  IInv'
<1>1. /\ UNCHANGED <<table, saw, auditLog, changeLog>> /\ DOMAIN table = Ids
      /\ auditLog \subseteq Ids /\ changeLog \subseteq Ids
      BY Parts DEF InParts, LogsInv, RowsInv, Conflict, Fail, Done, logs, Ids
<1>2. Knows(request[q], table, auditLog, changeLog)
      BY Parts DEF InParts
<1>3. {409, 500} \subseteq Codes /\ 500 \notin Refusals /\ 500 # 201 /\ 409 # 201
      BY DEF Codes, Refusals
<1>4. CASE Conflict(q)
      <2>1. request[q].row = 0 /\ Reply(q, 409)
            BY <1>2, <1>4 DEF Knows, Conflict
      <2> QED BY <1>1, <1>3, <2>1, ReplyStep
<1>5. CASE Fail(q)
      BY <1>1, <1>3, <1>5, ReplyStep DEF Fail
<1>6. CASE Done(q)
      <2>1. /\ Idle \in RequestOf(Ids) /\ Idle.pc = "idle" /\ Idle.row = 0
            BY DEF Idle, RequestOf, Codes
      <2>2. Knows(Idle, table, auditLog', changeLog')
            BY <1>1, <2>1 DEF Knows
      <2> QED BY <1>1, <1>6, <2>2, RequestStep DEF Done
<1> QED BY <1>4, <1>5, <1>6

\* The rows there already.
LEMMA InitHolds == Init => IInv
<1> SUFFICES ASSUME Init PROVE IInv
    OBVIOUS
<1>1. table = Stored /\ table \in Seq(Row) /\ DOMAIN table = Ids /\ DOMAIN Stored = Ids
      BY RowsAssumption DEF Init, Ids
<1>2. /\ saw \in [Ids -> SUBSET Ids]
      /\ \A r \in Ids : saw[r] = IF table[r].default THEN {r} ELSE {}
      BY <1>1 DEF Init
<1>3. FlagsStayTaken
      BY <1>2 DEF FlagsStayTaken
<1>4. ScopesKeepDefault
      BY <1>2 DEF ScopesKeepDefault, Scope, SameScope
<1>5. RowsInv
      BY <1>1, <1>2, <1>3, <1>4, RowsAssumption DEF RowsInv
<1>6. /\ Idle \in RequestOf(Ids) /\ Idle.pc = "idle" /\ Idle.row = 0
      BY DEF Idle, RequestOf, Codes
<1>7. \A q \in Requests : Knows(request[q], table, auditLog, changeLog)
      BY <1>1, <1>6 DEF Init, Knows
<1>8. LogsInv /\ request \in [Requests -> RequestOf(Ids)]
      BY <1>6 DEF Init, LogsInv
<1> QED BY <1>5, <1>7, <1>8, Parts DEF InParts

\* Every step of the API keeps the invariant.
LEMMA RegistryStep == IInv /\ [Next]_vars => IInv'
<1> SUFFICES ASSUME IInv, [Next]_vars
             PROVE  IInv'
    OBVIOUS
<1>1. ASSUME NEW q \in Requests, NEW p \in Payloads, Receive(q, p)
      PROVE  IInv'
      BY <1>1, ReceiveKeeps
<1>2. ASSUME NEW q \in Requests, Handle(q)
      PROVE  IInv'
      BY <1>2, ClearKeeps, CreateKeeps, LogsKeep, EndsKeep DEF Handle
<1>3. ASSUME NEW q \in Requests, Done(q)
      PROVE  IInv'
      BY <1>3, EndsKeep
<1>4. CASE UNCHANGED vars
      <2>1. UNCHANGED <<table, saw, auditLog, changeLog, request>>
            BY <1>4 DEF vars, logs
      <2>2. Ids' = Ids
            BY <2>1 DEF Ids
      <2>3. InParts'
            BY <2>1, <2>2, Parts DEF InParts, RowsInv, LogsInv, FlagsStayTaken,
               ScopesKeepDefault, Scope
      <2> QED BY <2>3, NextParts
<1>5. ASSUME NEW r \in SeedRows \cap Ids, UpsertDefault(r)
      PROVE  IInv'
      BY <1>5, SeedKeeps
<1> QED BY <1>1, <1>2, <1>3, <1>4, <1>5 DEF Next

\* IInv is an invariant of the API, whoever calls it and whenever the seed runs beside it.
THEOREM RegistryInvariant == Spec => []IInv
BY InitHolds, RegistryStep, PTL DEF Spec

LEMMA ConsoleStep == [ConsoleNext]_consoleVars => [Next]_vars
<1>1. ConsoleNext => [Next]_vars
      BY DEF ConsoleNext, Use, Visit, Show, LoadFails, Submit, Answered, Unanswered, Answer,
         CallApi, Forget, Serve, Reseed, Next
<1> QED BY <1>1 DEF consoleVars

\* Every step of the pages is a step of the API or none of its business: what holds of
\* the API holds of the API as the tabs call it.
THEOREM ConsoleIsClient == ConsoleSpec => Spec
BY ConsoleStep, PTL DEF ConsoleSpec, ConsoleInit, Spec

\* Behind a 201 is a row on record, and nothing behind a refusal (the routes of modules/*
\* that create rows, utils/audit.ts, utils/billing-change-log.ts).
THEOREM RepliesAreTrue == ConsoleSpec => []ReplyIsTrue
<1>1. IInv => ReplyIsTrue
      BY DEF IInv
<1> QED BY <1>1, RegistryInvariant, ConsoleIsClient, PTL

\* Two defaults of a scope were made at once, or one is the seed's, which gave it back
\* the flag; and a scope with a default keeps one (tax-profiles/route.ts,
\* allocation-keys/route.ts, seed.ts).
THEOREM DefaultsAreNotLost == ConsoleSpec => []DefaultsAreSwitched
<1>1. IInv => DefaultsAreSwitched
      <2> SUFFICES ASSUME IInv, NEW r \in Ids
                   PROVE  /\ table[r].default => \A s \in Defaults(r) \ {r} : r \notin saw[s]
                          /\ (\E s \in Ids : SameScope(table[r], table[s]) /\ s \in saw[s])
                               => Defaults(r) # {}
          BY DEF DefaultsAreSwitched
      <2>1. FlagsStayTaken /\ ScopesKeepDefault
            BY DEF IInv
      <2>2. ASSUME table[r].default, NEW s \in Defaults(r) \ {r}
            PROVE  r \notin saw[s]
            BY <2>1, <2>2 DEF FlagsStayTaken, Defaults
      <2>3. ASSUME NEW s \in Ids, SameScope(table[r], table[s]), s \in saw[s]
            PROVE  Defaults(r) # {}
            <3>1. PICK d \in Ids : SameScope(table[d], table[s]) /\ table[d].default
                  BY <2>1, <2>3 DEF ScopesKeepDefault, Scope
            <3> QED BY <2>3, <3>1 DEF Defaults, SameScope
      <2> QED BY <2>2, <2>3
<1> QED BY <1>1, RegistryInvariant, ConsoleIsClient, PTL

\* Meters and their replacements agree (meter-replacement-events/route.ts).
THEOREM MetersAgree == ConsoleSpec => []ReplacementsAgree
<1>1. IInv => ReplacementsAgree
      BY DEF IInv
<1> QED BY <1>1, RegistryInvariant, ConsoleIsClient, PTL

-----------------------------------------------------------------------------
(***************************************************************************)
(* What a page says: the invariant ConsoleInv of the tabs.                 *)
(***************************************************************************)
\* What the tabs know of the rows stays true.
MoreRows ==
    /\ Ids \subseteq Ids' /\ \A r \in Ids : table'[r].kind = table[r].kind
    /\ auditLog \subseteq auditLog' /\ changeLog \subseteq changeLog'

LEMMA HandleAddsRows ==
    ASSUME IInv, NEW q \in Requests, Handle(q)
    PROVE  MoreRows
<1>1. CASE Create(q)
      BY <1>1, Committed DEF MoreRows, Create, Insert, logs
<1>2. CASE ~Create(q)
      BY <1>2 DEF MoreRows, Ids, Handle, Clear, Conflict, WriteAuditLog,
         WriteBillingChangeLog, Fail, logs
<1> QED BY <1>1, <1>2

LEMMA SameRows ==
    ASSUME UNCHANGED <<table, logs>>
    PROVE  MoreRows
BY DEF MoreRows, Ids, logs

\* The seed adds no row and takes none away.
LEMMA SeedAddsRows ==
    ASSUME IInv, NEW r \in Ids, UpsertDefault(r)
    PROVE  MoreRows
BY SeedRow DEF MoreRows, UpsertDefault, logs

\* A handler answers none of its requests with 404: what it looks for is looked for first.
LEMMA HandleKeepsRequests ==
    ASSUME IInv, NEW q \in Requests, Handle(q)
    PROVE  /\ \A x \in Requests \ {q} : request'[x] = request[x]
           /\ request'[q].pc # "idle"
           /\ request'[q].code # 404 \/ request'[q].code = request[q].code
<1>1. request \in [Requests -> RequestOf(Ids)]
      BY Parts DEF InParts
<1>2. ASSUME NEW code \in Codes \ {404}, Reply(q, code)
      PROVE  /\ \A x \in Requests \ {q} : request'[x] = request[x]
             /\ request'[q].pc # "idle" /\ request'[q].code # 404
      <2> DEFINE y == [Idle EXCEPT !.pc = "replied", !.code = code, !.row = request[q].row]
      <2>1. y.pc = "replied" /\ y.code = code
            BY DEF Idle
      <2>2. request' = [request EXCEPT ![q] = y]
            BY <1>2 DEF Reply
      <2> HIDE DEF y
      <2> QED BY <1>1, <2>1, <2>2
<1>3. CASE Clear(q)
      <2> DEFINE S == {r \in Ids : SameScope(table[r], request[q].payload)}
                 y == [request[q] EXCEPT !.pc = "create", !.saw = S]
      <2>1. request' = [request EXCEPT ![q] = y]
            BY <1>3 DEF Clear
      <2> HIDE DEF S
      <2>2. y.pc = "create" /\ y.code = request[q].code
            BY <1>1 DEF RequestOf
      <2> HIDE DEF y
      <2> QED BY <1>1, <2>1, <2>2
<1>4. CASE Create(q)
      <2> DEFINE n == Len(table) + 1
                 y == [request[q] EXCEPT !.pc = "audit", !.row = n]
      <2>1. request' = [request EXCEPT ![q] = y]
            BY <1>4 DEF Create, Insert
      <2> HIDE DEF n
      <2>2. y.pc = "audit" /\ y.code = request[q].code
            BY <1>1 DEF RequestOf
      <2> HIDE DEF y
      <2> QED BY <1>1, <2>1, <2>2
<1>5. CASE \E code \in Codes \ {404} : Reply(q, code)
      BY <1>2, <1>5
<1>6. CASE request' = [request EXCEPT ![q].pc = "log"]
      <2> DEFINE y == [request[q] EXCEPT !.pc = "log"]
      <2>1. request' = [request EXCEPT ![q] = y]
            BY <1>6
      <2>2. y.pc = "log" /\ y.code = request[q].code
            BY <1>1 DEF RequestOf
      <2> HIDE DEF y
      <2> QED BY <1>1, <2>1, <2>2
<1>7. {409, 500, 201} \subseteq Codes \ {404}
      BY DEF Codes, Refusals
<1> QED BY <1>3, <1>4, <1>5, <1>6, <1>7 DEF Handle, Conflict, WriteAuditLog,
        WriteBillingChangeLog, Fail

\* The API finds what a form offers.
LEMMA OfferedIsFound ==
    ASSUME ConsoleInv, NEW u \in Users, NEW p \in Payloads,
           p.kind \in tab[u].page.forms, Offered(u, p), Complete(p)
    PROVE  Found(p)
<1>1. tab[u].page \in Pages /\ tab[u].shown \subseteq OfPage(tab[u].page)
      BY DEF ConsoleInv, TabsAgree, Tab
<1>2. /\ p.building \in {None} \cup IdsOf("building")
      /\ \A r \in p.refs : r \in tab[u].shown /\ table[r].kind \in Offers(p.kind)
      BY DEF Offered
<1>3. \A r \in p.refs : r \in Ids /\ table[r].kind \in tab[u].page.lists
      BY <1>1, <1>2 DEF OfPage
<1>4. CASE tab[u].page = BillingPage
      <2>1. p.kind \in {"period", "tariff", "profile", "key", "component"}
            BY <1>4 DEF BillingPage
      <2>2. CASE p.kind = "period"
            BY <1>2, <2>2 DEF Complete, Found, CreateBillingPeriod
      <2>3. CASE p.kind = "tariff"
            BY <1>2, <1>3, <2>3 DEF Offers, Found, CreateTariff, Refers, IdsOf
      <2>4. CASE p.kind \in {"profile", "key"}
            BY <1>2, <2>4 DEF Found, CreateTaxProfile, CreateAllocationKey, AnyBuilding
      <2>5. CASE p.kind = "component"
            BY <1>2, <1>3, <2>5 DEF Offers, Found, CreateOperatingCostComponent, AnyBuilding,
               Refers, IdsOf
      <2> QED BY <2>1, <2>2, <2>3, <2>4, <2>5
<1>5. CASE tab[u].page \in {AdminPage, BuildingsPage}
      <2>1. p.kind \in {"user", "apikey", "building"}
            BY <1>5 DEF AdminPage, BuildingsPage
      <2> QED BY <2>1 DEF Found, CreateUser, CreateApiKey, CreateBuilding
<1>6. CASE tab[u].page = MetersPage
      <2>1. p.kind = "meter" /\ "profile" \notin tab[u].page.lists
            BY <1>6 DEF MetersPage
      <2>2. p.refs = {}
            BY <1>2, <1>3, <2>1 DEF Offers
      <2>3. p.building \in IdsOf("building")
            BY <1>2, <2>1 DEF Complete
      <2> QED BY <2>1, <2>2, <2>3 DEF Found, CreateMeter, Refers
<1> QED BY <1>1, <1>4, <1>5, <1>6 DEF Pages

\* The message m is true of the next state.
TruthAfter(m) ==
    /\ m.text = "refused" => m.row = 0 /\ m.code # 404
    /\ m.text = "script" =>
         /\ m.row \in Ids' /\ m.row \in auditLog'
         /\ table'[m.row].kind \in Billing => m.row \in changeLog'

LEMMA TruthStays ==
    ASSUME ConsoleInv, MoreRows, NEW u \in Users
    PROVE  TruthAfter(tab[u].message)
BY DEF ConsoleInv, MessageIsTrue, MoreRows, TruthAfter, OnRecord

\* What is shown stays of the page's lists.
LEMMA ShownStays ==
    ASSUME ConsoleInv, MoreRows, NEW u \in Users
    PROVE  tab[u].shown \subseteq {r \in Ids' : table'[r].kind \in tab[u].page.lists}
BY DEF ConsoleInv, TabsAgree, MoreRows, OfPage

\* A step after which the tab of u is t, and the others' requests are as they were.
LEMMA TabStep ==
    ASSUME ConsoleInv, IInv', MoreRows, NEW u \in Users, NEW t \in Tab,
           tab' = [tab EXCEPT ![u] = t],
           t.shown \subseteq {r \in Ids' : table'[r].kind \in t.page.lists},
           TruthAfter(t.message),
           \A q \in t.pending :
             /\ request'[q].pc # "idle" /\ request'[q].code # 404
             /\ \A v \in Users \ {u} : q \notin tab[v].pending,
           \A v \in Users \ {u} : \A q \in tab[v].pending : request'[q] = request[q]
    PROVE  ConsoleInv'
<1>1. tab \in [Users -> Tab] /\ TabsAgree
      BY DEF ConsoleInv
<1>2. tab' \in [Users -> Tab] /\ tab'[u] = t
      BY <1>1
<1>3. \A v \in Users \ {u} : tab'[v] = tab[v]
      BY <1>1
<1>4. ASSUME NEW v \in Users
      PROVE  /\ tab'[v].shown \subseteq {r \in Ids' : table'[r].kind \in tab'[v].page.lists}
             /\ TruthAfter(tab'[v].message)
      <2>1. CASE v = u
            BY <1>2, <2>1
      <2>2. CASE v # u
            BY <1>3, <2>2, ShownStays, TruthStays
      <2> QED BY <2>1, <2>2
<1>5. ASSUME NEW v \in Users, NEW q \in tab'[v].pending
      PROVE  /\ request'[q].pc # "idle" /\ request'[q].code # 404
             /\ \A w \in Users \ {v} : q \notin tab'[w].pending
      <2>1. CASE v = u
            BY <1>2, <1>3, <1>5, <2>1
      <2>2. CASE v # u
            BY <1>1, <1>2, <1>3, <1>5, <2>2 DEF TabsAgree
      <2> QED BY <2>1, <2>2
<1>6. TabsAgree'
      BY <1>4, <1>5 DEF TabsAgree, OfPage
<1>7. MessageIsTrue'
      BY <1>4 DEF MessageIsTrue, TruthAfter, OnRecord
<1> QED BY <1>2, <1>6, <1>7 DEF ConsoleInv

\* A step that no tab notices.
LEMMA ApiStep ==
    ASSUME ConsoleInv, IInv', MoreRows, UNCHANGED tab,
           \A u \in Users : \A q \in tab[u].pending :
             request'[q].pc # "idle" /\ request'[q].code # 404
    PROVE  ConsoleInv'
<1>1. tab' \in [Users -> Tab]
      BY DEF ConsoleInv
<1>2. TabsAgree'
      BY ShownStays DEF ConsoleInv, TabsAgree, OfPage
<1>3. MessageIsTrue'
      BY TruthStays DEF MessageIsTrue, TruthAfter, OnRecord
<1> QED BY <1>1, <1>2, <1>3 DEF ConsoleInv

\* A request that is read was nobody's, and is refused for a missing row only if there
\* is none.
LEMMA ReceiveRequests ==
    ASSUME ConsoleInv, NEW q \in Requests, NEW p \in Payloads, Receive(q, p)
    PROVE  /\ \A x \in Requests \ {q} : request'[x] = request[x]
           /\ \A u \in Users : q \notin tab[u].pending
           /\ request'[q].pc # "idle"
           /\ (Complete(p) => Found(p)) => request'[q].code # 404
<1>1. request \in [Requests -> RequestOf(Ids)]
      BY Parts DEF ConsoleInv, InParts
<1>2. \A u \in Users : q \notin tab[u].pending
      BY DEF Receive, ConsoleInv, TabsAgree
<1>3. ASSUME NEW code, Reply(q, code)
      PROVE  /\ \A x \in Requests \ {q} : request'[x] = request[x]
             /\ request'[q].pc # "idle" /\ request'[q].code = code
      <2> DEFINE y == [Idle EXCEPT !.pc = "replied", !.code = code, !.row = request[q].row]
      <2>1. y.pc = "replied" /\ y.code = code
            BY DEF Idle
      <2>2. request' = [request EXCEPT ![q] = y]
            BY <1>3 DEF Reply
      <2> HIDE DEF y
      <2> QED BY <1>1, <2>1, <2>2
<1>4. CASE request' = [request EXCEPT ![q] = [Idle EXCEPT !.payload = p,
                 !.pc = IF p.default THEN "clear" ELSE "create"]]
      <2> DEFINE y == [Idle EXCEPT !.payload = p,
                         !.pc = IF p.default THEN "clear" ELSE "create"]
      <2>1. y.pc # "idle" /\ y.code = 0
            BY DEF Idle
      <2>2. request' = [request EXCEPT ![q] = y]
            BY <1>4
      <2> HIDE DEF y
      <2> QED BY <1>1, <1>2, <2>1, <2>2
<1> QED BY <1>2, <1>3, <1>4 DEF Receive

LEMMA VisitKeeps ==
    ASSUME ConsoleInv, IInv', NEW u \in Users, NEW page \in Pages, Visit(u, page)
    PROVE  ConsoleInv'
<1> DEFINE t == Opened(page)
<1>1. UNCHANGED <<table, logs, request>> /\ tab' = [tab EXCEPT ![u] = t]
      BY DEF Visit, vars
<1>2. MoreRows
      BY <1>1, SameRows
<1>3. /\ t.shown = {} /\ t.pending = {} /\ t.message = NoMessage
      BY DEF Opened
<1>4. t \in Tab
      <2>1. Len(table) \in Nat
            BY Parts DEF ConsoleInv, InParts, RowsInv
      <2>2. NoMessage \in Message
            BY DEF NoMessage, Message
      <2> QED BY <2>1, <2>2 DEF Opened, Tab
<1> HIDE DEF t
<1>5. TruthAfter(t.message)
      <2>1. TruthAfter(NoMessage)
            BY DEF TruthAfter, NoMessage
      <2> QED BY <1>3, <2>1
<1> QED BY <1>1, <1>2, <1>3, <1>4, <1>5, TabStep

\* A load that ends, well or badly.
LEMMA LoadKeeps ==
    ASSUME ConsoleInv, IInv', NEW u \in Users, Show(u) \/ LoadFails(u)
    PROVE  ConsoleInv'
<1>1. tab \in [Users -> Tab] /\ tab[u] \in Tab /\ TabsAgree
      BY DEF ConsoleInv
<1>2. UNCHANGED <<table, logs, request>>
      BY DEF Show, LoadFails, vars
<1>3. MoreRows
      BY <1>2, SameRows
<1>4. NoMessage \in Message /\ TruthAfter(NoMessage)
      BY DEF NoMessage, Message, TruthAfter
<1>5. CASE Show(u)
      <2>1. PICK lists \in Loaded(tab[u].page, tab[u].since) :
              tab' = [tab EXCEPT ![u].loading = FALSE, ![u].shown = lists,
                        ![u].message = IF tab[u].page.clears THEN NoMessage ELSE @]
            BY <1>5 DEF Show
      <2> DEFINE m == IF tab[u].page.clears THEN NoMessage ELSE tab[u].message
                 y == [tab[u] EXCEPT !.loading = FALSE, !.shown = lists, !.message = m]
      <2>2. tab' = [tab EXCEPT ![u] = y]
            BY <1>1, <2>1
      <2>3. lists \subseteq OfPage(tab[u].page) /\ lists \subseteq Nat
            BY DEF Loaded, OfPage, Ids
      <2>4. m \in Message /\ TruthAfter(m)
            BY <1>1, <1>3, <1>4, TruthStays DEF Tab
      <2> HIDE DEF m
      <2>5. /\ y \in Tab /\ y.shown = lists /\ y.message = m
            /\ y.page = tab[u].page /\ y.pending = tab[u].pending
            BY <1>1, <2>3, <2>4 DEF Tab
      <2>6. y.shown \subseteq {r \in Ids' : table'[r].kind \in y.page.lists}
            BY <1>3, <2>3, <2>5 DEF MoreRows, OfPage
      <2> HIDE DEF y
      <2>7. \A q \in y.pending :
              /\ request'[q].pc # "idle" /\ request'[q].code # 404
              /\ \A v \in Users \ {u} : q \notin tab[v].pending
            BY <1>1, <1>2, <2>5 DEF TabsAgree
      <2> QED BY <1>2, <1>3, <2>2, <2>4, <2>5, <2>6, <2>7, TabStep
<1>6. CASE LoadFails(u)
      <2> DEFINE m == [NoMessage EXCEPT !.text = "failed"]
                 y == [tab[u] EXCEPT !.loading = FALSE, !.message = m]
      <2>1. tab' = [tab EXCEPT ![u] = y]
            BY <1>1, <1>6 DEF LoadFails
      <2>2. m \in Message /\ TruthAfter(m)
            BY DEF NoMessage, Message, TruthAfter
      <2> HIDE DEF m
      <2>3. /\ y \in Tab /\ y.shown = tab[u].shown /\ y.message = m
            /\ y.page = tab[u].page /\ y.pending = tab[u].pending
            BY <1>1, <2>2 DEF Tab
      <2> HIDE DEF y
      <2>4. y.shown \subseteq {r \in Ids' : table'[r].kind \in y.page.lists}
            BY <1>3, <2>3, ShownStays
      <2>5. \A q \in y.pending :
              /\ request'[q].pc # "idle" /\ request'[q].code # 404
              /\ \A v \in Users \ {u} : q \notin tab[v].pending
            BY <1>1, <1>2, <2>3 DEF TabsAgree
      <2> QED BY <1>2, <1>3, <2>1, <2>2, <2>3, <2>4, <2>5, TabStep
<1> QED BY <1>5, <1>6

LEMMA SubmitKeeps ==
    ASSUME ConsoleInv, IInv', NEW u \in Users, NEW q \in Requests, NEW p \in Payloads,
           Submit(u, q, p)
    PROVE  ConsoleInv'
<1> DEFINE y == [tab[u] EXCEPT !.pending = @ \cup {q}]
<1>1. tab \in [Users -> Tab] /\ tab[u] \in Tab /\ TabsAgree
      BY DEF ConsoleInv
<1>2. Receive(q, p) /\ tab' = [tab EXCEPT ![u] = y] /\ UNCHANGED <<table, logs>>
      BY <1>1 DEF Submit, Receive
<1>3. MoreRows
      BY <1>2, SameRows
<1>4. Complete(p) => Found(p)
      BY OfferedIsFound DEF Submit
<1>5. /\ \A x \in Requests \ {q} : request'[x] = request[x]
      /\ \A v \in Users : q \notin tab[v].pending
      /\ request'[q].pc # "idle" /\ request'[q].code # 404
      BY <1>2, <1>4, ReceiveRequests
<1>6. /\ y \in Tab /\ y.shown = tab[u].shown /\ y.message = tab[u].message
      /\ y.page = tab[u].page /\ y.pending = tab[u].pending \cup {q}
      BY <1>1 DEF Tab
<1> HIDE DEF y
<1>7. y.shown \subseteq {r \in Ids' : table'[r].kind \in y.page.lists}
      BY <1>3, <1>6, ShownStays
<1>8. TruthAfter(y.message)
      BY <1>3, <1>6, TruthStays
<1>9. \A v \in Users : \A x \in tab[v].pending : x \in Requests \ {q}
      BY <1>1, <1>5 DEF Tab
<1>10. \A x \in y.pending :
         /\ request'[x].pc # "idle" /\ request'[x].code # 404
         /\ \A v \in Users \ {u} : x \notin tab[v].pending
       BY <1>1, <1>5, <1>6, <1>9 DEF TabsAgree
<1>11. \A v \in Users \ {u} : \A x \in tab[v].pending : request'[x] = request[x]
       BY <1>5, <1>9
<1> QED BY <1>2, <1>3, <1>6, <1>7, <1>8, <1>10, <1>11, TabStep

\* The continuation of a form's handler, whatever it says as long as that is true.
LEMMA AnswerKeeps ==
    ASSUME ConsoleInv, IInv', NEW u \in Users, NEW q \in Requests,
           Answered(u, q) \/ Unanswered(u, q)
    PROVE  ConsoleInv'
<1> DEFINE text == IF Answered(u, q) THEN Text(request[q].code) ELSE "failed"
           m == [text |-> text, code |-> request[q].code, row |-> request[q].row]
           y == [tab[u] EXCEPT !.pending = @ \ {q}, !.message = m]
<1>1. tab \in [Users -> Tab] /\ tab[u] \in Tab /\ TabsAgree
      BY DEF ConsoleInv
<1>2. /\ q \in tab[u].pending /\ Done(q)
      /\ tab' = [tab EXCEPT ![u] = y]
      BY <1>1 DEF Answered, Unanswered, Answer
<1>3. UNCHANGED <<table, logs>> /\ request[q].pc = "replied"
      /\ \A x \in Requests \ {q} : request'[x] = request[x]
      <2>1. request \in [Requests -> RequestOf(Ids)]
            BY Parts DEF ConsoleInv, InParts
      <2> QED BY <1>2, <2>1 DEF Done
<1>4. MoreRows
      BY <1>3, SameRows
<1>5. Knows(request[q], table, auditLog, changeLog) /\ DOMAIN table = Ids
      BY Parts DEF ConsoleInv, InParts, RowsInv, Ids
<1>6. request[q].code \in Codes /\ request[q].row \in {0} \cup Ids
      BY <1>5 DEF Knows, RequestOf
<1>7. /\ text \in {"refused", "script", "failed"}
      /\ text = "refused" => request[q].code \in Refusals
      /\ text = "script" => request[q].code = 201
      BY DEF Text
<1> HIDE DEF text
<1>8. m \in Message
      <2>1. request[q].row \in Nat
            <3>1. Len(table) \in Nat
                  BY Parts DEF ConsoleInv, InParts, RowsInv
            <3> QED BY <1>6, <3>1 DEF Ids
      <2>2. request[q].code \in Nat
            BY <1>6 DEF Codes, Refusals
      <2> QED BY <1>7, <2>1, <2>2 DEF Message
<1>9. TruthAfter(m)
      <2>1. m.text = text /\ m.code = request[q].code /\ m.row = request[q].row
            OBVIOUS
      <2>2. request[q].code # 404
            BY <1>1, <1>2 DEF TabsAgree
      <2>3. /\ request[q].code \in Refusals => request[q].row = 0
            /\ request[q].code = 201 =>
                 /\ request[q].row \in Ids /\ request[q].row \in auditLog
                 /\ table[request[q].row].kind \in Billing => request[q].row \in changeLog
            BY <1>3, <1>5 DEF Knows
      <2> HIDE DEF m
      <2> QED BY <1>3, <1>7, <2>1, <2>2, <2>3 DEF TruthAfter, Ids, logs
<1> HIDE DEF m
<1>10. /\ y \in Tab /\ y.shown = tab[u].shown /\ y.message = m
       /\ y.page = tab[u].page /\ y.pending = tab[u].pending \ {q}
       BY <1>1, <1>8 DEF Tab
<1> HIDE DEF y
<1>11. y.shown \subseteq {r \in Ids' : table'[r].kind \in y.page.lists}
       BY <1>4, <1>10, ShownStays
<1>12. \A x \in y.pending : x \in Requests \ {q}
       BY <1>1, <1>10 DEF Tab
<1>13. \A x \in y.pending :
         /\ request'[x].pc # "idle" /\ request'[x].code # 404
         /\ \A v \in Users \ {u} : x \notin tab[v].pending
       BY <1>1, <1>3, <1>10, <1>12 DEF TabsAgree
<1>14. \A v \in Users \ {u} : \A x \in tab[v].pending : request'[x] = request[x]
       BY <1>1, <1>2, <1>3 DEF TabsAgree, Tab
<1> QED BY <1>2, <1>4, <1>9, <1>10, <1>11, <1>13, <1>14, TabStep

\* Other clients, the handlers, and replies that nobody reads.
LEMMA OthersKeep ==
    ASSUME ConsoleInv, IInv', NEW q \in Requests,
           (\E p \in Payloads : CallApi(q, p)) \/ Serve(q) \/ Forget(q)
    PROVE  ConsoleInv'
<1>1. tab \in [Users -> Tab] /\ TabsAgree /\ IInv
      /\ request \in [Requests -> RequestOf(Ids)]
      BY Parts DEF ConsoleInv, InParts
<1>2. ASSUME NEW p \in Payloads, CallApi(q, p)
      PROVE  ConsoleInv'
      <2>1. /\ \A x \in Requests \ {q} : request'[x] = request[x]
            /\ \A u \in Users : q \notin tab[u].pending
            BY <1>2, ReceiveRequests DEF CallApi
      <2>2. MoreRows /\ UNCHANGED tab
            BY <1>2, SameRows DEF CallApi, Receive
      <2> QED BY <1>1, <2>1, <2>2, ApiStep DEF TabsAgree, Tab
<1>3. ASSUME Serve(q)
      PROVE  ConsoleInv'
      <2>1. /\ \A x \in Requests \ {q} : request'[x] = request[x]
            /\ request'[q].pc # "idle"
            /\ request'[q].code # 404 \/ request'[q].code = request[q].code
            BY <1>1, <1>3, HandleKeepsRequests DEF Serve
      <2>2. MoreRows /\ UNCHANGED tab
            BY <1>1, <1>3, HandleAddsRows DEF Serve
      <2> QED BY <1>1, <2>1, <2>2, ApiStep DEF TabsAgree, Tab
<1>4. ASSUME Forget(q)
      PROVE  ConsoleInv'
      <2>1. /\ \A x \in Requests \ {q} : request'[x] = request[x]
            /\ \A u \in Users : q \notin tab[u].pending
            BY <1>1, <1>4 DEF Forget, Done
      <2>2. MoreRows /\ UNCHANGED tab
            BY <1>4, SameRows DEF Forget, Done
      <2> QED BY <1>1, <2>1, <2>2, ApiStep DEF TabsAgree, Tab
<1> QED BY <1>2, <1>3, <1>4

\* ConsoleInv is an invariant of the pages over the API, for any tabs and requests.
THEOREM ConsoleInvariant == ConsoleSpec => []ConsoleInv
<1>1. ConsoleInit => ConsoleInv
      <2> SUFFICES ASSUME ConsoleInit PROVE ConsoleInv
          OBVIOUS
      <2>1. IInv
            BY InitHolds DEF ConsoleInit
      <2>2. \A u \in Users : tab[u] = Opened(BillingPage)
            BY DEF ConsoleInit
      <2>3. Opened(BillingPage) \in Tab
            <3>1. Len(table) \in Nat
                  BY <2>1, Parts DEF InParts, RowsInv
            <3>2. NoMessage \in Message /\ BillingPage \in Pages
                  BY DEF NoMessage, Message, Pages
            <3> QED BY <3>1, <3>2 DEF Opened, Tab
      <2>4. /\ Opened(BillingPage).shown = {} /\ Opened(BillingPage).pending = {}
            /\ Opened(BillingPage).message = NoMessage /\ NoMessage.text = ""
            BY DEF Opened, NoMessage
      <2>5. tab \in [Users -> Tab]
            BY <2>3 DEF ConsoleInit
      <2>6. TabsAgree /\ MessageIsTrue
            BY <2>2, <2>4 DEF TabsAgree, MessageIsTrue
      <2> QED BY <2>1, <2>5, <2>6 DEF ConsoleInv
<1>2. ConsoleInv /\ [ConsoleNext]_consoleVars => ConsoleInv'
      <2> SUFFICES ASSUME ConsoleInv, [ConsoleNext]_consoleVars
                   PROVE  ConsoleInv'
          OBVIOUS
      <2>1. IInv'
            BY RegistryStep, ConsoleStep DEF ConsoleInv
      <2>2. ASSUME NEW u \in Users, Use(u)
            PROVE  ConsoleInv'
            BY <2>1, <2>2, VisitKeeps, LoadKeeps, SubmitKeeps, AnswerKeeps DEF Use
      <2>3. ASSUME NEW q \in Requests,
                   (\E p \in Payloads : CallApi(q, p)) \/ Serve(q) \/ Forget(q)
            PROVE  ConsoleInv'
            BY <2>1, <2>3, OthersKeep
      <2>4. CASE UNCHANGED consoleVars
            <3>1. MoreRows /\ UNCHANGED <<tab, request>>
                  BY <2>4, SameRows DEF consoleVars, vars
            <3> QED BY <2>1, <3>1, ApiStep DEF ConsoleInv, TabsAgree
      <2>5. ASSUME NEW r \in SeedRows \cap Ids, Reseed(r)
            PROVE  ConsoleInv'
            <3>1. MoreRows
                  BY <2>5, SeedAddsRows DEF Reseed, ConsoleInv
            <3>2. UNCHANGED <<tab, request>>
                  BY <2>5 DEF Reseed, UpsertDefault
            <3> QED BY <2>1, <3>1, <3>2, ApiStep DEF ConsoleInv, TabsAgree
      <2> QED BY <2>2, <2>3, <2>4, <2>5 DEF ConsoleNext
<1> QED BY <1>1, <1>2, PTL DEF ConsoleSpec

\* What a page says of a submission is true, whatever other tabs and clients do and
\* whatever fails (the handlers of the forms, apps/web/src/app/*/page.tsx): a refusal
\* left nothing behind and is never for a choice that the page offered, and behind the
\* page's own exception is a row on record.
THEOREM MessagesAreTrue == ConsoleSpec => []MessageIsTrue
<1>1. ConsoleInv => MessageIsTrue
      BY DEF ConsoleInv
<1> QED BY <1>1, ConsoleInvariant, PTL

=============================================================================
