--------------------------- MODULE StoreAndForward ---------------------------
(***************************************************************************)
(* What the gateway and the ingestion endpoint promise together: a reading *)
(* that was buffered is delivered or given up, once and for good; it is    *)
(* reported delivered only when the API holds it; the API holds nothing    *)
(* that was not buffered, and forgets nothing.                             *)
(***************************************************************************)
CONSTANTS Readings, Key

VARIABLES
    state,  \* reading -> absent, pending, delivered or given_up
    store   \* unique index entries the API holds

StateOf == {"absent", "pending", "delivered", "given_up"}
Are(S, status) == \A r \in S : state[r] = status
Become(S, status) == state' = [r \in Readings |-> IF r \in S THEN status ELSE state[r]]

Init == state = [r \in Readings |-> "absent"] /\ store = {}

\* An adapter produces readings.
Accept(S) == Are(S, "absent") /\ Become(S, "pending") /\ UNCHANGED store

\* The API stores buffered readings; it may know about them before the gateway
\* does, and even when the gateway never learns.
Transfer(S) ==
    /\ \A r \in S : state[r] # "absent"
    /\ store' = store \cup {Key[r] : r \in S}
    /\ UNCHANGED state

Confirm(S) ==
    /\ Are(S, "pending")
    /\ \A r \in S : Key[r] \in store
    /\ Become(S, "delivered")
    /\ UNCHANGED store

GiveUp(S) == Are(S, "pending") /\ Become(S, "given_up") /\ UNCHANGED store

Next == \E S \in SUBSET Readings : Accept(S) \/ Transfer(S) \/ Confirm(S) \/ GiveUp(S)

Spec == Init /\ [][Next]_<<state, store>>
=============================================================================
