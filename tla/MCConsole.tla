-------------------------------- MODULE MCConsole --------------------------------
(***************************************************************************)
(* One building with two meters, a default tax profile and a default       *)
(* allocation key, both the seed's; two requests at a time, of one tab and *)
(* of scripts, until two rows are added, and the seed at any moment.       *)
(***************************************************************************)
EXTENDS Console, TLC

CONSTANTS q1, q2, u1

MCRequests == {q1, q2}
MCUsers == {u1}
P(kind, building, refs) ==
    [kind |-> kind, building |-> building, refs |-> refs, old |-> None, at |-> None,
     key |-> 0, default |-> FALSE, valid |-> TRUE]
MCStored == <<P("building", None, {}), P("meter", 1, {}),
              [P("meter", 1, {}) EXCEPT !.key = 1],
              [P("profile", None, {}) EXCEPT !.default = TRUE],
              [P("key", 1, {}) EXCEPT !.default = TRUE]>>
MCSeedRows == {4, 5}
Replaced(old, new, at) ==
    [P("replacement", 1, {new}) EXCEPT !.old = old, !.at = at]
MCPayloads ==
    {[P("profile", None, {}) EXCEPT !.default = TRUE],
     [P("key", 1, {}) EXCEPT !.default = TRUE],
     P("component", 1, {4, 5}),
     [P("meter", 1, {}) EXCEPT !.key = 2],
     Replaced(2, 3, 1), Replaced(3, 2, 2),
     \* refused: a building that is not there, a profile that is none, an empty name
     P("unit", 9, {}), P("tariff", None, {5}), [P("user", None, {}) EXCEPT !.valid = FALSE]}
MCSymmetry == Permutations(MCRequests)
=============================================================================
