---------------------------- MODULE MCReadingHistory ----------------------------
(***************************************************************************)
(* Two users at work on a meter with at most three readings, one in the    *)
(* first month and two in the second, and what is billed for it; and the   *)
(* drafts of a unit with three meters.                                     *)
(***************************************************************************)
EXTENDS Consumption, TLC

CONSTANTS k1, k2, k3, q1, q2

MCKeys == {k1, k2, k3}
MCRequests == {q1, q2}
MCTime == (k1 :> 1) @@ (k2 :> 3) @@ (k3 :> 4)
MCValue == (k1 :> 2) @@ (k2 :> 3) @@ (k3 :> 7)
MCInstants == {1, 3, 4}
MCMeters == {[id |-> 1, type |-> "heat"], [id |-> 2, type |-> "heat"],
             [id |-> 3, type |-> "gas"]}
MCTariff(type, from, to, price, fee) ==
    [type |-> type, validFrom |-> from, validTo |-> to, price |-> price,
     fixed |-> fee > 0, fee |-> fee]
\* Of the first two, one ends where the other begins: a period across competes.
MCTariffs == {MCTariff("heat", 0, 1, 2, 7), MCTariff("heat", 3, 9, 3, 7),
              MCTariff("gas", 0, 9, 5, 9), MCTariff("gas", 2, 9, 1, 0)}
MCSymmetry == Permutations(MCRequests)
=============================================================================
