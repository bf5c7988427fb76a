----------------------------- MODULE MCDelivery -----------------------------
(***************************************************************************)
(* A gateway with two readings: one that the API accepts, and one ahead of *)
(* the clock for a meter that may be registered later.                     *)
(***************************************************************************)
EXTENDS Delivery, TLC

CONSTANTS plain, early, gw, s1, s2

MCReadings == {plain, early}
MCKey == (plain :> "k1") @@ (early :> "k2")
MCMeter == (plain :> "m1") @@ (early :> "m2")
MCTimestamp == (plain :> 0) @@ (early :> 1)
MCGateways == {gw}
MCSlots == {s1, s2}
MCOneSlot == {s1}
MCMeters == {"m1"}
MCAllMeters == {"m1", "m2"}
MCPoison == {early}
Right == [token |-> gw, serial |-> gw]
MCConfigs == {Right}
MCEitherConfig == {Right, [token |-> BadToken, serial |-> gw]}
MCSymmetry == Permutations(MCSlots)
=============================================================================
