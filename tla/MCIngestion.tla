----------------------------- MODULE MCIngestion -----------------------------
(***************************************************************************)
(* Two handlers at a time over three readings: two with the same unique    *)
(* index entry, and one ahead of the clock for a meter not yet registered. *)
(* A payload of all three is too long.                                     *)
(***************************************************************************)
EXTENDS IngestionClients, TLC

CONSTANTS plain, twin, early, g1, g2, s1, s2

MCReadings == {plain, twin, early}
MCKey == (plain :> "k1") @@ (twin :> "k1") @@ (early :> "k2")
MCMeter == (plain :> "m1") @@ (twin :> "m1") @@ (early :> "m2")
MCTimestamp == (plain :> 0) @@ (twin :> 0) @@ (early :> 1)
MCGateways == {g1, g2}
MCSlots == {s1, s2}
MCMeters == {"m1"}
MCCredentials == {[token |-> g1, serial |-> NoGateway], [token |-> g1, serial |-> g2],
                  [token |-> ApiKey, serial |-> UnknownSerial],
                  [token |-> ApiKey, serial |-> NoGateway],
                  [token |-> BadToken, serial |-> g1]}
MCSymmetry == Permutations(MCSlots)
=============================================================================
