------------------------------ MODULE MCPolling ------------------------------
(***************************************************************************)
(* Three files, two of which repeat a reading, and three MQTT messages, of *)
(* which a drain takes two.                                                *)
(***************************************************************************)
EXTENDS Polling, TLC

CONSTANTS a, b, c, m1, m2, m3

MCFiles == 1..3
MCContent == (1 :> {a}) @@ (2 :> {a, b}) @@ (3 :> {c})
MCMessages == {m1, m2, m3}
MCMalformed == {2}
=============================================================================
