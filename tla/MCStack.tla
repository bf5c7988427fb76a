--------------------------------- MODULE MCStack ---------------------------------
(***************************************************************************)
(* One reading that users and the gateway may store, one draft that users  *)
(* may generate; the container's seed and one run by hand; a gateway whose *)
(* requests take up to one clock step, and a worker whose updates end in   *)
(* the step in which they began, over a window of two steps.               *)
(***************************************************************************)
EXTENDS Stack

CONSTANTS r1, seeded, d1, boot, hand

MCReadings == {r1}
MCDrafts == {seeded, d1}
MCSeeds == {boot, hand}
=============================================================================
