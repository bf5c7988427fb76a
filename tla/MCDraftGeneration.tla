-------------------------- MODULE MCDraftGeneration --------------------------
(***************************************************************************)
(* A building with two meters in one unit and, perhaps later, a meter in   *)
(* another; runs that overlap while the billing data changes once.         *)
(***************************************************************************)
EXTENDS DraftGeneration, TLC

CONSTANTS r1, r2, m1, m2, m3

MCRuns == {r1, r2}
MCMeters == {m1, m2, m3}
MCUnit == (m1 :> "u1") @@ (m2 :> "u1") @@ (m3 :> "u2")
MCInitialMeters == {m1, m2}
MCSymmetry == Permutations(MCRuns)
=============================================================================
