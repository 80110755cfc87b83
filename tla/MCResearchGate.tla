----------------------------- MODULE MCResearchGate -----------------------------
(***************************************************************************)
(* Model checking of ResearchGate: nothing tells one reviewer from another *)
(* but being another.                                                      *)
(***************************************************************************)
EXTENDS ResearchGate, TLC

MCSymmetry == Permutations(Reviewer)
=============================================================================
