--------------------------- MODULE MCCommandAnalysis ---------------------------
(***************************************************************************)
(* Instance of CommandAnalysis for TLC: two banks of two mats.             *)
(***************************************************************************)
EXTENDS CommandAnalysis, TLC

CONSTANTS b1, b2, m1, m2

MCBank == {b1, b2}
MCMat == {m1, m2}
MCSymmetry == Permutations(MCBank) \cup Permutations(MCMat)
=============================================================================
