---------------------------- MODULE MCRecruitment ----------------------------
(* Instances of Recruitment for TLC. *)
EXTENDS Recruitment, TLC

CONSTANTS h1, h2, w1, w2

MCHandlers == {h1, h2}
MCWorkers == {w1, w2}

MCSymmetry == Permutations(MCHandlers) \cup Permutations(MCWorkers)
=============================================================================
