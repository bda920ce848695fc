------------------------------ MODULE MCDispute ------------------------------
(* Instances of Dispute for TLC. *)
EXTENDS Dispute, TLC

CONSTANTS h1, h2, d1, d2, a1, a2, e1, e2

MCHandlers == {h1, h2}
MCDisputes == {d1, d2}
MCAssignments == {a1, a2}
MCEvidence == {e1, e2}

MCSymmetry == Permutations(MCHandlers) \cup Permutations(MCDisputes)
              \cup Permutations(MCAssignments) \cup Permutations(MCEvidence)
=============================================================================
