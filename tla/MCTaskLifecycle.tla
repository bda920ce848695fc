--------------------------- MODULE MCTaskLifecycle ---------------------------
(* Instances of TaskLifecycle for TLC. *)
EXTENDS TaskLifecycle, TLC

CONSTANTS h1, h2

MCHandlers == {h1, h2}

MCSymmetry == Permutations(MCHandlers)
=============================================================================
