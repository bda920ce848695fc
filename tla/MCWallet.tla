------------------------------ MODULE MCWallet ------------------------------
(* Instances of Wallet for TLC. *)
EXTENDS Wallet, TLC

CONSTANTS h1, h2, w1, w2

MCHandlers == {h1, h2}
MCWithdrawals == {w1, w2}

\* A settlement of 2.00 yuan pays out 1.84: enough for one withdrawal of the
\* minimum, not for two.
MCAmounts == {100}
MCGross == {200}

MCSymmetry == Permutations(MCHandlers) \cup Permutations(MCWithdrawals)
=============================================================================
