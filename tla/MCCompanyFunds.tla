--------------------------- MODULE MCCompanyFunds ---------------------------
(* Instances of CompanyFunds for TLC. *)
EXTENDS CompanyFunds, TLC

CONSTANTS h1, h2, t1

MCHandlers == {h1, h2}
MCTasks == {t1}
\* 1.00 yuan locks 1.08; 2.25 yuan locks 2.44, not 2.43, because of the doubles.
MCBudgets == {100, 225}
MCRoundsUp == {225}
MCTotalBudget == [t \in MCTasks |-> 100]

MCSymmetry == Permutations(MCHandlers)
=============================================================================
