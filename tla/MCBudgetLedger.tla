--------------------------- MODULE MCBudgetLedger ---------------------------
EXTENDS BudgetLedger, TLC

\* Reservations are interchangeable, and so are scopes: no action or property
\* tells them apart.
TreeSymmetry == Permutations(Reservations) \cup Permutations(Scopes)
=============================================================================
