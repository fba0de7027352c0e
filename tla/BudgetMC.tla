------------------------------ MODULE BudgetMC ------------------------------
\* The instances of Budgets that TLC checks.
EXTENDS Budgets
=============================================================================
