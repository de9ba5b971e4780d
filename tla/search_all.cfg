\* Every eligibility table of three rows and two columns, every relation.
SPECIFICATION Spec
CONSTANTS
  R = 3
  C = 2
  Units <- UpToRefused
  Budgets <- AroundTheLimits
INVARIANTS
  PrefixIsCompatible
  VerdictIsRight
  FirstSolution
  BudgetIsExact
\* The search ends.
CHECK_DEADLOCK FALSE
