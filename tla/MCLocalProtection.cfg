SPECIFICATION FairSpec
CONSTANT Budgets <- MCBudgets
PROPERTIES
  ResultsAreTrue
  TestsEnd
CHECK_DEADLOCK FALSE
