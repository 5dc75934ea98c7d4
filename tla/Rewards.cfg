SPECIFICATION Spec
CONSTANTS
  a1 = a1
  a2 = a2
  a3 = a3
  a4 = a4
  a5 = a5
  None = None
  Attempts = {a1, a2, a3, a4, a5}
  KeyOf <- MCKeyOf
  BodyOf <- MCBodyOf
  Objects = {"case1", "case2", "case3"}
  Organizations = {"store"}
  Months = {1, 2}
  Now = 2
  Connections = 2
  RewardPoints = 1
  BudgetPoints = 1
  MonthlyCapPoints = 1
INVARIANTS
  BudgetOverrunBounded
  RetriesFindTheirRecord
PROPERTIES
  KeyPromiseKept
  EveryAttemptAnswered
\* Once every attempt is answered the system rests.
CHECK_DEADLOCK FALSE
