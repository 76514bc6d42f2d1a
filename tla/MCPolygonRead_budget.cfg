SPECIFICATION PolygonSpec
CONSTANTS
  Queries <- MCQueries
  Calls <- MCCalls
  Requests <- MCRequests
  Unlimited = Unlimited
  FillValue = FillValue
INVARIANT
  BudgetKept
CHECK_DEADLOCK FALSE
