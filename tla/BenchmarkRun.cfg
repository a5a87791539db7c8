\* Programs of one or two workloads over two backends, read by one request for the result.
SPECIFICATION Spec
CONSTANTS
  Ships = {"s1", "s2"}
  ShortShips = {"s2"}
  LongStep = 2000
  Steps = {200, 2000}
  DefaultSteps <- MCDefaultSteps
  NoStep = NoStep
  Duration = 1
  Tries = 2
  Requests <- MCRequests
  Worlds <- MCWorlds
CHECK_DEADLOCK FALSE
INVARIANTS TypeOK RowsFollowPlan WholeWhenNotPartial MeasuredAlone
PROPERTY RunEnds
