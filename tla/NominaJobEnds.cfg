SPECIFICATION FairSpec
CONSTANTS
  e1 = e1  e2 = e2  w1 = w1  w2 = w2  r1 = r1  r2 = r2
  Employees = {e1}
  Workers = {w1, w2}
  Requests = {r1}
  FirstJob = FirstJob
  Nobody = Nobody
  MaxCrashes = 1
  MaxRedeliveries = 1
PROPERTIES CalculationEnds
CHECK_DEADLOCK FALSE
