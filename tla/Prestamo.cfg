SPECIFICATION Spec
CONSTANTS
  r1 = r1  r2 = r2  n1 = n1  n2 = n2  n3 = n3
  Requests = {r1, r2}
  Nominas = {n1, n2, n3}
  MaxMonto = 3
  MaxInteres = 1
  MaxFecha = 3
  MaxOperations = 5
  Planes <- MCPlanes
SYMMETRY MCSymmetry
INVARIANTS BalanceIsAccounted TotalsMatchRows InterestOnce AmortizacionCuadra
CHECK_DEADLOCK FALSE
